# wavelen, specified in TLA+

wavelen is a Go HTTP server over PostgreSQL, with a browser client, that keeps
collections of colours for user accounts. These modules model the server and
its database statement by statement, the process around the handlers, the way
of one request through middleware and handler, the pages of a listing, the
colour arithmetic, and the parts of the browser client that share state between
overlapping requests. TLC checks them on small instances, and TLAPS proves the
invariants that matter for every instance.

| Modules | What they model | Proofs |
|---|---|---|
| `Schema`, `Storage`, `AuthSvc`, `UserSvc`, `CollectionSvc`, `ColorSvc`, `Services`, `WavelenAPI` | the database, its transactions, the services, and the API they implement | `ServicesProofs` |
| `Listing` | keyset pages and their cursor | `ListingProofs` |
| `Server` | startup, the bcrypt cap, the pool, shutdown | `ServerProofs` |
| `Handlers`, `Middleware` | one request and its answer, from the request id to the access log | `HandlersProofs` |
| `Color`, `ReadOnly` | sort key, wheels, gamut, palette | `ColorProofs` |
| `WebClient` | session, collections and the saved grid of the page | `WebClientProofs` |
| `CollectionTabs` | the tabs, their form and the active collection | `CollectionTabsProofs` |
| `Strips` | selection, info panel and pinned strips | `StripsProofs` |

Each `MC` module gives the constants of its specification their values for TLC.
An operator introduced as a mutant or an erroneous variant is used by no
specification: it is a plausible bug of the code beside it, kept to show that
the properties notice it.

## The system

| Part | State | Operations | How it talks to the rest |
|---|---|---|---|
| Database schema (`migrations/`) | tables `users`, `collections`, `collection_colors`, `tokens`; row locks | the SQL of `internal/storage` | every service, through `storage.Storage` |
| `storage` | the pool or one transaction | one method per statement, `InTx` | called by the services; PostgreSQL at READ COMMITTED |
| `usersvc` | none | signup (two inserts in a transaction), read, delete, export | user and collection repositories |
| `authsvc`, `server/auth.go` | none | token lookup before every authenticated handler, login, logout | token and user repositories |
| `collectionsvc` | the quota | create (transaction, user lock, count), list, get, update, delete (read, then delete) | collection repository |
| `colorsvc` | the quota | add (transaction, collection lock, count), delete one, delete all, list a page | colour repository |
| `handlers` | none | decode, call one service method, map the error to a status | services |
| `handlers/cursor.go`, `storage/color_sort.go` | none (the cursor carries the state of a listing) | encode, decode, keyset predicate | `ListColors` |
| `server/limit.go` | a semaphore | acquire with a wait, release | wraps signup and login (bcrypt) |
| `server/server.go`, `cmd/api` | the listener, the pool, signals | start, drain, stop, configuration | everything |
| `server/middleware.go`, `requestid`, `dbtrace` | per request | log, recover, trace | wrap every request |
| `color`, `palette`, `shades`, `icon` | constants | colour arithmetic, fixed tables | read-only routes |
| `cmd/migrate` | `schema_migrations` | apply the migrations | runs before a deployment |
| `web/app.js` | session, collections, saved colours, strips | the browser client | the HTTP API |

What is hard here is concurrency in the database. Requests run at once, each a
series of statements at READ COMMITTED; some hold a row lock from one statement
to COMMIT, some check in one statement and write in another without any
transaction; any statement may fail, any client may hang up, the process may
die, and the connection may break after COMMIT but before its acknowledgement.
The places where that bites are the "hazards" of `PROJECT.json`.

In the browser it is the event loop: every `await` lets another click, answer
or timer run, and what was read before it may no longer hold.

What makes each part correct:

- schema: no orphan row, unique nicknames, exactly one default collection for
  each account;
- accounts: an account never exists without its default collection, two signups
  never share a nickname, a deleted account leaves nothing behind;
- authentication: no token outlives its user;
- collections: the quota holds under concurrent creates, a default collection
  goes only with its account, nobody writes another user's;
- colours: the quota holds under concurrent adds, one add of a colour is told it
  created it;
- the API as a whole: each request that writes is one atomic change, and every
  request ends;
- listing: pages follow each other in order, nothing that stays is skipped, a
  client that follows the cursors comes to an end;
- process: a bcrypt slot is held exactly by a running request, a graceful
  shutdown cuts nothing short and closes the pool last, a signal ends it;
- request handling: nothing malformed reaches a service, the status is one the
  API documents, the headers fit it, the access log says what was sent;
- colours: the parts of a stored sort key never carry into each other, a turn of
  the HSL wheel keeps a colour's tone, an OkLCh harmony is one sRGB shows and is
  moved no more than that takes;
- client: no answer that comes late shows or deletes what belongs to another
  collection, account or colour.

## Modules of the core

    Schema            the committed tables, one operator per committed change
      WavelenAPI      the abstract API: each request one atomic change
      Storage         requests in flight, locks, commit, abort, crash
        AuthSvc  UserSvc  CollectionSvc  ColorSvc
          Services    all of them interleaved; refines WavelenAPI
            MCServices    the instance TLC checks

`Schema` holds `users`, `collections`, `colors` and `tokens` as functions from
identifiers to rows, `None` when there is no row, and states the invariants of
the tables. `Storage` adds `rq`, the request each handler goroutine is serving
(its `pc` is the SQL statement it sends next, its fields what the Go code holds
in variables), `userLock` and `cltLock`, the row locks that outlive a statement,
and `answer`, what the last step answered. The four service modules have one
action per statement:

| Handler | Steps |
|---|---|
| POST /users | `StartSignUp`, `InsertUser`, `InsertDefault`, `CommitUser` |
| GET /me, GET /me/export | `Authenticate`, `GetMe`; `ExportUser`, `ExportCollections` |
| DELETE /me | `Authenticate`, `DeleteUser`, `CascadeToCollection` once per collection, `CommitDeleteUser` |
| POST /tokens, DELETE /tokens | `FindUser`, `InsertToken`; `Authenticate`, `DeleteToken` |
| POST /me/collections | `Authenticate`, `LockUser`, `CountCollections`, `InsertCollection`, `CommitCollection` |
| PATCH, DELETE /me/collections/{id} | `Authenticate`, `UpdateCollection`; `ReadCollection`, `DeleteCollection` |
| POST .../colors | `Authenticate`, `LockCollection`, `CountColors`, `InsertColor`, `CommitColor`; at the quota `HasColor` |
| DELETE .../colors[/{hex}], GET .../colors | `Authenticate`, `ResolveCollection`, then `DeleteColor`, `DeleteAllColors` or `ListColors` |
| any | `Abort` (an error, a hang up, a deadline), `Crash` |

How PostgreSQL is modelled. A row a transaction has inserted is a field of its
request until COMMIT, so no other request can read it. `SELECT .. FOR UPDATE`
sets the lock of an existing row; a statement that needs a locked row waits,
that is, its guard is false. An
UPDATE, a DELETE or a lock waits only for a row its WHERE clause matches. The
foreign-key check of `INSERT INTO tokens` and
the unique index on nicknames wait in the same way. `DELETE FROM users` is one
statement but locks the user row and then each collection, so it is several
steps. A single-statement write outside a transaction is one step: its locks
begin and end with it. A broken connection after COMMIT is the `500` that
`Committed` may answer.

Abstractions. A value a client sends is chosen at the statement that first reads
it, which allows every value at less state. An identifier is fresh when nothing
mentions it; PostgreSQL never reissues one, but clients may send any id, so a
reissued id behaves like a guessed one. Validation happens before any state is
touched and is left out. After a hang up the server side of a statement may
still be running for a moment in PostgreSQL while the handler has already
returned; `Abort` rolls back at once.

## Properties and runs of the core

The runs of the core check `MCServices`. In `accounts` identifiers are
symmetric model values; `colors` checks liveness, where symmetry would be
unsound.

| Run | Instance | Checks |
|---|---|---|
| `accounts` | 2 users, 3 collections, 2 tokens, 2 nicknames, 2 requests, 1 colour, quotas of 1 colour and 2 collections, every operation that writes an account, a collection or its colours, and the export and list of collections | nicknames apart, one default collection, referential integrity, the quota, nothing left of a deleted account, default collection kept, only the owner writes |
| `colors` | 1 user, 2 collections, 3 colours, 2 requests, both quotas 2 | the quota, a count that stays true until COMMIT, locks held exactly where needed, a colour is created once, `Services` implements `WavelenAPI`, every request is answered |

The bounds are the smallest at which the interesting case happens: a quota race
needs two requests past the count with room for one of them (a third colour at
a quota of 2); ownership needs two users, and the colour operations: they check
the owner in one statement and write by collection id alone in a later one,
between which the collection may be deleted while the other user writes and
creates (`FreshCltReissued` is what an id reissued in between would do); the
cascade needs a second collection held by an add. `Logout` and the reads of one
row are in `colors`, to keep each run within minutes. `UsersLeft` and
`TokensLeft` keep a request from starting when no identifier is left for it; a
collection insert with none left waits or aborts. More requests, users and rows
are the business of the proofs.

Fairness. `EveryRequestAnswered` assumes strong fairness of each request's own
statements: PostgreSQL queues the waiters of a row lock, so a waiter whose lock
is free again and again gets it. Nothing is assumed of `Abort`, `Crash` or new
requests.

## What is proved of the core

For any sets, any number of requests and any positive quotas, from the
assumptions `QuotaAssumption`, `DataAssumption` (finitely many collections and
colours exist), `NoneAssumption`, `EnabledAssumption` and `ReqAssumption`:

- `TypeCorrect`, the type invariant, and what every change of `Schema`
  preserves;
- `Invariance`, the inductive invariant `IInv`, and from it
  `ColorQuotaKept`, `CollectionQuotaKept`, `CountsStayTrue`, `OneDefault`,
  `NicknamesApart`, `NoOrphans` and `LockDiscipline`;
- `Refinement`, `Services` implements `WavelenAPI`;
  `APIConsistent`, the atomic API keeps the table invariants;
  `DefaultGoesWithAccount`, a default collection leaves only with its account,
  which the atomic API promises and the refinement hands down;
  `OnlyOwnersWrite`, no step of a request changes another account's collection,
  step by step from `IInv`; `CreatedOnce`, a 201 to an add means this request
  saved the colour; and `DeletionIsComplete`, a 204 to the deletion of an account
  means nothing of it is left. The last two also need `OpTied`, an invariant
  that ties the operation of a request to its statements: an answer names the
  operation, the write is made by a statement.

The argument. The quota is not inductive: that a commit keeps it needs
`RoomLeft`, that what was counted still leaves room; that needs `LocksHeld`,
that the transaction still owns the row all its rivals must lock; and that needs
that a lock is released with the transaction and that rows under a lock are not
deleted. Nicknames and default collections need `PendingRowsDistinct`, that
uncommitted rows collide with nothing. Refinement needs `ResolvedStillTrue`,
that a request which checked something without a lock can still rely on the
part of it that cannot change: the collection may be gone, but is not someone
else's and not a default one. `Schema` changes are proved once and
used for the server and for the atomic API alike.
`ServicesProofs` goes in that order: types, invariant, refinement; the invariant
has one lemma per conjunct and one step per action.

## Listing

A listing is a client that asks for a page, then for the page after the cursor
it was given, while others add and delete colours. The server keeps nothing in
between: `params` and `next` are what the client holds, `earlier` and `page`
the rows it has been shown, `since` a history of the rows that were there from
its first page on. `Follows` is the comparison `keyset` builds for the sort and
the order, `Serve` the query with its one extra row, `Encode` and `Accepts` the
cursor and its check. An add is `BeginAdd` and `CommitAdd`, because
`created_at` is the time its transaction began.

| Run | Instance | Checks |
|---|---|---|
| `listing` | 3 colours of which two share a perceptual key, 2 instants, pages of 1, every sort and order | `PagesInOrder`, `NothingSkipped`, `ListingEnds` |

Three colours are the fewest at which a page is full, a next one exists, and a
row between them can go (longer pages are the business of the proof); two with one key need the tie-break by hex.
`ListingEnds` assumes only that the client follows every cursor it is given. It
is stated for the sorts by hex and by colour: by `created_at`, colours can be
deleted and added again ahead of an ascending cursor for ever.

`ListingProofs` proves both safety properties for any colours, keys and limits.
The inductive invariant says where the cursor stands (`CursorIsLast`: at the
last row listed, even if that row is gone) and that what stayed is listed or
still ahead of it (`StillToCome`). A colour that commits behind the cursor of
an ascending listing by `created_at` is not shown; `NothingSkipped` does not
promise it.

## The process

`Server` starts in `run`: `Configure` reads the environment, of which
`serverConfig`, `handlerConfig`, `webFS` and `openPool` say what is accepted,
and serves with a pool or exits. It has the semaphore of `limitConcurrent` with the two selects of
`acquire`, the connection pool, and `run` with `Start`: the race of the signal
and a failing listener, `Shutdown` and its timeout, the pool closed last, the
second signal. A handler is what it does to slots and connections. Two facts of
the Go runtime are assumed: a slot given back goes to a request parked on the
channel if there is one, and a parked request leaves its select for the first
case that becomes ready. Requests arrive while the process serves, and on
connections accepted before also while it drains and after a failed end, until
it is gone.

| Run | Instance | Checks |
|---|---|---|
| `server` | 2 limited requests and 1 other, cap 1, pool of 1, each setting sound or at the edge that is refused | `SlotsAreHeld`, `NoIdleSlot`, `CleanExit`, `PoolOutlivesHandlers`, `EveryRequestEnds`, `SignalEnds` |

Two requests for one slot make one wait, while the holder may itself wait for
the only connection, which the third request has. Fairness: `run` is scheduled, timers
fire, a statement ends, the pool serves its waiters in turn (strong fairness),
and a handler issues finitely many statements (strong fairness of `Return`).
Nothing is assumed of signals, hang-ups or arrivals. Deadlock is not checked:
the process ends.

`ServerProofs` proves the safety properties for any requests, cap and pool. The
invariant adds that a slot holder runs (`SlotsRun`), that connections are
counted by the requests that query (`ConnsAreHeld`), and what each phase of
`main` implies (`Phases`).

## One request

`Handlers` takes one request through the whole chain. `newMux` gives every
route the stages its handler passes, in their order: the limiter's slot or the
token check, path, body, fields and query, the one call of a service, the
headers set on the way. `req.bad` is the set of the parts that are malformed,
any subset of what the route takes. `Check` passes a part or answers what
`writeRequestError` says; `Serve` is the service with any error it can return,
which `writeStorageError` maps; `Busy`, `GiveUp`, `LookupFails`, `Ping` and
`ListPalette` are the other ways out. A redirect that the mux answers for a path
it cleans counts as a file of the page. `WriteStatus` and `WriteBody` are `WriteJSON` and
`WriteError`; `head` are the headers set so far and `out` those that went with
the first byte.

`Middleware` is what wraps every handler: `rec` is the `statusRecorder`, `sent`
what net/http has committed. There the handler writes headers and bodies in any
order, panics, aborts with `http.ErrAbortHandler`, or returns, and the client may
hang up at any time. `Handlers` is shown to implement it, so what
`Middleware` promises of a log line holds for every route. A 1xx status is left
out, as the code's own comment says it is not handled and no handler sends one.
An aborted request has no line: its panic passes through the logging as well.
`sent.bytes` are the bytes net/http accepted, which for HEAD it does not put on
the wire.

| Run | Instance | Checks |
|---|---|---|
| `handlers` | every route, every set of malformed parts, every service error, bodies of 1 or 2 bytes | `LoggedIsSent`, `PanicAnswered`, `ServedIfSound`, `DocumentedAnswer`, `HeadersFit` |

Routes, parts and errors are all there; only the size of a body is bounded, and
two bytes tell a file written in two pieces. Deadlock is not checked: a request
ends. `Statuses` are the responses `api/api.yaml` lists. It lists no 404 for
a login whose account goes away between the password check and the token insert
(`LoginFailsOneWay` below), so `DocumentedAnswer` excepts it. A panic after
Cache-Control was set makes a 500 that a cache may keep; `HeadersFit` speaks
only of answers a handler finished. The 500 of `HandleDeleteToken` for a context
without a token hash cannot happen behind `authenticate` and is left out.

`HandlersProofs` proves `HandlersImplementMiddleware` for any body size: each
stage is a stutter of `Middleware` and each answer one of its writes. Its
inductive invariant `MInv`, that recorder and net/http agree, what a line
was made from and which panics were recovered, gives `AccessLogIsTrue` and
`PanicsAreAnswered`.

What a route answers follows from the invariant `HInv` of the stages, which
`HandlersInvariance` proves. `RouteChains` first says of each of the 22 routes,
from the sequences in `newMux`, which stages it has (`Passes`: what its path and
method call for, and nothing else), that nothing is checked after the service,
that the headers of a success are set last, and that every status a stage
refuses with is one `api.yaml` lists for the route. The invariant then carries a
request along: every malformed part is among the stages still to come
(`Walking`), so when the service is met nothing is bad (`Sound`); a header of a
success is set only when no stage is left that could refuse, a challenge only
with the 401 of the token check (`Headed`); and nothing is written before the
answer is known, and then that is what is written (`Told`). The service is the
one place that needs the order and not only the set: parts may be bad together,
and a check after the call would come too late. `OnlySoundServed`,
`AnswersDocumented` and `HeadersFollowOutcome` follow, for any body size. They
are about finished answers of handlers: the files of the page and a panic's 500
are `Middleware`'s.

## Colours

`Color` is the arithmetic of `internal/color` where it is exact or cut to whole
numbers. OkLab's matrices and roots, the gamma curve and a luminance are inputs:
the sort key takes lightness and chroma in ten thousandths and a hue in degrees;
the gamut of a hue is the widest chroma at each lightness. A colour whose chroma
is below `neutralCut` has no hue to turn: `rotateOkLCh` and the scales answer the
colour itself, unfitted, and it is one that sRGB shows because it came from
there. On the HSL wheel an
angle is counted so that every harmony turns by whole steps, and the half that
may be left of a channel is rounded up or down, as the floating point before it
left it. `ReadOnly` is one request of those that are computed from colours
alone: the values of a colour, its harmonies, the palette in an order, and two
saved colours with the keys stored beside them.

| Run | Instance | Checks |
|---|---|---|
| `colours` | all colours of 6 levels a channel and every harmony; keys on both sides of each rounding, cutoff and wrap; 2187 gamuts over 7 lightnesses | `KeyOrder`, `WheelKeepsTone`, `GamutFitted` |

Six levels give every order of the channels with spans both odd and even, and
grays. Gamuts of three widths over seven lightnesses have one, two and three
peaks, samples off the lightness that was asked for, and chromas no sample
holds; the search halves 3 times there instead of 20, which ends between two
neighbours as it does in the code.

`ColorProofs` proves `KeysKeepOrder` for any measured values and
`HarmoniesKeepTone` for channels of any depth and every turn of the wheel,
sector by sector, from `ColorAssumption` and `ReadOnlyAssumption`.

It also proves `HarmoniesAreFitted`: the gamut search answers colours that sRGB
shows (`ShownInGamut`) and moves them least (`FitMovesLeast`), for every gamut,
every set of sampled lightnesses and every resolution. Two things are assumed.
`GamutAssumption` says that the halvings suffice: `gapAfter` is the widest gap
between the two ends after each of them, and the last one leaves only neighbours
(TLC evaluates it for the run). This is the comment at `gamut.go:13` in whole
numbers: 20 halvings end between neighbours for any `Fine` below 2^20, which is
finer than the 1e-6 it speaks of. And the gamut of a hue holds, at each
lightness, every chroma below its widest one; across lightnesses it may have any
shape, with as many peaks as it likes, since `lightnessSamples` is there because
"sRGB is only nearly convex".

What a recursive function returns needs induction, for which the library's rules
take an operator and cannot be instantiated here. Three lemmas replace them, all
about sets: `LeastNat`, from the well-founded order of the naturals, `Induction`
for a set closed under successor, and `Iterated`, that a function defined from
its value one step before exists. From them `Gaps` and `HalvedRuns` give the
recursive functions their equations, and one search is two invariants of its
halvings, `Upward` and `Downward`, one for each side the fitting end may lie on:
the one end fits, the other does not, and the gap is at most `gapAfter`.
`BisectUpward` and `BisectDownward` read the result off the last one,
`MaxChroma` and `Fit` apply it to the two nested searches.

## The browser client

One turn of the event loop is one action: a user event, a timer, or what runs
after an answer up to the next `await`. Answers come in any order, and any
request may fail.

`WebClient` has the module's variables (`session`, `collections`,
`activeCollection`, `collectionsRequest`, `nextCursor`, `savedGeneration`) and
the grid as the record `page`, the activations of async functions as `tasks`,
the dialog that asks for the nickname before it deletes the account
(`OpenDeleteAccount`, `NicknameFetched`, `SubmitDelete`, `CancelDelete`), and
the server as the tokens that are live. `ServeAuthed` answers a request,
with a 401 once its token has ended; `Continue` runs what comes after the await.

| Run | Instance | Checks |
|---|---|---|
| `web` | 3 activities, 2 list requests, 2 collections, 1 account with 1 token | `MoreOffWhileLoading`, `ActiveInList`, `OneListingShown`, `GridIsSelected` |

Three activities let two loads overlap while something else changes the
selection or ends the session. `OneListingShown` and `GridIsSelected` are about
one login (`OneLogin`: no second token was minted), which is all this instance
has: with a second one the grid keeps what the first left there when the new
`GET /me` fails, and a page sent for the old session may fill it, as the tables
below show. `GridIsSelected` speaks of a page that is logged in: a `GET /me`
answered after a logout brings a nickname back without a token.

`WebClientProofs` proves all four for any number of activations, list requests,
tokens, accounts and collections, from `CltAssumption` (an account has a default
collection) and `NameAssumption`. A turn is a composition of functions of the
page, so the invariant is stated of a page and a table of activations (`Sound`,
`Listing`), the proof has a lemma for each function and each `await`, and a turn
is the chain of the lemmas of what it calls (`Keeps`). `OneListingShown` and
`GridIsSelected` are not inductive. They need that one login has at most one
list request out and nothing loaded before it is answered (`OneList`), that the
newest load is for the active collection, or what it replaces is
(`NewestOfActive`), that a load left behind by the end of its session finds the
grid empty (`LastShown`), and that until the first login is answered nothing but
logins was sent (`FirstLogin`): the token just minted is on its way to a blank
page or already in the session.

`CollectionTabs` has the tab list, the active collection and the form, and up
to three edits whose requests overlap: the server carries them out in one order
and the answers arrive in another, are refused, or are lost after they took
effect. `rows` are the server's collections, whose ids grow in creation order.
`TabsSettle` is said of each collection by itself: `lost` is a history of the
collections some lost answer was about, and of no other may the list and the
rows differ once no edit is under way. All this is within one session. An edit
answered after its session ended changes the list, the active collection and the
form of whoever is logged in then, and is in neither module: `CollectionTabs`
has no logins, `WebClient` none of these edits.

| Run | Instance | Checks |
|---|---|---|
| `tabs` | 3 edits, 3 collections, 2 versions of each | `ActiveIsATab`, `TabsSettle`, `EditIsOfActive` |

`CollectionTabsProofs` proves the three for any number of edits, collections and
versions. The list is edited from the answers and never fetched again, so
`TabsSettle` needs what each answer on its way will find: a collection that is in
the rows and not yet in the list, or the reverse, is one whose answer is out or
was lost (`TabsFollowRows`), and that no other activation knows of the row an
answered create has still to show (`CreatedApart`). `ActiveIsATab` also needs
that a tab is left to move to, which is the default collection's.

`Strips` has the selection with the picker and its timer, the info panel and its
generation, the wheel, the pins, the section with the `toggle` event the browser
queues, and the strips: their generation, their cache and what each block shows.

| Run | Instance | Checks |
|---|---|---|
| `strips` | 2 colours, 2 wheels, a rotation and a scale, 2 clicks | `SettledStrips`, `InfoSettled`, `StripsSettle` |

The page starts with any selection, pins and wheel and the section open or
closed, so two clicks change the selection and then the pins, the wheel or the
section, with all their answers out at once. The user stops after `MaxClicks`,
so deadlock is not checked. Fairness: the browser runs the timer and delivers
the event, and every request is answered or fails; nothing is assumed of the
user.

`StripsProofs` proves `SettledStrips` and `InfoSettled`, and that a closed section
sends no request (`ClosedIsSilent`), for any colours, harmonies and wheels and
any number of requests. `SettledStrips` is not inductive. It needs
that a request of the current generation is for the selection and that a strip
no such request is out for was drawn for it (`OutCurrent`, `DrawnCurrent`), both
unless a change was skipped while the section was closed; that a skipped change
is made good by the event still queued when the section is open
(`MissedIsDue`); and that a cache entry holds the bands its tag says
(`CacheTagged`).

### Where the client and its comments differ

Three runs check what a comment in `web/app.js` says, and TLC finds the order of
answers that breaks it.

| Run | Property | What happens | What is written |
|---|---|---|---|
| `web_old_list` | `ListOfThisAccount` | a list asked for before a logout lands after the next login | 292: it "cannot appear under the new account" |
| `web_wrong_delete` | `DeletesWhatIsShown` | a swatch of the old collection is deleted from the one just selected | 510: the active collection is the one shown |
| `web_wrong_account` | `DeletesNamedAccount` | a login answered while the delete dialog is open: the account that goes is not the one whose nickname was typed | 61: the nickname is "safe stale", 62: it is what the dialog checks |

## Statements that no run checks

The modules state more of what comments and documents say and interleavings
break. None of the runs lists these; named as the only property of the
configuration in the last column, each has a counterexample.

| Module | Property | What happens | In |
|---|---|---|---|
| `Services` | `LoginFailsOneWay` | the account goes between the password check and the token insert: 404 | `accounts.cfg` |
| `Services` | `RepeatedDeleteMeIs401` | two deletions of one account pass authentication: the second is 404, where `user_handler.go:99` says "a repeat answers 401" | `accounts.cfg` |
| `Services` | `LogoutOnce` | two logouts pass authentication: both 204 | `colors.cfg` |
| `Services` | `ExportHasDefault` | the account goes between the two reads: 200 with no collection | `accounts.cfg` |
| `Services` | `RefusedOnlyWhenFull` | a delete between the count and the refusal: 409 below the quota | `colors.cfg` |
| `WebClient` | `SessionHasToken` | `GET /me` answers after the session ended: a nickname and no token | `web.cfg` |
| `WebClient` | `Only401OfThisToken` | a 401 of an earlier request ends a newer session | `web_old_list.cfg` |
| `WebClient` | `GridOfThisAccount` | a page asked for before a logout fills the grid of the next login | `web_old_list.cfg` |
| `Strips` | `AddsWhatIsShown` | a block rebuilt by a pin is empty, its add sends cached bands of the earlier colour, where `app.js:1206` says "exactly the bands currently shown" | `strips.cfg` |
| `Strips` | `NoStaleAdd` | add while the new strip loads sends the old colour's bands | `strips.cfg` |
| `CollectionTabs` | `OldestFirst` | two creates are answered out of order | `tabs.cfg` |
| `CollectionTabs` | `TabShowsResult` | the second of two submits of an edit finds no row to replace | `tabs.cfg`, `MaxVer = 2` |
| `CollectionTabs` | `DeleteMovesFromDeleted` | another tab is selected while a DELETE is out, its answer overrides that | `tabs.cfg` |

The other way round, `PickerMirrors` and `ClosedSendsNothing` of `Strips` and the
`TypeOK` of every module hold in the configurations above and are not listed
there either. `TypeOK` is part of the proved invariants.

## What is model-checked only

- Liveness: `EveryRequestAnswered`, `ListingEnds`, `EveryRequestEnds`,
  `SignalEnds` and `StripsSettle`. Fairness and ENABLED are outside what the
  prover takes.

Every safety and action property of a passing run is stated by a theorem.

## What is not modelled

- Password hashing, the parsing of a hex text, icons: pure functions of one
  value; a request's malformed parts enter `Handlers` as a set.
- OkLab's matrices and roots, the gamma curve, luminance: floating point.
- `shades`: a constant table written out as it stands.
- `dbtrace`: timings that are only logged. `logDBReachable`: one ping that only
  logs. The read and write timeouts of net/http: outside this code.
- `cmd/migrate`: a thin command around a library; its schema is in `Schema`.
- Deployment and the rate limit at the edge: not code of this repository. The
  DSN is one setting of `Server`, good or bad.
- In the client: the creation, change or deletion of a collection answered after
  its session ended, which then edits another session's list (`app.js:525`,
  `app.js:590`, `app.js:598`); emptying a collection, bulk adds and the posts of `addStrip`
  with their summary, full screen, preferences, the picker's log, rendering.

## Plan

1. Client: the edits of `CollectionTabs` across sessions, which needs both client
   modules on one page record; emptying a collection and the posts of `addStrip` with their summary,
   which names the collection that is active at the end.
2. Proofs: the invariants that a sharper model of the client will need. Every
   safety and action property of the present runs is proved.
