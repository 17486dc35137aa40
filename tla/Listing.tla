------------------------------ MODULE Listing -------------------------------
(***************************************************************************)
(* One listing of the colours of a collection, page by page, while other   *)
(* requests add and delete colours (storage/color_sort.go and color_repo.go*)
(* for the query, handlers/cursor.go for the cursor).  The server keeps    *)
(* nothing between two pages: where the listing stands is in the cursor.   *)
(*                                                                         *)
(* A page is one statement, so it sees one snapshot.  An add is two steps: *)
(* created_at is now(), the time its transaction began, and the row is     *)
(* visible at COMMIT, so rows need not appear in the order of created_at.  *)
(***************************************************************************)
EXTENDS Integers, FiniteSets

CONSTANTS Hex,       \* colours, as their rank in the text order of their hex
          Feel,      \* color.Feel, the perceptual key; different colours may share one
          MaxLimit,  \* storage.MaxColorLimit
          MaxTime,   \* bound: the clock stops here
          None

Time == 0..MaxTime

Row == [hex : Hex, at : Time]

ASSUME HexAssumption == Hex \subseteq Nat /\ IsFiniteSet(Hex)
ASSUME FeelAssumption == Feel \in [Hex -> Nat]
ASSUME BoundAssumption == MaxLimit \in Nat \ {0} /\ MaxTime \in Nat
Sort == {"created_at", "hex", "color"}
Order == {"asc", "desc"}

\* What a request asks for, the defaults filled in.
Params == [sort : Sort, order : Order, limit : 1..MaxLimit]

\* What next_cursor says: the sort and order it was minted for, and a row.
Cursor == [sort : Sort, order : Order, hex : Hex, at : Time \cup {None}]

ASSUME NoneAssumption == None \notin Row \cup Time \cup Cursor \cup [sort : Sort, order : Order]

VARIABLES saved,    \* the committed rows of the collection
          begun,    \* the rows of adds that have begun and not committed
          clock,
          params,   \* sort and order of the listing, or None before its first page
          next,     \* next_cursor of the last page, or None
          earlier,  \* rows of the pages before the last one
          page,     \* rows of the last page
          since     \* history: rows that stayed saved since the first page

store == <<saved, begun, clock>>
client == <<params, next, earlier, page>>
vars == <<saved, begun, clock, params, next, earlier, page, since>>

-----------------------------------------------------------------------------
(* keyset: one choice of sort picks the ORDER BY, the comparison with the  *)
(* cursor and the values the cursor carries.                               *)

Major(sort, r) == CASE sort = "created_at" -> r.at
                    [] sort = "hex"        -> r.hex
                    [] sort = "color"      -> Feel[r.hex]

Below(sort, a, b) == \/ Major(sort, a) < Major(sort, b)
                     \/ Major(sort, a) = Major(sort, b) /\ a.hex < b.hex

\* Row b comes after row (or cursor) a.
Follows(p, a, b) == IF p.order = "asc" THEN Below(p.sort, a, b) ELSE Below(p.sort, b, a)

\* Mutant: >= and <= for > and <.
AfterCursorInclusive(p, cursor) ==
  {r \in saved : cursor # None => Follows(p, cursor, r) \/ r.hex = cursor.hex}

\* The rows the predicate leaves; all of them on the first page.
AfterCursor(p, cursor) == {r \in saved : cursor # None => Follows(p, cursor, r)}

\* LIMIT n: the first n of rows, or all when there are fewer (a set of one set).
Limited(p, n, rows) ==
  {P \in SUBSET rows :
     /\ Cardinality(P) = IF Cardinality(rows) <= n THEN Cardinality(rows) ELSE n
     /\ \A a \in P, b \in rows \ P : Follows(p, a, b)}

\* encodeCursor: created_at goes in the cursor only when it orders the listing.
Encode(p, last) == [sort |-> p.sort, order |-> p.order, hex |-> last.hex,
                    at |-> IF p.sort = "created_at" THEN last.at ELSE None]

\* Mutant: the cursor is taken whatever it was minted for.
AcceptsAny(p, cursor) == TRUE

\* decodeCursor: a cursor of another sort or order is refused.
Accepts(p, cursor) == cursor # None => cursor.sort = p.sort /\ cursor.order = p.order

\* ListColors and HandleListColors: one row more than the page tells whether
\* the page gets a cursor, that of its last row.
Serve(p, cursor) ==
  \E rows \in Limited(p, p.limit + 1, AfterCursor(p, cursor)) :
  \E shown \in Limited(p, p.limit, rows) :
    /\ page' = shown
    /\ \/ /\ Cardinality(rows) <= p.limit
          /\ next' = None
       \/ /\ Cardinality(rows) > p.limit
          /\ \E last \in shown :
               /\ \A r \in shown \ {last} : Follows(p, r, last)
               /\ next' = Encode(p, last)

-----------------------------------------------------------------------------

Init == /\ saved = {}
        /\ begun = {}
        /\ clock = 0
        /\ params = None
        /\ next = None
        /\ earlier = {}
        /\ page = {}
        /\ since = {}

\* GET without a cursor, once: the listing begins.
FirstPage(p) == /\ params = None
                /\ Serve(p, None)
                /\ params' = [sort |-> p.sort, order |-> p.order]
                /\ since' = saved
                /\ UNCHANGED <<store, earlier>>

\* GET with the cursor of the last page.  The limit may change between pages;
\* so may the sort and the order, and then the answer is 400 and no page.
NextPage(p) == /\ next # None
               /\ Accepts(p, next)
               /\ Serve(p, next)
               /\ earlier' = earlier \cup page
               /\ UNCHANGED <<store, params, since>>

\* The transaction of an add begins.
BeginAdd(h) == /\ begun' = begun \cup {[hex |-> h, at |-> clock]}
               /\ UNCHANGED <<saved, clock, client, since>>

\* It commits; a colour already saved keeps its row (ON CONFLICT DO NOTHING).
CommitAdd(r) == /\ r \in begun
                /\ begun' = begun \ {r}
                /\ saved' = IF \E s \in saved : s.hex = r.hex THEN saved ELSE saved \cup {r}
                /\ UNCHANGED <<clock, client, since>>

DeleteColor(r) == /\ r \in saved
                  /\ saved' = saved \ {r}
                  /\ since' = since \ {r}
                  /\ UNCHANGED <<begun, clock, client>>

\* Also what a listing sees of a collection deleted under it.
DeleteAllColors == /\ saved # {}
                   /\ saved' = {}
                   /\ since' = {}
                   /\ UNCHANGED <<begun, clock, client>>

Tick == /\ clock < MaxTime
        /\ clock' = clock + 1
        /\ UNCHANGED <<saved, begun, client, since>>

Next == \/ \E p \in Params : FirstPage(p) \/ NextPage(p)
        \/ \E h \in Hex : BeginAdd(h)
        \/ \E r \in begun : CommitAdd(r)
        \/ \E r \in saved : DeleteColor(r)
        \/ DeleteAllColors
        \/ Tick

Spec == Init /\ [][Next]_vars

\* A client that follows every cursor it is given.
FairSpec == Spec /\ WF_vars(\E p \in Params : NextPage(p))

-----------------------------------------------------------------------------

TypeOK == /\ saved \subseteq Row
          /\ begun \subseteq Row
          /\ clock \in Time
          /\ params \in [sort : Sort, order : Order] \cup {None}
          /\ next \in Cursor \cup {None}
          /\ earlier \subseteq Row
          /\ page \subseteq Row
          /\ since \subseteq saved

\* The pages put end to end are one ordered listing, and so no row is listed
\* twice: whatever was added or deleted between two pages, and whatever sort a
\* request with a cursor names, each page starts after everything listed.
PagesInOrder == \A a \in earlier, b \in page : Follows(params, a, b)

\* A listing that ended (no next_cursor) has shown every row that was saved all
\* along, whatever was added or deleted around it.
NothingSkipped == params # None /\ next = None => since \subseteq earlier \cup page

\* The inductive invariant: the cursor belongs to this listing and stands at the
\* last row listed, and what stayed saved is listed or still to come.
StandsAt(p, cursor, r) == Major(p.sort, r) = Major(p.sort, cursor) /\ r.hex = cursor.hex

CursorIsLast ==
  next # None => /\ params # None
                 /\ next.sort = params.sort
                 /\ next.order = params.order
                 /\ params.sort = "created_at" => next.at \in Time
                 /\ \A r \in earlier \cup page :
                      Follows(params, r, next) \/ StandsAt(params, next, r)

StillToCome ==
  \A r \in since : \/ r \in earlier \cup page
                   \/ next # None /\ Follows(params, next, r)

NotStarted ==
  params = None => next = None /\ earlier = {} /\ page = {} /\ since = {}

IInv == /\ TypeOK
        /\ IsFiniteSet(saved)
        /\ NotStarted
        /\ CursorIsLast
        /\ PagesInOrder
        /\ StillToCome

\* A listing by hex or by colour ends however the collection changes, as its
\* cursor only moves forward.
ListingEnds ==
  params # None /\ params.sort # "created_at" ~> params # None /\ next = None
=============================================================================
