--------------------------- MODULE ListingProofs ----------------------------
(***************************************************************************)
(* Proofs about Listing: for any set of colours, any perceptual key and    *)
(* any limit, the pages of a listing are in order and skip nothing.        *)
(***************************************************************************)
EXTENDS Listing, FiniteSetTheorems, TLAPS

\* What an order by p can compare: rows, and cursors minted for p's sort.
Comparable(p, x) == /\ x.hex \in Nat
                    /\ Major(p.sort, x) \in Nat

\* A cursor the listing p may continue from.
CursorFor(p, c) == /\ c \in Cursor
                   /\ c.sort = p.sort
                   /\ c.order = p.order
                   /\ p.sort = "created_at" => c.at \in Time

LEMMA RowsComparable ==
  ASSUME NEW sort \in Sort, NEW r \in Row
  PROVE  r.hex \in Nat /\ Major(sort, r) \in Nat
BY HexAssumption, FeelAssumption, BoundAssumption DEF Sort, Row, Time, Major

LEMMA CursorComparable ==
  ASSUME NEW p, p.sort \in Sort, NEW c, CursorFor(p, c)
  PROVE  Comparable(p, c)
BY HexAssumption, FeelAssumption, BoundAssumption
   DEF CursorFor, Comparable, Cursor, Sort, Time, Major

LEMMA LexTransitive ==
  \A a, b, c, x, y, z \in Nat :
    (a < b \/ (a = b /\ x < y)) /\ (b < c \/ (b = c /\ y < z)) => (a < c \/ (a = c /\ x < z))
OBVIOUS

\* Follows is a strict order on whatever it can compare.
LEMMA BelowTransitive ==
  ASSUME NEW p, NEW a, NEW b, NEW c,
         Comparable(p, a), Comparable(p, b), Comparable(p, c),
         Below(p.sort, a, b), Below(p.sort, b, c)
  PROVE  Below(p.sort, a, c)
BY LexTransitive DEF Comparable, Below

LEMMA FollowsTransitive ==
  ASSUME NEW p, NEW a, NEW b, NEW c,
         Comparable(p, a), Comparable(p, b), Comparable(p, c),
         Follows(p, a, b), Follows(p, b, c)
  PROVE  Follows(p, a, c)
<1>1. CASE p.order = "asc"
  BY <1>1, BelowTransitive DEF Follows
<1>2. CASE p.order # "asc"
  BY <1>2, BelowTransitive DEF Follows
<1> QED BY <1>1, <1>2

\* A cursor that stands at a row can take its place on either side.
LEMMA StandIn ==
  ASSUME NEW p, NEW c, NEW r, NEW x, StandsAt(p, c, r)
  PROVE  /\ Follows(p, r, x) <=> Follows(p, c, x)
         /\ Follows(p, x, r) <=> Follows(p, x, c)
BY DEF StandsAt, Follows, Below

LEMMA EncodeStands ==
  ASSUME NEW p \in Params, NEW r \in Row
  PROVE  /\ CursorFor(p, Encode(p, r))
         /\ StandsAt(p, Encode(p, r), r)
BY DEF Params, Row, Encode, CursorFor, Cursor, StandsAt, Major, Sort

\* Only the sort and the order of a request decide the order of rows.
LEMMA SameOrder ==
  ASSUME NEW p, NEW q, p.sort = q.sort, p.order = q.order, NEW a, NEW b
  PROVE  Follows(p, a, b) <=> Follows(q, a, b)
BY DEF Follows

\* LIMIT n of a finite set that gives fewer than n rows gives all of them.
LEMMA LimitAll ==
  ASSUME NEW p, NEW n \in Nat, NEW S, IsFiniteSet(S),
         NEW P \in Limited(p, n, S), Cardinality(P) < n \/ Cardinality(S) <= n
  PROVE  P = S
<1>1. P \in SUBSET S /\ Cardinality(P) = IF Cardinality(S) <= n THEN Cardinality(S) ELSE n
  BY DEF Limited
<1>2. Cardinality(S) \in Nat /\ Cardinality(P) \in Nat
  BY <1>1, FS_CardinalityType, FS_Subset
<1>3. Cardinality(P) = Cardinality(S)
  BY <1>1, <1>2
<1> QED BY <1>1, <1>3, FS_Subset

-----------------------------------------------------------------------------

\* What a page and its cursor are, given where the listing stood.
LEMMA ServeLemma ==
  ASSUME NEW p \in Params, NEW cursor,
         saved \subseteq Row, IsFiniteSet(saved), Serve(p, cursor)
  PROVE  /\ page' \subseteq AfterCursor(p, cursor)
         /\ next' = None => page' = AfterCursor(p, cursor)
         /\ next' # None =>
              /\ \E last \in page' : /\ last \in Row
                                     /\ next' = Encode(p, last)
                                     /\ \A r \in page' \ {last} : Follows(p, r, last)
              /\ \A r \in AfterCursor(p, cursor) \ page' : Follows(p, next', r)
<1> DEFINE after == AfterCursor(p, cursor)
<1>1. after \subseteq saved
  BY DEF AfterCursor
<1>2. IsFiniteSet(after) /\ after \subseteq Row
  BY <1>1, FS_Subset
<1>3. p.limit \in Nat \ {0} /\ p.limit + 1 \in Nat
  BY BoundAssumption DEF Params
<1> HIDE DEF after
<1> DEFINE Shown(rows, shown) ==
             /\ page' = shown
             /\ \/ /\ Cardinality(rows) <= p.limit
                   /\ next' = None
                \/ /\ Cardinality(rows) > p.limit
                   /\ \E last \in shown :
                        /\ \A r \in shown \ {last} : Follows(p, r, last)
                        /\ next' = Encode(p, last)
<1>a. PICK rows \in Limited(p, p.limit + 1, after) :
        \E shown \in Limited(p, p.limit, rows) : Shown(rows, shown)
  BY DEF Serve, after
<1>4. PICK shown \in Limited(p, p.limit, rows) : Shown(rows, shown)
  BY <1>a
<1>5. /\ rows \subseteq after
      /\ \A a \in rows, b \in after \ rows : Follows(p, a, b)
      /\ shown \subseteq rows
      /\ \A a \in shown, b \in rows \ shown : Follows(p, a, b)
  BY DEF Limited
<1>6. IsFiniteSet(rows) /\ Cardinality(rows) \in Nat
  BY <1>2, <1>5, FS_Subset, FS_CardinalityType
<1>7. \A r \in Row : Encode(p, r) # None
  BY EncodeStands, NoneAssumption DEF CursorFor
<1>8. next' = None => page' = after
  <2> SUFFICES ASSUME next' = None PROVE shown = after
    BY <1>4
  <2>1. Cardinality(rows) <= p.limit
    BY <1>2, <1>4, <1>5, <1>7
  <2>2. rows = after
    BY <1>2, <1>3, <1>6, <2>1, LimitAll
  <2>3. shown = rows
    BY <1>3, <1>6, <2>1, LimitAll
  <2> QED BY <2>2, <2>3
<1>9. ASSUME next' # None
      PROVE  /\ \E last \in page' : /\ last \in Row
                                    /\ next' = Encode(p, last)
                                    /\ \A r \in page' \ {last} : Follows(p, r, last)
             /\ \A r \in after \ page' : Follows(p, next', r)
  <2>1. PICK last \in shown : /\ \A r \in shown \ {last} : Follows(p, r, last)
                              /\ next' = Encode(p, last)
    BY <1>4, <1>9
  <2>2. last \in Row
    BY <1>2, <1>5
  <2>3. ASSUME NEW r \in after \ page' PROVE Follows(p, next', r)
    <3>1. Follows(p, last, r)
      BY <1>4, <1>5, <2>3
    <3> QED BY <2>1, <2>2, <3>1, EncodeStands, StandIn
  <2> QED BY <1>4, <2>1, <2>2, <2>3
<1> QED BY <1>4, <1>5, <1>8, <1>9 DEF after
-----------------------------------------------------------------------------
(* The invariant. *)

LEMMA InitInv == Init => IInv
BY FS_EmptySet, BoundAssumption DEF Init, IInv, TypeOK, NotStarted, CursorIsLast, PagesInOrder, StillToCome, Time

\* What every step of a writer keeps: it leaves the client alone and takes from
\* the history what it deletes.
LEMMA WriterInv ==
  ASSUME IInv, UNCHANGED client, saved' \subseteq Row, begun' \subseteq Row,
         clock' \in Time, IsFiniteSet(saved)', since' \subseteq since, since' \subseteq saved'
  PROVE  IInv'
BY DEF IInv, TypeOK, client, NotStarted, CursorIsLast, PagesInOrder, StillToCome

LEMMA FirstPageInv ==
  ASSUME IInv, NEW p \in Params, FirstPage(p)
  PROVE  IInv'
<1>1. /\ params = None /\ earlier = {} /\ earlier' = {} /\ since' = saved
      /\ params' = [sort |-> p.sort, order |-> p.order]
      /\ saved' = saved /\ begun' = begun /\ clock' = clock
  BY DEF FirstPage, IInv, NotStarted, store
<1>2. saved \subseteq Row /\ IsFiniteSet(saved) /\ begun \subseteq Row /\ clock \in Time
  BY DEF IInv, TypeOK
<1>3. AfterCursor(p, None) = saved
  BY DEF AfterCursor
<1>4. /\ page' \subseteq saved
      /\ next' = None => page' = saved
      /\ next' # None =>
           /\ \E last \in page' : /\ last \in Row
                                  /\ next' = Encode(p, last)
                                  /\ \A r \in page' \ {last} : Follows(p, r, last)
           /\ \A r \in saved \ page' : Follows(p, next', r)
  BY <1>2, <1>3, ServeLemma DEF FirstPage
<1>5. params'.sort = p.sort /\ params'.order = p.order /\ params' # None
      /\ params' \in [sort : Sort, order : Order]
  BY <1>1, NoneAssumption DEF Params
<1>6. \A a, b : Follows(params', a, b) <=> Follows(p, a, b)
  BY <1>5, SameOrder
<1>7. next' # None => CursorFor(p, next')
  BY <1>4, EncodeStands
<1>8. TypeOK'
  BY <1>1, <1>2, <1>4, <1>5, <1>7 DEF TypeOK, CursorFor
<1>9. CursorIsLast'
  <2> SUFFICES ASSUME next' # None
               PROVE  /\ CursorFor(p, next')
                      /\ \A r \in page' : Follows(p, r, next') \/ StandsAt(p, next', r)
    BY <1>1, <1>5, <1>6 DEF CursorIsLast, CursorFor, StandsAt
  <2>1. PICK last \in page' : /\ last \in Row
                              /\ next' = Encode(p, last)
                              /\ \A r \in page' \ {last} : Follows(p, r, last)
    BY <1>4
  <2> QED BY <1>7, <2>1, EncodeStands, StandIn
<1>10. StillToCome'
  BY <1>1, <1>4, <1>6 DEF StillToCome
<1> QED BY <1>1, <1>2, <1>5, <1>8, <1>9, <1>10 DEF IInv, NotStarted, PagesInOrder

LEMMA NextPageInv ==
  ASSUME IInv, NEW p \in Params, NextPage(p)
  PROVE  IInv'
<1>1. /\ next # None /\ next.sort = p.sort /\ next.order = p.order
      /\ earlier' = earlier \cup page
      /\ UNCHANGED <<saved, begun, clock, params, since>>
  BY DEF NextPage, Accepts, store
<1>2. /\ saved \subseteq Row /\ IsFiniteSet(saved) /\ since \subseteq saved
      /\ earlier \subseteq Row /\ page \subseteq Row
      /\ next \in Cursor
  BY <1>1 DEF IInv, TypeOK
<1>3. /\ params # None /\ params.sort = p.sort /\ params.order = p.order
      /\ p.sort = "created_at" => next.at \in Time
      /\ \A r \in earlier \cup page : Follows(params, r, next) \/ StandsAt(params, next, r)
  BY <1>1 DEF IInv, CursorIsLast
<1>4. CursorFor(p, next) /\ Comparable(p, next)
  BY <1>1, <1>2, <1>3, CursorComparable DEF CursorFor, Params
<1>5. \A a, b : Follows(params, a, b) <=> Follows(p, a, b)
  BY <1>3, SameOrder
<1>6. \A r \in earlier \cup page : Follows(p, r, next) \/ StandsAt(p, next, r)
  BY <1>3, <1>5 DEF StandsAt
<1>7. \A r \in Row : Comparable(p, r)
  BY RowsComparable DEF Comparable, Params
<1>8. /\ page' \subseteq AfterCursor(p, next)
      /\ next' = None => page' = AfterCursor(p, next)
      /\ next' # None =>
           /\ \E last \in page' : /\ last \in Row
                                  /\ next' = Encode(p, last)
                                  /\ \A r \in page' \ {last} : Follows(p, r, last)
           /\ \A r \in AfterCursor(p, next) \ page' : Follows(p, next', r)
  BY <1>2, ServeLemma DEF NextPage
<1>9. AfterCursor(p, next) = {r \in saved : Follows(p, next, r)}
  BY <1>1 DEF AfterCursor
<1>10. ASSUME NEW a \in earlier', NEW b \in page' PROVE Follows(p, a, b)
  <2>1. Follows(p, next, b) /\ b \in Row /\ a \in Row
    BY <1>1, <1>2, <1>8, <1>9
  <2>2. CASE Follows(p, a, next)
    BY <1>4, <1>7, <2>1, <2>2, FollowsTransitive
  <2>3. CASE StandsAt(p, next, a)
    BY <2>1, <2>3, StandIn
  <2> QED BY <1>1, <1>6, <2>2, <2>3
<1>11. next' # None => CursorFor(p, next')
  BY <1>8, EncodeStands
<1>12. TypeOK'
  BY <1>1, <1>2, <1>8, <1>9, <1>11 DEF IInv, TypeOK, CursorFor
<1>13. CursorIsLast'
  <2> SUFFICES ASSUME next' # None
               PROVE  /\ CursorFor(p, next')
                      /\ \A r \in earlier' \cup page' :
                           Follows(p, r, next') \/ StandsAt(p, next', r)
    BY <1>1, <1>3, <1>5 DEF CursorIsLast, CursorFor, StandsAt
  <2>1. PICK last \in page' : /\ last \in Row
                              /\ next' = Encode(p, last)
                              /\ \A r \in page' \ {last} : Follows(p, r, last)
    BY <1>8
  <2>2. \A r : Follows(p, r, last) => Follows(p, r, next')
    BY <2>1, EncodeStands, StandIn
  <2>3. \A r \in earlier' : Follows(p, r, next')
    BY <1>10, <2>1, <2>2
  <2>4. \A r \in page' : Follows(p, r, next') \/ StandsAt(p, next', r)
    BY <2>1, <2>2, EncodeStands
  <2> QED BY <1>11, <2>3, <2>4
<1>14. PagesInOrder'
  BY <1>1, <1>5, <1>10 DEF PagesInOrder
<1>15. StillToCome'
  <2> SUFFICES ASSUME NEW r \in since, r \notin earlier', r \notin page'
               PROVE  next' # None /\ Follows(p, next', r)
    BY <1>1, <1>5 DEF StillToCome
  <2>1. r \in AfterCursor(p, next)
    BY <1>1, <1>2, <1>5, <1>9 DEF IInv, StillToCome
  <2> QED BY <1>8, <2>1
<1> QED BY <1>1, <1>2, <1>3, <1>12, <1>13, <1>14, <1>15 DEF IInv, NotStarted

LEMMA StepInv == IInv /\ [Next]_vars => IInv'
<1> SUFFICES ASSUME IInv, [Next]_vars PROVE IInv'
  OBVIOUS
<1> USE DEF client, store
<1>1. /\ saved \subseteq Row /\ IsFiniteSet(saved) /\ since \subseteq saved
      /\ begun \subseteq Row /\ clock \in Time
  BY DEF IInv, TypeOK
<1>2. ASSUME NEW p \in Params, FirstPage(p) PROVE IInv'
  BY <1>2, FirstPageInv
<1>3. ASSUME NEW p \in Params, NextPage(p) PROVE IInv'
  BY <1>3, NextPageInv
<1>4. ASSUME NEW h \in Hex, BeginAdd(h) PROVE IInv'
  <2>1. begun' \subseteq Row
    BY <1>1, <1>4 DEF BeginAdd, Row
  <2> QED BY <1>1, <1>4, <2>1, WriterInv DEF BeginAdd
<1>5. ASSUME NEW r \in begun, CommitAdd(r) PROVE IInv'
  <2>1. /\ saved' \subseteq Row /\ begun' \subseteq Row /\ saved \subseteq saved'
        /\ UNCHANGED <<clock, client, since>>
    BY <1>1, <1>5 DEF CommitAdd
  <2>2. IsFiniteSet(saved')
    BY <1>1, <1>5, FS_AddElement DEF CommitAdd
  <2> QED BY <1>1, <2>1, <2>2, WriterInv
<1>6. ASSUME NEW r \in saved, DeleteColor(r) PROVE IInv'
  <2>1. IsFiniteSet(saved') /\ saved' \subseteq saved /\ since' \subseteq saved'
    BY <1>1, <1>6, FS_Subset DEF DeleteColor
  <2> QED BY <1>1, <1>6, <2>1, WriterInv DEF DeleteColor
<1>7. CASE DeleteAllColors
  <2>1. IsFiniteSet(saved') /\ saved' = {} /\ since' = {}
    BY <1>7, FS_EmptySet DEF DeleteAllColors
  <2> QED BY <1>1, <1>7, <2>1, WriterInv DEF DeleteAllColors
<1>8. CASE Tick
  <2>1. clock' \in Time
    BY <1>1, <1>8, BoundAssumption DEF Tick, Time
  <2> QED BY <1>1, <1>8, <2>1, WriterInv DEF Tick
<1>9. CASE UNCHANGED vars
  BY <1>1, <1>9, WriterInv DEF vars
<1> QED BY <1>2, <1>3, <1>4, <1>5, <1>6, <1>7, <1>8, <1>9 DEF Next

\* The inductive invariant holds throughout.
THEOREM ListingInvariance == Spec => []IInv
BY InitInv, StepInv, PTL DEF Spec

\* Whatever is added, deleted or added again between two pages, and whatever
\* sort and order a request with a cursor names (HandleListColors refuses all but
\* the cursor's own), the pages put end to end are in order without repetition.
THEOREM ListingInOrder == Spec => []PagesInOrder
<1>1. IInv => PagesInOrder
  BY DEF IInv
<1> QED BY <1>1, ListingInvariance, PTL

\* A listing that has ended has shown every colour that was saved all along.
THEOREM ListingComplete == Spec => []NothingSkipped
<1>1. IInv => NothingSkipped
  BY DEF IInv, StillToCome, NothingSkipped
<1> QED BY <1>1, ListingInvariance, PTL
=============================================================================
