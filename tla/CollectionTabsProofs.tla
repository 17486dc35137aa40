------------------------ MODULE CollectionTabsProofs ------------------------
(***************************************************************************)
(* Proofs about CollectionTabs, for any number of activations, rows and    *)
(* renames.  The tabs and the server's rows may differ only where an       *)
(* answer is on its way, so the invariant says of each activation what its *)
(* answer will find, and keeps the row of an answered create apart from    *)
(* every other activation and from the tabs.                               *)
(***************************************************************************)
EXTENDS CollectionTabs, FiniteSetTheorems, TLAPS

-----------------------------------------------------------------------------
(* What the proof needs to know of every state.                            *)

Creates(e) == edits[e].op = "create" /\ edits[e].reply = "ok"
Deletes(e) == edits[e].op = "delete" /\ edits[e].reply = "ok"

\* An activation keeps the object it found from the click to its answer, and
\* the row of a reply is the one it asked about.
EditOK(e) ==
  /\ edits[e].op \in {"update", "delete"} =>
       edits[e].col \in Row /\ edits[e].col.id <= born
  /\ edits[e].op = "delete" => edits[e].col.id # Default
  /\ edits[e].op = "update" /\ edits[e].reply = "ok" =>
       edits[e].got \in Row /\ edits[e].got.id = edits[e].col.id
  /\ Creates(e) =>
       /\ edits[e].got \in Row
       /\ edits[e].got.id <= born
       /\ edits[e].got.id \notin IdsOf(tabs)
       /\ rows[edits[e].got.id] # None
  /\ Deletes(e) => rows[edits[e].col.id] = None

\* What an answered create made no other activation knows of.
CreatedApart(d, e) ==
  Creates(d) /\ d # e =>
    /\ Creates(e) => edits[e].got.id # edits[d].got.id
    /\ edits[e].op \in {"update", "delete"} => edits[e].col.id # edits[d].got.id

\* One tab for each collection, the default among them.
TabsApart == /\ \A i, j \in DOMAIN tabs : tabs[i].id = tabs[j].id => i = j
             /\ \A i \in DOMAIN tabs : tabs[i].id <= born
             /\ Default \in IdsOf(tabs)

\* Tabs and rows differ only where an answer is on its way, or was lost.
TabsFollowRows ==
  \A id \in Id \ lost :
    IF rows[id] # None
      THEN id \in IdsOf(tabs) \/ \E e \in Edit : Creates(e) /\ edits[e].got.id = id
      ELSE id \in IdsOf(tabs) => \E e \in Edit : Deletes(e) /\ edits[e].col.id = id

Unborn == \A id \in Id : id > born => rows[id] = None

IInv == /\ TypeOK
        /\ \A e \in Edit : EditOK(e)
        /\ \A d, e \in Edit : CreatedApart(d, e)
        /\ TabsApart
        /\ Unborn
        /\ TabsFollowRows
        /\ ActiveIsATab
        /\ EditIsOfActive

-----------------------------------------------------------------------------
(* Rows, the tabs as a list, and the activation a step changes.            *)

LEMMA RowTypes ==
  /\ None \notin Row
  /\ \A row \in Row : row.id \in Id /\ row.ver \in 0..MaxVer
  /\ \A id \in Id, ver \in 0..MaxVer :
       /\ [id |-> id, ver |-> ver] \in Row
       /\ [id |-> id, ver |-> ver].id = id
  BY NoneAssumption DEF Row

LEMMA IdTypes == /\ Id \subseteq Nat
                 /\ Default \in Id
                 /\ None \notin Id
                 /\ None # "edit" /\ None # "create" /\ None # "ok" /\ None # "refused"
  BY BoundAssumption, NoneAssumption DEF Id, Default

\* Tab finds the tab of a collection that has one.
LEMMA TabFound ==
  ASSUME NEW id \in IdsOf(tabs)
  PROVE  \E i \in DOMAIN tabs : tabs[i] = Tab(id) /\ tabs[i].id = id
  <1>1. \E col \in {tabs[i] : i \in DOMAIN tabs} : col.id = id
    BY DEF IdsOf
  <1>2. Tab(id) \in {tabs[i] : i \in DOMAIN tabs} /\ Tab(id).id = id
    BY <1>1 DEF Tab
  <1> QED BY <1>2

\* What a step leaves of the activations: e has these fields, the others stay.
Becomes(e, op, col, reply, got) ==
  /\ edits' \in [Edit -> Activation]
  /\ edits'[e].op = op
  /\ edits'[e].col = col
  /\ edits'[e].reply = reply
  /\ edits'[e].got = got
  /\ \A d \in Edit : d # e => edits'[d] = edits[d]

LEMMA ActivationFields ==
  /\ \A a \in Activation : /\ a.op \in {"idle", "create", "update", "delete"}
                           /\ a.col \in Row \cup {None}
                           /\ a.reply \in {"ok", "refused", None}
                           /\ a.got \in Row \cup {None}
  /\ Idle \in Activation
  BY DEF Activation, Idle

LEMMA SendBecomes ==
  ASSUME TypeOK, NEW e \in Edit, NEW op \in {"create", "update", "delete"},
         NEW col \in Row \cup {None}, Send(e, op, col)
  PROVE  Becomes(e, op, col, None, None)
  <1> DEFINE a == [Idle EXCEPT !.op = op, !.col = col]
  <1>1. a \in Activation /\ a.op = op /\ a.col = col /\ a.reply = None /\ a.got = None
    BY DEF Activation, Idle
  <1>2. edits' = [edits EXCEPT ![e] = a]
    BY DEF Send
  <1> HIDE DEF a
  <1> QED BY <1>1, <1>2 DEF Becomes, TypeOK

LEMMA AnswerBecomes ==
  ASSUME TypeOK, NEW e \in Edit, NEW reply \in {"ok", "refused"},
         NEW got \in Row \cup {None},
         edits' = [edits EXCEPT ![e].reply = reply, ![e].got = got]
  PROVE  Becomes(e, edits[e].op, edits[e].col, reply, got)
  <1> DEFINE a == [edits[e] EXCEPT !.reply = reply, !.got = got]
  <1>1. edits[e] \in Activation
    BY DEF TypeOK
  <1>2. /\ a \in Activation /\ a.op = edits[e].op /\ a.col = edits[e].col
        /\ a.reply = reply /\ a.got = got
    BY <1>1 DEF Activation
  <1>3. edits' = [edits EXCEPT ![e] = a]
    BY <1>1 DEF TypeOK, Activation
  <1> HIDE DEF a
  <1> QED BY <1>2, <1>3 DEF Becomes, TypeOK

LEMMA IdleBecomes ==
  ASSUME TypeOK, NEW e \in Edit, edits' = [edits EXCEPT ![e] = Idle]
  PROVE  Becomes(e, "idle", None, None, None)
  <1>1. Idle.op = "idle" /\ Idle.col = None /\ Idle.reply = None /\ Idle.got = None
    BY DEF Idle
  <1> QED BY <1>1, ActivationFields DEF Becomes, TypeOK

-----------------------------------------------------------------------------
(* The list after an answer.                                               *)

\* filter drops the tab of one collection and no other.
LEMMA Filtered ==
  ASSUME TypeOK, TabsApart, NEW id, RemoveTab(id)
  PROVE  /\ tabs' \in Seq(Row)
         /\ IdsOf(tabs') = IdsOf(tabs) \ {id}
         /\ \A i, j \in DOMAIN tabs' : tabs'[i].id = tabs'[j].id => i = j
  <1> DEFINE kept == {i \in DOMAIN tabs : tabs[i].id # id}
  <1> DEFINE n == Cardinality(kept)
  <1>1. kept \subseteq 1..Len(tabs) /\ Len(tabs) \in Nat
        /\ \A i \in 1..Len(tabs) : tabs[i] \in Row
    BY DEF TypeOK
  <1>2. IsFiniteSet(kept) /\ n \in Nat
    <2>1. IsFiniteSet(1..Len(tabs))
      BY <1>1, FS_Interval
    <2>2. IsFiniteSet(kept)
      BY ONLY <1>1, <2>1, FS_Subset
    <2> QED BY <2>2, FS_CardinalityType
  <1>3. PICK at \in [1..n -> kept] :
              /\ {at[i] : i \in DOMAIN at} = kept
              /\ \A i, j \in DOMAIN at : i < j => at[i] < at[j]
              /\ tabs' = [i \in DOMAIN at |-> tabs[at[i]]]
    BY DEF RemoveTab
  <1> HIDE DEF n
  <1>4. DOMAIN tabs' = 1..n /\ \A i \in 1..n : tabs'[i] = tabs[at[i]] /\ at[i] \in kept
    BY <1>3
  <1>5. tabs' \in Seq(Row)
    <2>1. tabs' \in [1..n -> Row]
      BY <1>1, <1>3, <1>4
    <2> QED BY <2>1, <1>2
  <1>6. IdsOf(tabs') = IdsOf(tabs) \ {id}
    <2>1. \A i \in kept : \E j \in 1..n : at[j] = i
      BY <1>3
    <2>2. \A x \in IdsOf(tabs') : x \in IdsOf(tabs) \ {id}
      BY <1>4 DEF IdsOf
    <2>3. \A x \in IdsOf(tabs) \ {id} : x \in IdsOf(tabs')
      BY <1>4, <2>1 DEF IdsOf
    <2> QED BY <2>2, <2>3
  <1>7. ASSUME NEW i \in DOMAIN tabs', NEW j \in DOMAIN tabs', tabs'[i].id = tabs'[j].id
        PROVE  i = j
    <2>1. at[i] = at[j]
      BY <1>4, <1>7 DEF TabsApart
    <2>2. i \in Nat /\ j \in Nat /\ at[i] \in Nat
      BY <1>1, <1>2, <1>4
    <2> QED BY <1>3, <1>4, <2>1, <2>2
  <1> QED BY <1>5, <1>6, <1>7

\* A rename keeps the place and the identity of the tab.
LEMMA Renamed ==
  ASSUME TypeOK, TabsApart, NEW col \in Row, NEW row \in Row, row.id = col.id,
         tabs' = Replaced(col, row)
  PROVE  /\ tabs' \in Seq(Row)
         /\ IdsOf(tabs') = IdsOf(tabs)
         /\ \A i, j \in DOMAIN tabs' : tabs'[i].id = tabs'[j].id => i = j
  <1>1. DOMAIN tabs' = DOMAIN tabs /\ \A i \in DOMAIN tabs : tabs'[i].id = tabs[i].id
    BY DEF Replaced
  <1>2. Len(tabs) \in Nat /\ DOMAIN tabs = 1..Len(tabs) /\ \A i \in DOMAIN tabs : tabs[i] \in Row
    BY DEF TypeOK
  <1>3. tabs' \in Seq(Row)
    <2>1. tabs' \in [1..Len(tabs) -> Row]
      BY <1>2 DEF Replaced
    <2> QED BY <2>1, <1>2
  <1> QED BY <1>1, <1>3 DEF IdsOf, TabsApart

\* A new tab goes to the end.
LEMMA Appended ==
  ASSUME TypeOK, TabsApart, NEW row \in Row, row.id \notin IdsOf(tabs),
         tabs' = Append(tabs, row)
  PROVE  /\ tabs' \in Seq(Row)
         /\ IdsOf(tabs') = IdsOf(tabs) \cup {row.id}
         /\ \A i, j \in DOMAIN tabs' : tabs'[i].id = tabs'[j].id => i = j
  <1> DEFINE n == Len(tabs)
  <1>1. /\ n \in Nat /\ DOMAIN tabs = 1..n
        /\ DOMAIN tabs' = 1..(n + 1)
        /\ \A i \in 1..n : tabs'[i] = tabs[i]
        /\ tabs'[n + 1] = row
        /\ tabs' \in Seq(Row)
    BY DEF TypeOK
  <1> HIDE DEF n
  <1>2. \A i \in 1..(n + 1) : i \in 1..n \/ i = n + 1
    BY <1>1
  <1>3. \A i \in 1..n : tabs[i].id \in IdsOf(tabs)
    BY <1>1 DEF IdsOf
  <1>4. IdsOf(tabs') = IdsOf(tabs) \cup {row.id}
    <2>1. \A x \in IdsOf(tabs') : x \in IdsOf(tabs) \cup {row.id}
      BY <1>1, <1>2, <1>3 DEF IdsOf
    <2>2. \A x \in IdsOf(tabs) : x \in IdsOf(tabs')
      BY <1>1 DEF IdsOf
    <2>3. row.id \in IdsOf(tabs')
      BY <1>1 DEF IdsOf
    <2> QED BY <2>1, <2>2, <2>3
  <1>5. ASSUME NEW i \in DOMAIN tabs', NEW j \in DOMAIN tabs', tabs'[i].id = tabs'[j].id
        PROVE  i = j
    BY <1>1, <1>2, <1>3, <1>5 DEF TabsApart
  <1> QED BY <1>1, <1>4, <1>5

-----------------------------------------------------------------------------
(* One activation goes on, the tabs and the rows stay.                     *)

\* What the object of an update or a delete must be.
Object(e, op, col) ==
  op \in {"update", "delete"} =>
    /\ col \in Row
    /\ col.id <= born
    /\ op = "delete" => col.id # Default
    /\ \A d \in Edit : Creates(d) /\ d # e => col.id # edits[d].got.id

\* What the steps that start, refuse, lose or close an activation keep.
EditsKept == /\ \A d \in Edit : EditOK(d)'
             /\ \A c, d \in Edit : CreatedApart(c, d)'

\* A change that is never answered is among those that were lost.
Noted(e) == /\ lost \subseteq lost'
            /\ Creates(e) => edits[e].got.id \in lost'
            /\ Deletes(e) => edits[e].col.id \in lost'

LEMMA Unanswered ==
  ASSUME IInv, NEW e \in Edit, NEW op, NEW col, NEW reply, NEW got, reply # "ok",
         Becomes(e, op, col, reply, got), Object(e, op, col),
         UNCHANGED <<rows, born, tabs>>
  PROVE  /\ EditsKept
         /\ Noted(e) => TabsFollowRows'
  <1>1. /\ ~Creates(e)' /\ ~Deletes(e)'
        /\ \A d \in Edit : d # e => /\ edits'[d] = edits[d]
                                    /\ Creates(d)' <=> Creates(d)
                                    /\ Deletes(d)' <=> Deletes(d)
    BY DEF Becomes, Creates, Deletes
  <1>2. /\ UNCHANGED IdsOf(tabs)
        /\ UNCHANGED rows
        /\ UNCHANGED born
    BY DEF IdsOf
  <1>3. ASSUME NEW d \in Edit
        PROVE  EditOK(d)'
    <2>1. CASE d = e
      BY <1>1, <2>1 DEF EditOK, Becomes, Object
    <2>2. CASE d # e
      BY <1>1, <1>2, <2>2 DEF EditOK, IInv
    <2> QED BY <2>1, <2>2
  <1>4. ASSUME NEW c \in Edit, NEW d \in Edit
        PROVE  CreatedApart(c, d)'
    <2>1. CASE c = e
      BY <1>1, <2>1 DEF CreatedApart
    <2>2. CASE c # e /\ d = e
      BY <1>1, <2>2 DEF CreatedApart, Becomes, Object
    <2>3. CASE c # e /\ d # e
      BY <1>1, <2>3 DEF CreatedApart, IInv
    <2> QED BY <2>1, <2>2, <2>3
  <1>5. ASSUME Noted(e)
        PROVE  TabsFollowRows'
    BY <1>1, <1>2, <1>5 DEF TabsFollowRows, Noted, IInv
  <1> QED BY <1>3, <1>4, <1>5 DEF EditsKept

\* The tab of the active collection is an object a request may be about.
LEMMA ActiveObject ==
  ASSUME IInv, NEW e \in Edit, NEW op, op = "delete" => active # Default
  PROVE  Tab(active) \in Row /\ Object(e, op, Tab(active))
  <1>1. PICK i \in DOMAIN tabs : tabs[i] = Tab(active) /\ tabs[i].id = active
    BY TabFound DEF IInv, ActiveIsATab
  <1>2. Tab(active) \in Row /\ Tab(active).id = active /\ active <= born
    BY <1>1 DEF IInv, TypeOK, TabsApart
  <1>3. \A d \in Edit : Creates(d) => active # edits[d].got.id
    BY DEF IInv, EditOK, ActiveIsATab
  <1> QED BY <1>2, <1>3 DEF Object

\* The same object, as its activation found it.
LEMMA SameObject ==
  ASSUME IInv, NEW e \in Edit
  PROVE  Object(e, edits[e].op, edits[e].col)
  BY DEF IInv, EditOK, CreatedApart, Object

\* The types that a step of one activation leaves alone.
LEMMA QuietTypes ==
  ASSUME IInv, edits' \in [Edit -> Activation], UNCHANGED <<server, ui>>, lost' \subseteq Id
  PROVE  TypeOK' /\ TabsApart' /\ Unborn' /\ ActiveIsATab' /\ EditIsOfActive'
  BY DEF IInv, TypeOK, TabsApart, Unborn, ActiveIsATab, EditIsOfActive, IdsOf, server, ui

LEMMA StartSteps ==
  ASSUME IInv, NEW e \in Edit, SubmitCreate(e) \/ SubmitUpdate(e) \/ ClickDelete(e)
  PROVE  IInv'
  <1>1. \E op \in {"create", "update", "delete"}, col \in Row \cup {None} :
          /\ Send(e, op, col)
          /\ Object(e, op, col)
    <2>1. CASE SubmitCreate(e)
      BY <2>1 DEF SubmitCreate, Object
    <2>2. CASE SubmitUpdate(e)
      BY <2>2, ActiveObject DEF SubmitUpdate
    <2>3. CASE ClickDelete(e)
      BY <2>3, ActiveObject DEF ClickDelete
    <2> QED BY <2>1, <2>2, <2>3
  <1>2. PICK op \in {"create", "update", "delete"}, col \in Row \cup {None} :
          Send(e, op, col) /\ Object(e, op, col)
    BY <1>1
  <1>3. Becomes(e, op, col, None, None)
    BY <1>2, SendBecomes DEF IInv
  <1>4. UNCHANGED <<server, ui>> /\ lost' = lost /\ Free(e)
    BY <1>2 DEF Send, SubmitCreate, SubmitUpdate, ClickDelete
  <1>5. EditsKept /\ TabsFollowRows'
    <2>1. Noted(e) /\ UNCHANGED <<rows, born, tabs>>
      BY <1>4 DEF Noted, Free, Creates, Deletes, server, ui
    <2> QED BY <1>2, <1>3, <1>4, <2>1, IdTypes, Unanswered
  <1>6. TypeOK' /\ TabsApart' /\ Unborn' /\ ActiveIsATab' /\ EditIsOfActive'
    BY <1>3, <1>4, QuietTypes DEF Becomes, IInv, TypeOK
  <1> QED BY <1>5, <1>6 DEF IInv, EditsKept

\* An answer that is a refusal, or that is lost, and the turn of a refusal.
LEMMA RefusalSteps ==
  ASSUME IInv, NEW e \in Edit, Refuse(e) \/ Lose(e) \/ Refused(e)
  PROVE  IInv'
  <1>1. UNCHANGED <<server, ui>> /\ lost' \subseteq Id
    <2>1. lost \subseteq Id  BY DEF IInv, TypeOK
    <2>2. CASE Refuse(e) \/ Refused(e)
      BY <2>1, <2>2 DEF Refuse, Refused, Answer
    <2>3. CASE Lose(e)
      <3>1. TabOf(e) \subseteq Id
        <4>1. CASE edits[e].op = "create"
          BY <2>3, <4>1, RowTypes DEF IInv, EditOK, Creates, Lose, TabOf
        <4>2. CASE edits[e].op = "delete"
          BY <2>3, <4>2, RowTypes DEF IInv, EditOK, Lose, TabOf
        <4>3. CASE edits[e].op \notin {"create", "delete"}
          BY <4>3 DEF TabOf
        <4> QED BY <4>1, <4>2, <4>3
      <3> QED BY <2>1, <2>3, <3>1 DEF Lose
    <2> QED BY <2>2, <2>3
  <1>2. UNCHANGED <<rows, born, tabs>>
    BY <1>1 DEF server, ui
  <1>3. EditsKept /\ TabsFollowRows' /\ edits' \in [Edit -> Activation]
    <2>1. CASE Refuse(e)
      <3>1. Becomes(e, edits[e].op, edits[e].col, "refused", None)
        BY <2>1, AnswerBecomes DEF Refuse, Answer, IInv
      <3>2. Noted(e)
        BY <2>1, IdTypes DEF Noted, Refuse, Answer, Creates, Deletes
      <3> QED BY <1>2, <3>1, <3>2, SameObject, Unanswered DEF Becomes
    <2>2. CASE Lose(e)
      <3>1. Becomes(e, edits[e].op, edits[e].col, "refused", None)
        BY <2>2, AnswerBecomes DEF Lose, IInv
      <3>2. Noted(e)
        BY <2>2 DEF Noted, Lose, TabOf, Creates, Deletes
      <3> QED BY <1>2, <3>1, <3>2, SameObject, Unanswered DEF Becomes
    <2>3. CASE Refused(e)
      <3>1. Becomes(e, "idle", None, None, None)
        BY <2>3, IdleBecomes DEF Refused, IInv
      <3>2. Noted(e)
        BY <2>3 DEF Noted, Refused, Creates, Deletes
      <3>3. Object(e, "idle", None)
        BY DEF Object
      <3> QED BY <1>2, <3>1, <3>2, <3>3, IdTypes, Unanswered DEF Becomes
    <2> QED BY <2>1, <2>2, <2>3
  <1>4. TypeOK' /\ TabsApart' /\ Unborn' /\ ActiveIsATab' /\ EditIsOfActive'
    BY <1>1, <1>3, QuietTypes
  <1> QED BY <1>3, <1>4 DEF IInv, EditsKept

-----------------------------------------------------------------------------
(* The server makes the change an activation asks for.                     *)

LEMMA ServeCreateStep ==
  ASSUME IInv, NEW e \in Edit, ServeCreate(e)
  PROVE  IInv'
  <1> DEFINE id == born + 1
             row == [id |-> id, ver |-> 0]
  <1>1. /\ id \in Id /\ id \in Nat /\ born \in Nat /\ born' = id /\ born < id
        /\ row \in Row /\ row.id = id
    <2>1. id \in Id /\ born \in Nat
      BY BoundAssumption DEF ServeCreate, IInv, TypeOK, Id
    <2>2. 0 \in 0..MaxVer
      BY BoundAssumption
    <2> QED BY <2>1, <2>2, RowTypes, IdTypes DEF ServeCreate
  <1>2. /\ rows' \in [Id -> 0..MaxVer \cup {None}]
        /\ rows'[id] = 0 /\ rows'[id] # None
        /\ \A x \in Id : x # id => rows'[x] = rows[x]
    <2>1. 0 \in 0..MaxVer /\ 0 # None
      BY BoundAssumption, NoneAssumption
    <2> QED BY <1>1, <2>1 DEF ServeCreate, IInv, TypeOK
  <1>3. Becomes(e, "create", edits[e].col, "ok", row)
    <2>1. Becomes(e, edits[e].op, edits[e].col, "ok", row)
      BY <1>1, AnswerBecomes DEF ServeCreate, Answer, IInv
    <2> QED BY <2>1 DEF ServeCreate, Waiting
  <1>4. UNCHANGED ui /\ UNCHANGED lost /\ UNCHANGED IdsOf(tabs)
    BY DEF ServeCreate, Answer, ui, IdsOf
  <1>5. ~Creates(e) /\ ~Deletes(e)
    BY IdTypes DEF ServeCreate, Waiting, Creates, Deletes
  <1>6. id \notin IdsOf(tabs) /\ \A x \in IdsOf(tabs) : x \in Id /\ x <= born
    <2>1. \A i \in DOMAIN tabs : tabs[i].id \in Id /\ tabs[i].id <= born
      BY RowTypes DEF IInv, TypeOK, TabsApart
    <2> QED BY <1>1, <2>1 DEF IdsOf
  <1> HIDE DEF id, row
  <1>7. ASSUME NEW d \in Edit
        PROVE  /\ EditOK(d)'
               /\ d # e => /\ edits[d].op \in {"update", "delete"} => edits[d].col.id # id
                           /\ Creates(d) => edits[d].got.id # id
    <2>1. EditOK(d) /\ edits[d].col \in Row \cup {None}
      BY DEF IInv, TypeOK, Activation
    <2>2. CASE d = e
      BY <1>1, <1>2, <1>3, <1>4, <1>6, <2>2, IdTypes DEF EditOK, Becomes, Creates, Deletes
    <2>3. CASE d # e
      <3>1. edits'[d] = edits[d]
        BY <1>3, <2>3 DEF Becomes
      <3>2. edits[d].op \in {"update", "delete"} =>
              edits[d].col.id \in Id /\ edits[d].col.id <= born /\ edits[d].col.id # id
        BY <1>1, <2>1, RowTypes, IdTypes DEF EditOK
      <3>3. Creates(d) => edits[d].got.id \in Id /\ edits[d].got.id <= born
                          /\ edits[d].got.id # id
        BY <1>1, <2>1, RowTypes, IdTypes DEF EditOK
      <3>4. \A x \in Id : x <= born => x <= born'
        BY <1>1, IdTypes
      <3> QED BY <1>2, <1>4, <2>1, <3>1, <3>2, <3>3, <3>4 DEF EditOK, Creates, Deletes
    <2> QED BY <2>2, <2>3
  <1>8. ASSUME NEW c \in Edit, NEW d \in Edit
        PROVE  CreatedApart(c, d)'
    <2>1. /\ \A x \in Edit : x # e => edits'[x] = edits[x]
          /\ edits'[e].got.id = id /\ edits'[e].op = "create"
      BY <1>1, <1>3 DEF Becomes
    <2>2. CreatedApart(c, d)
      BY DEF IInv
    <2>3. CASE c # e /\ d # e
      BY <2>1, <2>2, <2>3 DEF CreatedApart, Creates
    <2>4. CASE c = e
      BY <1>7, <2>1, <2>4 DEF CreatedApart, Creates
    <2>5. CASE c # e /\ d = e
      BY <1>7, <2>1, <2>5 DEF CreatedApart, Creates
    <2> QED BY <2>3, <2>4, <2>5
  <1>9. TypeOK' /\ ActiveIsATab' /\ EditIsOfActive'
    BY <1>1, <1>2, <1>3, <1>4
    DEF IInv, TypeOK, ActiveIsATab, EditIsOfActive, ui, Becomes
  <1>10. TabsApart' /\ Unborn'
    <2>1. \A i \in DOMAIN tabs : tabs[i].id \in Id /\ tabs[i].id <= born'
      <3>1. \A i \in DOMAIN tabs : tabs[i].id \in Id /\ tabs[i].id <= born
        BY RowTypes DEF IInv, TypeOK, TabsApart
      <3>2. \A x \in Nat : x <= born => x <= born'
        BY ONLY <1>1
      <3> QED BY <3>1, <3>2, IdTypes
    <2>2. \A x \in Id : x > born' => rows'[x] = None
      <3>1. \A x \in Nat : x > born' => x > born /\ x # id
        BY ONLY <1>1
      <3> QED BY <1>2, <3>1, IdTypes DEF IInv, Unborn
    <2> QED BY <1>4, <2>1, <2>2 DEF IInv, TabsApart, Unborn, ui
  <1>11. TabsFollowRows'
    <2>1. SUFFICES ASSUME NEW x \in Id \ lost
                   PROVE  IF rows'[x] # None
                            THEN \/ x \in IdsOf(tabs)
                                 \/ \E d \in Edit : Creates(d)' /\ edits'[d].got.id = x
                            ELSE x \in IdsOf(tabs) =>
                                   \E d \in Edit : Deletes(d)' /\ edits'[d].col.id = x
      BY <1>4 DEF TabsFollowRows
    <2>2. Creates(e)' /\ edits'[e].got.id = id
      BY <1>1, <1>3 DEF Becomes, Creates
    <2>3. \A d \in Edit : d # e => /\ edits'[d] = edits[d]
                                   /\ Creates(d) => Creates(d)'
                                   /\ Deletes(d) => Deletes(d)'
      BY <1>3 DEF Becomes, Creates, Deletes
    <2>4. IF rows[x] # None
            THEN \/ x \in IdsOf(tabs)
                 \/ \E d \in Edit : Creates(d) /\ edits[d].got.id = x
            ELSE x \in IdsOf(tabs) =>
                   \E d \in Edit : Deletes(d) /\ edits[d].col.id = x
      BY <2>1 DEF IInv, TabsFollowRows
    <2>5. CASE x = id
      BY <1>2, <2>2, <2>5
    <2>6. CASE x # id
      BY <1>2, <1>5, <2>3, <2>4, <2>6
    <2> QED BY <2>5, <2>6
  <1> QED BY <1>7, <1>8, <1>9, <1>10, <1>11 DEF IInv

\* A rename or a delete at the server changes the row of its object, which
\* was there and is no answered create's.
LEMMA ServeRowStep ==
  ASSUME IInv, NEW e \in Edit, ServeUpdate(e) \/ ServeDelete(e)
  PROVE  IInv'
  <1> DEFINE id == edits[e].col.id
  <1>1. /\ edits[e].op \in {"update", "delete"} /\ edits[e].reply = None
        /\ rows[id] # None /\ born' = born
        /\ UNCHANGED ui /\ UNCHANGED lost /\ UNCHANGED IdsOf(tabs)
    BY DEF ServeUpdate, ServeDelete, Waiting, Answer, ui, IdsOf
  <1>2. edits[e].col \in Row /\ id \in Id /\ id <= born
    BY <1>1, RowTypes DEF IInv, EditOK
  <1>3. ~Creates(e) /\ ~Deletes(e)
    BY <1>1, IdTypes DEF Creates, Deletes
  <1>4. \E got \in Row \cup {None} :
          /\ Becomes(e, edits[e].op, edits[e].col, "ok", got)
          /\ edits[e].op = "update" => got \in Row /\ got.id = id
          /\ rows' \in [Id -> 0..MaxVer \cup {None}]
          /\ \A x \in Id : x # id => rows'[x] = rows[x]
          /\ edits[e].op = "update" => rows'[id] # None
          /\ edits[e].op = "delete" => rows'[id] = None
    <2>1. CASE ServeUpdate(e)
      <3> DEFINE row == [id |-> id, ver |-> rows[id] + 1]
      <3>1. rows[id] + 1 \in 0..MaxVer /\ rows[id] + 1 # None
        BY <1>1, <1>2, <2>1, BoundAssumption, NoneAssumption DEF ServeUpdate, IInv, TypeOK
      <3>2. row \in Row /\ row.id = id
        BY <1>2, <3>1, RowTypes
      <3>3. Becomes(e, edits[e].op, edits[e].col, "ok", row)
        BY <2>1, <3>2, AnswerBecomes DEF ServeUpdate, Answer, IInv
      <3>4. rows' = [rows EXCEPT ![id] = @ + 1] /\ edits[e].op = "update"
        BY <2>1 DEF ServeUpdate, Waiting
      <3> HIDE DEF row, id
      <3>5. /\ rows' \in [Id -> 0..MaxVer \cup {None}]
            /\ \A x \in Id : x # id => rows'[x] = rows[x]
            /\ rows'[id] # None
        BY <1>2, <3>1, <3>4 DEF IInv, TypeOK
      <3> QED BY <3>2, <3>3, <3>4, <3>5
    <2>2. CASE ServeDelete(e)
      <3>1. Becomes(e, edits[e].op, edits[e].col, "ok", None)
        BY <2>2, AnswerBecomes DEF ServeDelete, Answer, IInv
      <3>2. rows' = [rows EXCEPT ![id] = None] /\ edits[e].op = "delete"
        BY <2>2 DEF ServeDelete, Waiting
      <3> HIDE DEF id
      <3>3. /\ rows' \in [Id -> 0..MaxVer \cup {None}]
            /\ \A x \in Id : x # id => rows'[x] = rows[x]
            /\ rows'[id] = None
        BY <1>2, <3>2 DEF IInv, TypeOK
      <3> QED BY <3>1, <3>2, <3>3
    <2> QED BY <2>1, <2>2
  <1>5. PICK got \in Row \cup {None} :
          /\ Becomes(e, edits[e].op, edits[e].col, "ok", got)
          /\ edits[e].op = "update" => got \in Row /\ got.id = id
          /\ rows' \in [Id -> 0..MaxVer \cup {None}]
          /\ \A x \in Id : x # id => rows'[x] = rows[x]
          /\ edits[e].op = "update" => rows'[id] # None
          /\ edits[e].op = "delete" => rows'[id] = None
    BY <1>4
  <1>6. /\ \A d \in Edit : d # e => /\ edits'[d] = edits[d]
                                    /\ Creates(d)' <=> Creates(d)
                                    /\ Deletes(d)' <=> Deletes(d)
        /\ ~Creates(e)'
        /\ Deletes(e)' <=> edits[e].op = "delete"
        /\ edits'[e].op = edits[e].op /\ edits'[e].col = edits[e].col
        /\ edits'[e].got = got
    BY <1>1, <1>5 DEF Becomes, Creates, Deletes
  <1>7. \A d \in Edit : Creates(d) => edits[d].got.id # id
    <2>1. \A d \in Edit : CreatedApart(d, e)
      BY DEF IInv
    <2> QED BY <1>1, <1>3, <2>1 DEF CreatedApart
  <1>8. ASSUME NEW d \in Edit
        PROVE  EditOK(d)'
    <2>1. EditOK(d)
      BY DEF IInv
    <2>2. CASE d = e
      BY <1>1, <1>5, <1>6, <2>1, <2>2 DEF EditOK
    <2>3. CASE d # e
      <3>1. Deletes(d) => edits[d].col.id \in Id /\ rows'[edits[d].col.id] = None
        <4>1. Deletes(d) => edits[d].col.id \in Id /\ edits[d].col.id # id
          BY <1>1, <2>1, RowTypes DEF EditOK, Deletes
        <4> QED BY <1>5, <2>1, <4>1 DEF EditOK
      <3>2. Creates(d) => rows'[edits[d].got.id] # None
        BY <1>5, <1>7, <2>1, RowTypes DEF EditOK
      <3> QED BY <1>1, <1>6, <2>1, <2>3, <3>1, <3>2 DEF EditOK
    <2> QED BY <2>2, <2>3
  <1>9. ASSUME NEW c \in Edit, NEW d \in Edit
        PROVE  CreatedApart(c, d)'
    <2>1. CreatedApart(c, d)
      BY DEF IInv
    <2>2. CASE c = e
      BY <1>6, <2>2 DEF CreatedApart
    <2>3. CASE c # e /\ d = e
      BY <1>6, <2>1, <2>3 DEF CreatedApart
    <2>4. CASE c # e /\ d # e
      BY <1>6, <2>1, <2>4 DEF CreatedApart
    <2> QED BY <2>2, <2>3, <2>4
  <1>10. TypeOK' /\ TabsApart' /\ ActiveIsATab' /\ EditIsOfActive'
    BY <1>1, <1>5
    DEF IInv, TypeOK, TabsApart, ActiveIsATab, EditIsOfActive, ui, Becomes
  <1>11. Unborn'
    BY <1>1, <1>2, <1>5, IdTypes DEF IInv, Unborn, TypeOK
  <1>12. TabsFollowRows'
    <2>1. SUFFICES ASSUME NEW x \in Id \ lost
                   PROVE  IF rows'[x] # None
                            THEN \/ x \in IdsOf(tabs)
                                 \/ \E d \in Edit : Creates(d)' /\ edits'[d].got.id = x
                            ELSE x \in IdsOf(tabs) =>
                                   \E d \in Edit : Deletes(d)' /\ edits'[d].col.id = x
      BY <1>1 DEF TabsFollowRows
    <2>2. IF rows[x] # None
            THEN \/ x \in IdsOf(tabs)
                 \/ \E d \in Edit : Creates(d) /\ edits[d].got.id = x
            ELSE x \in IdsOf(tabs) =>
                   \E d \in Edit : Deletes(d) /\ edits[d].col.id = x
      BY <2>1 DEF IInv, TabsFollowRows
    <2>3. CASE x # id
      BY <1>3, <1>5, <1>6, <2>2, <2>3
    <2>4. CASE x = id /\ edits[e].op = "update"
      BY <1>1, <1>5, <1>7, <2>2, <2>4
    <2>5. CASE x = id /\ edits[e].op = "delete"
      BY <1>5, <1>6, <2>5
    <2> QED BY <1>1, <2>3, <2>4, <2>5
  <1> QED BY <1>8, <1>9, <1>10, <1>11, <1>12 DEF IInv

-----------------------------------------------------------------------------
(* The turn an answer arrives in.                                          *)

\* An activation ends: the tabs keep their identities, but for the row of a
\* create, which joins them, and that of a delete, which leaves them.
TabsAnswer(e) ==
  IdsOf(tabs') = IF Creates(e) THEN IdsOf(tabs) \cup {edits[e].got.id}
                 ELSE IF Deletes(e) THEN IdsOf(tabs) \ {edits[e].col.id}
                 ELSE IdsOf(tabs)

LEMMA DoneStep ==
  ASSUME IInv, NEW e \in Edit, UNCHANGED <<rows, born, lost>>,
         Becomes(e, "idle", None, None, None),
         TabsAnswer(e), tabs' \in Seq(Row),
         \A i, j \in DOMAIN tabs' : tabs'[i].id = tabs'[j].id => i = j
  PROVE  EditsKept /\ TabsApart' /\ Unborn' /\ TabsFollowRows'
  <1>1. /\ ~Creates(e)' /\ ~Deletes(e)' /\ edits'[e].op = "idle"
        /\ \A d \in Edit : d # e => /\ edits'[d] = edits[d]
                                    /\ Creates(d)' <=> Creates(d)
                                    /\ Deletes(d)' <=> Deletes(d)
    BY DEF Becomes, Creates, Deletes
  <1>2. EditOK(e) /\ \A d \in Edit : CreatedApart(e, d) /\ CreatedApart(d, e)
    BY DEF IInv
  <1>3. rows' = rows /\ born' = born /\ lost' = lost
    OBVIOUS
  <1>4. \A x \in IdsOf(tabs') : x <= born
    <2>1. \A x \in IdsOf(tabs) : x <= born
      BY DEF IInv, TabsApart, IdsOf
    <2> QED BY <1>2, <2>1 DEF TabsAnswer, EditOK
  <1>5. ASSUME NEW d \in Edit
        PROVE  EditOK(d)'
    <2>1. CASE d = e
      BY <1>1, <2>1 DEF EditOK
    <2>2. CASE d # e
      <3>1. EditOK(d)
        BY DEF IInv
      <3>2. Creates(d) => edits[d].got.id \notin IdsOf(tabs')
        BY <1>2, <2>2, <3>1 DEF EditOK, TabsAnswer, CreatedApart
      <3> QED BY <1>1, <1>3, <2>2, <3>1, <3>2 DEF EditOK
    <2> QED BY <2>1, <2>2
  <1>6. ASSUME NEW c \in Edit, NEW d \in Edit
        PROVE  CreatedApart(c, d)'
    <2>1. CreatedApart(c, d)
      BY DEF IInv
    <2> QED BY <1>1, <2>1 DEF CreatedApart
  <1>7. TabsApart'
    <2>1. Default \in IdsOf(tabs')
      BY <1>2 DEF TabsAnswer, EditOK, Deletes, IInv, TabsApart
    <2>2. \A i \in DOMAIN tabs' : tabs'[i].id <= born
      BY <1>4 DEF IdsOf
    <2> QED BY <1>3, <2>1, <2>2 DEF TabsApart, IdsOf
  <1>8. Unborn'
    BY <1>3 DEF Unborn, IInv
  <1>9. TabsFollowRows'
    <2>1. SUFFICES ASSUME NEW x \in Id \ lost
                   PROVE  IF rows[x] # None
                            THEN \/ x \in IdsOf(tabs')
                                 \/ \E d \in Edit : Creates(d)' /\ edits'[d].got.id = x
                            ELSE x \in IdsOf(tabs') =>
                                   \E d \in Edit : Deletes(d)' /\ edits'[d].col.id = x
      BY <1>3 DEF TabsFollowRows, IdsOf
    <2>2. IF rows[x] # None
            THEN \/ x \in IdsOf(tabs)
                 \/ \E d \in Edit : Creates(d) /\ edits[d].got.id = x
            ELSE x \in IdsOf(tabs) =>
                   \E d \in Edit : Deletes(d) /\ edits[d].col.id = x
      BY <2>1 DEF IInv, TabsFollowRows
    <2>3. Creates(e) => rows[edits[e].got.id] # None
      BY <1>2 DEF EditOK
    <2>4. Deletes(e) => rows[edits[e].col.id] = None
      BY <1>2 DEF EditOK
    <2>5. ~(Creates(e) /\ Deletes(e))
      BY DEF Creates, Deletes
    <2>6. CASE rows[x] # None
      BY <1>1, <2>2, <2>4, <2>5, <2>6 DEF TabsAnswer
    <2>7. CASE rows[x] = None
      BY <1>1, <2>2, <2>3, <2>5, <2>7 DEF TabsAnswer
    <2> QED BY <2>6, <2>7
  <1> QED BY <1>5, <1>6, <1>7, <1>8, <1>9 DEF EditsKept

LEMMA AnsweredSteps ==
  ASSUME IInv, NEW e \in Edit, CreateDone(e) \/ UpdateDone(e) \/ DeleteDone(e)
  PROVE  IInv'
  <1>1. /\ edits[e].reply = "ok"
        /\ edits' = [edits EXCEPT ![e] = Idle]
        /\ UNCHANGED <<rows, born, lost>>
    BY DEF CreateDone, UpdateDone, DeleteDone, Done, server
  <1>2. Becomes(e, "idle", None, None, None)
    BY <1>1, IdleBecomes DEF IInv
  <1>3. TypeOK /\ TabsApart /\ EditOK(e)
    BY DEF IInv
  <1>4. /\ TabsAnswer(e) /\ tabs' \in Seq(Row)
        /\ \A i, j \in DOMAIN tabs' : tabs'[i].id = tabs'[j].id => i = j
        /\ active' \in IdsOf(tabs') /\ active' \in Id
        /\ form' \in {"create", "edit", None}
        /\ formOf' \in Id \cup {None}
        /\ form' # "edit"
    <2>1. CASE CreateDone(e)
      <3>1. Creates(e)
        BY <2>1 DEF CreateDone, Done, Creates
      <3>2. edits[e].got \in Row /\ edits[e].got.id \notin IdsOf(tabs)
        BY <1>3, <3>1 DEF EditOK
      <3>3. tabs' = Append(tabs, edits[e].got) /\ active' = edits[e].got.id /\ CloseForm
        BY <2>1 DEF CreateDone
      <3> QED BY <1>3, <3>1, <3>2, <3>3, Appended, RowTypes, IdTypes DEF TabsAnswer, CloseForm
    <2>2. CASE UpdateDone(e)
      <3>1. ~Creates(e) /\ ~Deletes(e) /\ edits[e].op = "update"
        BY <2>2 DEF UpdateDone, Done, Creates, Deletes
      <3>2. edits[e].col \in Row /\ edits[e].got \in Row /\ edits[e].got.id = edits[e].col.id
        BY <1>1, <1>3, <3>1 DEF EditOK
      <3>3. tabs' = Replaced(edits[e].col, edits[e].got) /\ active' = active /\ CloseForm
        BY <2>2 DEF UpdateDone
      <3>4. active \in IdsOf(tabs) /\ active \in Id
        BY DEF IInv, ActiveIsATab, TypeOK
      <3> QED BY <1>3, <3>1, <3>2, <3>3, <3>4, Renamed, IdTypes DEF TabsAnswer, CloseForm
    <2>3. CASE DeleteDone(e)
      <3>1. Deletes(e) /\ ~Creates(e)
        BY <2>3 DEF DeleteDone, Done, Creates, Deletes
      <3>2. edits[e].col.id # Default /\ Default \in IdsOf(tabs)
        BY <1>3, <3>1 DEF EditOK, Deletes, TabsApart
      <3>3. RemoveTab(edits[e].col.id) /\ SetActive(Default)
        BY <2>3 DEF DeleteDone
      <3>4. /\ form' \in {"create", "edit", None} /\ formOf' \in Id \cup {None}
            /\ form' # "edit" /\ active' = Default
        BY <1>3, <3>3, IdTypes DEF SetActive, CloseForm, TypeOK
      <3> QED BY <1>3, <3>1, <3>2, <3>3, <3>4, Filtered, IdTypes DEF TabsAnswer
    <2> QED BY <2>1, <2>2, <2>3
  <1>5. EditsKept /\ TabsApart' /\ Unborn' /\ TabsFollowRows'
    BY <1>1, <1>2, <1>4, DoneStep
  <1>6. TypeOK'
    BY <1>1, <1>2, <1>3, <1>4 DEF TypeOK, Becomes
  <1>7. ActiveIsATab' /\ EditIsOfActive'
    BY <1>4 DEF ActiveIsATab, EditIsOfActive, IdsOf
  <1> QED BY <1>5, <1>6, <1>7 DEF IInv, EditsKept

-----------------------------------------------------------------------------
(* The form and the selection.                                             *)

LEMMA FormSteps ==
  ASSUME IInv,
         \/ \E mode \in {"create", "edit"} : OpenForm(mode)
         \/ SubmitUnchanged
         \/ \E id \in Id : SelectCollection(id)
  PROVE  IInv'
  <1>1. UNCHANGED <<rows, born, tabs, edits, lost>>
    BY DEF OpenForm, SubmitUnchanged, SelectCollection, server
  <1>2. /\ active' \in Id /\ active' \in IdsOf(tabs)
        /\ form' \in {"create", "edit", None} /\ formOf' \in Id \cup {None}
        /\ form' = "edit" => formOf' = active'
    <2>1. active \in Id /\ active \in IdsOf(tabs) /\ TypeOK /\ EditIsOfActive
      BY DEF IInv, TypeOK, ActiveIsATab
    <2>2. CASE \E mode \in {"create", "edit"} : OpenForm(mode)
      BY <2>1, <2>2, IdTypes DEF OpenForm
    <2>3. CASE SubmitUnchanged
      BY <2>1, <2>3, IdTypes DEF SubmitUnchanged, CloseForm
    <2>4. CASE \E id \in Id : SelectCollection(id)
      BY <2>1, <2>4, IdTypes DEF SelectCollection, SetActive, CloseForm, TypeOK
    <2> QED BY <2>2, <2>3, <2>4
  <1>3. TypeOK' /\ ActiveIsATab' /\ EditIsOfActive'
    BY <1>1, <1>2 DEF IInv, TypeOK, ActiveIsATab, EditIsOfActive, IdsOf
  <1>4. TabsApart' /\ Unborn' /\ TabsFollowRows'
    BY <1>1 DEF IInv, TabsApart, Unborn, TabsFollowRows, IdsOf, Creates, Deletes
  <1>5. \A d \in Edit : EditOK(d)'
    BY <1>1 DEF IInv, EditOK, IdsOf, Creates, Deletes
  <1>6. \A c, d \in Edit : CreatedApart(c, d)'
    BY <1>1 DEF IInv, CreatedApart, Creates
  <1> QED BY <1>3, <1>4, <1>5, <1>6 DEF IInv

LEMMA InitInvariant == Init => IInv
  <1> SUFFICES ASSUME Init PROVE IInv
    OBVIOUS
  <1>1. born \in Id /\ born \in Nat /\ born >= 1 /\ 0 \in 0..MaxVer /\ 0 # None
    BY BoundAssumption, NoneAssumption DEF Init, Id
  <1>2. \A i \in 1..born : i \in Id /\ [id |-> i, ver |-> 0] \in Row
    <2>1. \A i \in 1..born : i \in Id
      BY <1>1, BoundAssumption DEF Id
    <2> QED BY <1>1, <2>1, RowTypes
  <1>3. tabs \in Seq(Row) /\ DOMAIN tabs = 1..born /\ \A i \in 1..born : tabs[i].id = i
    <2>1. tabs \in [1..born -> Row]
      BY <1>2 DEF Init
    <2>2. \A i \in 1..born : tabs[i].id = i
      BY DEF Init
    <2> QED BY <1>1, <2>1, <2>2
  <1>4. IdsOf(tabs) = 1..born
    BY <1>3 DEF IdsOf
  <1>5. TypeOK
    <2>1. rows \in [Id -> 0..MaxVer \cup {None}]
      BY <1>1 DEF Init
    <2>2. active \in Id /\ edits \in [Edit -> Activation]
      BY <1>2, <1>4, ActivationFields DEF Init
    <2> QED BY <1>1, <1>3, <2>1, <2>2 DEF Init, TypeOK
  <1>6. TabsApart /\ ActiveIsATab
    BY <1>1, <1>3, <1>4 DEF Init, TabsApart, ActiveIsATab, Default
  <1>7. Unborn
    BY <1>1, IdTypes DEF Init, Unborn
  <1>8. \A e \in Edit : edits[e].op = "idle"
    BY DEF Init, Idle
  <1>9. /\ \A e \in Edit : EditOK(e)
        /\ \A d, e \in Edit : CreatedApart(d, e)
    BY <1>8 DEF EditOK, CreatedApart, Creates, Deletes
  <1>10. TabsFollowRows
    <2>1. ASSUME NEW id \in Id
          PROVE  rows[id] # None <=> id \in 1..born
      <3>1. rows[id] # None <=> id <= born
        BY <1>1 DEF Init
      <3> QED BY <1>1, <3>1, BoundAssumption DEF Id
    <2> QED BY <1>4, <2>1 DEF TabsFollowRows
  <1>11. EditIsOfActive
    BY IdTypes DEF Init, EditIsOfActive
  <1> QED BY <1>5, <1>6, <1>7, <1>9, <1>10, <1>11 DEF IInv

\* What is known of the tabs, the rows and the answers on their way holds in
\* every state of the page, whatever edits overlap and whatever is lost
\* (createCollection, updateCollection, deleteCollection).
THEOREM TabsInvariance == Spec => []IInv
  <1>1. IInv /\ [Next]_vars => IInv'
    <2> SUFFICES ASSUME IInv, [Next]_vars PROVE IInv'
      OBVIOUS
    <2>1. CASE \/ \E mode \in {"create", "edit"} : OpenForm(mode)
               \/ SubmitUnchanged
               \/ \E id \in Id : SelectCollection(id)
      BY <2>1, FormSteps
    <2>2. ASSUME NEW e \in Edit, SubmitCreate(e) \/ SubmitUpdate(e) \/ ClickDelete(e)
          PROVE  IInv'
      BY <2>2, StartSteps
    <2>3. ASSUME NEW e \in Edit, ServeCreate(e)
          PROVE  IInv'
      BY <2>3, ServeCreateStep
    <2>4. ASSUME NEW e \in Edit, ServeUpdate(e) \/ ServeDelete(e)
          PROVE  IInv'
      BY <2>4, ServeRowStep
    <2>5. ASSUME NEW e \in Edit, Refuse(e) \/ Lose(e) \/ Refused(e)
          PROVE  IInv'
      BY <2>5, RefusalSteps
    <2>6. ASSUME NEW e \in Edit, CreateDone(e) \/ UpdateDone(e) \/ DeleteDone(e)
          PROVE  IInv'
      BY <2>6, AnsweredSteps
    <2>7. CASE UNCHANGED vars
      BY <2>7 DEF vars, server, ui, IInv, TypeOK, EditOK, CreatedApart, TabsApart, Unborn,
         TabsFollowRows, ActiveIsATab, EditIsOfActive, IdsOf, Creates, Deletes
    <2> QED BY <2>1, <2>2, <2>3, <2>4, <2>5, <2>6, <2>7 DEF Next
  <1> QED BY <1>1, InitInvariant, PTL DEF Spec

\* The active collection is one of the tabs, so every path the page builds
\* names a tab the user can see.
THEOREM ActiveAlwaysATab == Spec => []ActiveIsATab
  <1>1. IInv => ActiveIsATab
    BY DEF IInv
  <1> QED BY <1>1, TabsInvariance, PTL

\* The form that edits is about the active collection (setActiveCollection).
THEOREM FormFollowsActive == Spec => []EditIsOfActive
  <1>1. IInv => EditIsOfActive
    BY DEF IInv
  <1> QED BY <1>1, TabsInvariance, PTL

\* With no edit under way there is one tab for each collection of the server and
\* none for another, but for the collections whose own answer was lost: the local
\* edits of the list are enough.
THEOREM LocalEditsSuffice == Spec => []TabsSettle
  <1>1. IInv => TabsSettle
    <2> SUFFICES ASSUME IInv, \A e \in Edit : Free(e)
                 PROVE  /\ \A id \in Id \ lost : id \in IdsOf(tabs) <=> rows[id] # None
                        /\ Len(tabs) = Cardinality(IdsOf(tabs))
      BY DEF TabsSettle
    <2>1. Len(tabs) \in Nat /\ DOMAIN tabs = 1..Len(tabs)
          /\ \A i \in DOMAIN tabs : tabs[i] \in Row
      BY DEF IInv, TypeOK
    <2>2. \A id \in Id \ lost : id \in IdsOf(tabs) <=> rows[id] # None
      <3>1. \A e \in Edit : ~Creates(e) /\ ~Deletes(e)
        BY DEF Free, Creates, Deletes
      <3>2. IdsOf(tabs) \subseteq Id
        BY <2>1, RowTypes DEF IdsOf
      <3> QED BY <3>1, <3>2 DEF IInv, TabsFollowRows
    <2>3. Len(tabs) = Cardinality(IdsOf(tabs))
      <3> DEFINE f == [i \in 1..Len(tabs) |-> tabs[i].id]
      <3>1. f \in Bijection(1..Len(tabs), IdsOf(tabs))
        <4>1. f \in [1..Len(tabs) -> IdsOf(tabs)]
          BY <2>1 DEF IdsOf
        <4>2. \A i, j \in 1..Len(tabs) : f[i] = f[j] => i = j
          BY <2>1 DEF IInv, TabsApart
        <4>3. \A x \in IdsOf(tabs) : \E i \in 1..Len(tabs) : f[i] = x
          BY <2>1 DEF IdsOf
        <4> QED BY <4>1, <4>2, <4>3 DEF Bijection, Injection, Surjection, IsInjective
      <3>2. ExistsBijection(1..Len(tabs), IdsOf(tabs))
        BY <3>1 DEF ExistsBijection
      <3>3. IsFiniteSet(1..Len(tabs)) /\ Cardinality(1..Len(tabs)) = Len(tabs)
        BY <2>1, FS_Interval
      <3> QED BY <3>2, <3>3, FS_Bijection
    <2> QED BY <2>2, <2>3
  <1> QED BY <1>1, TabsInvariance, PTL

=============================================================================
