--------------------------- MODULE CollectionTabs ---------------------------
(***************************************************************************)
(* The tabs of the web page: the list of collections it keeps, and the     *)
(* create, rename and delete that edit this copy (web/app.js).  The list   *)
(* is fetched once per session; after that the page and the server change  *)
(* apart, and meet in the answers.                                         *)
(*                                                                         *)
(* One session, from the moment its list is there; what happens when       *)
(* sessions end is in WebClient, and so is the grid each change reloads.   *)
(* An edit is one activation of an async function: the click, the request  *)
(* at the server, and the turn its answer arrives in.                      *)
(***************************************************************************)
EXTENDS Integers, Sequences, FiniteSets

CONSTANTS Edit,    \* activations started by the user
          MaxId,   \* bound: collections ever created, in order; 1 is the default
          MaxVer,  \* bound: renames of one collection
          None

Id == 1..MaxId
Default == 1

\* A row as the server sends it.  Every rename makes another object of it, so
\* two objects of one collection differ in ver.
Row == [id : Id, ver : 0..MaxVer]

ASSUME BoundAssumption == MaxId \in Nat \ {0} /\ MaxVer \in Nat
ASSUME NoneAssumption ==
  None \notin Id \cup 0..MaxVer \cup Row \cup {"create", "edit", "ok", "refused"}

VARIABLES rows,    \* server: [Id -> the version of the row, or None]
          born,    \* server: how many rows were ever created
          tabs,    \* collections
          active,  \* activeCollection
          form,    \* formMode
          formOf,  \* the collection whose values fill the form
          edits,   \* [Edit -> the activation]
          lost     \* history: the collections made or deleted by a request
                   \* whose answer was lost

server == <<rows, born>>
ui == <<tabs, active, form, formOf>>
vars == <<server, ui, edits, lost>>

Activation == [op : {"idle", "create", "update", "delete"},
               col : Row \cup {None},   \* the object it found in the list
               reply : {"ok", "refused", None},
               got : Row \cup {None}]   \* the row in the reply

Idle == [op |-> "idle", col |-> None, reply |-> None, got |-> None]

-----------------------------------------------------------------------------
(* The functions that run within one turn.                                 *)

IdsOf(list) == {list[i].id : i \in DOMAIN list}

Tab(id) == CHOOSE col \in {tabs[i] : i \in DOMAIN tabs} : col.id = id

CloseForm == form' = None /\ formOf' = None

\* Mutant: the form stays open on the collection that was showing.
SetActiveOnly(id) == active' = id /\ UNCHANGED <<form, formOf>>

\* setActiveCollection: a form that edits was opened on another collection.
SetActive(id) == /\ active' = id
                 /\ IF form = "edit" THEN CloseForm ELSE UNCHANGED <<form, formOf>>

\* collections.filter: the tabs of other collections, in their order.
RemoveTab(id) ==
  LET kept == {i \in DOMAIN tabs : tabs[i].id # id} IN
  \E at \in [1..Cardinality(kept) -> kept] :
    /\ {at[i] : i \in DOMAIN at} = kept
    /\ \A i, j \in DOMAIN at : i < j => at[i] < at[j]
    /\ tabs' = [i \in DOMAIN at |-> tabs[at[i]]]

\* collections[collections.indexOf(col)] = row: without col in the list the
\* index is -1 and the assignment changes none of its elements.
Replaced(col, row) == [i \in DOMAIN tabs |-> IF tabs[i] = col THEN row ELSE tabs[i]]

-----------------------------------------------------------------------------
(* What the user does.                                                     *)

Free(e) == edits[e].op = "idle"

Send(e, op, col) == /\ edits' = [edits EXCEPT ![e] = [Idle EXCEPT !.op = op, !.col = col]]
                    /\ UNCHANGED <<server, lost>>

\* The plus or the pencil opens its form, or closes it when it is open.
OpenForm(mode) == /\ form' = IF form = mode THEN None ELSE mode
                  /\ formOf' = IF form # mode /\ mode = "edit" THEN active ELSE None
                  /\ UNCHANGED <<server, tabs, active, edits, lost>>

SubmitCreate(e) == /\ Free(e)
                   /\ form = "create"
                   /\ Send(e, "create", None)
                   /\ UNCHANGED ui

\* updateCollection looks the collection up here and goes by it later.
SubmitUpdate(e) == /\ Free(e)
                   /\ form = "edit"
                   /\ Send(e, "update", Tab(active))
                   /\ UNCHANGED ui

\* Nothing changed: no request.
SubmitUnchanged == /\ form = "edit"
                   /\ CloseForm
                   /\ UNCHANGED <<server, tabs, active, edits, lost>>

\* Confirmed in the same turn.
ClickDelete(e) == /\ Free(e)
                  /\ active # Default
                  /\ Send(e, "delete", Tab(active))
                  /\ UNCHANGED ui

SelectCollection(id) == /\ id \in IdsOf(tabs) \ {active}
                        /\ SetActive(id)
                        /\ UNCHANGED <<server, tabs, edits, lost>>

-----------------------------------------------------------------------------
(* The server, one request at a time, and the network.                     *)

Waiting(e, op) == edits[e].op = op /\ edits[e].reply = None

Answer(e, reply, got) == /\ edits' = [edits EXCEPT ![e].reply = reply, ![e].got = got]
                         /\ UNCHANGED <<ui, lost>>

ServeCreate(e) == /\ Waiting(e, "create")
                  /\ born < MaxId
                  /\ born' = born + 1
                  /\ rows' = [rows EXCEPT ![born + 1] = 0]
                  /\ Answer(e, "ok", [id |-> born + 1, ver |-> 0])

ServeUpdate(e) == LET id == edits[e].col.id IN
                  /\ Waiting(e, "update")
                  /\ rows[id] # None
                  /\ rows[id] < MaxVer
                  /\ rows' = [rows EXCEPT ![id] = @ + 1]
                  /\ Answer(e, "ok", [id |-> id, ver |-> rows[id] + 1])
                  /\ UNCHANGED born

ServeDelete(e) == LET id == edits[e].col.id IN
                  /\ Waiting(e, "delete")
                  /\ rows[id] # None
                  /\ rows' = [rows EXCEPT ![id] = None]
                  /\ Answer(e, "ok", None)
                  /\ UNCHANGED born

\* A quota, a row that is gone, a failure on the way to the server.
Refuse(e) == /\ ~Free(e)
             /\ edits[e].reply = None
             /\ Answer(e, "refused", None)
             /\ UNCHANGED server

\* The tab that an answer adds or takes away.
TabOf(e) == CASE edits[e].op = "create" -> {edits[e].got.id}
              [] edits[e].op = "delete" -> {edits[e].col.id}
              [] OTHER -> {}

\* The change was made and its answer does not arrive.
Lose(e) == /\ edits[e].reply = "ok"
           /\ edits' = [edits EXCEPT ![e].reply = "refused", ![e].got = None]
           /\ lost' = lost \cup TabOf(e)
           /\ UNCHANGED <<server, ui>>

-----------------------------------------------------------------------------
(* The turn an answer arrives in.                                          *)

Done(e, op) == /\ edits[e].op = op
               /\ edits[e].reply = "ok"
               /\ edits' = [edits EXCEPT ![e] = Idle]
               /\ UNCHANGED <<server, lost>>

\* createCollection: the new tab is selected and the form closes.
CreateDone(e) == /\ Done(e, "create")
                 /\ tabs' = Append(tabs, edits[e].got)
                 /\ active' = edits[e].got.id
                 /\ CloseForm

UpdateDone(e) == /\ Done(e, "update")
                 /\ tabs' = Replaced(edits[e].col, edits[e].got)
                 /\ CloseForm
                 /\ UNCHANGED active

\* Mutant: the deleted collection stays the active one.
DeleteDoneStays(e) == /\ Done(e, "delete")
                      /\ RemoveTab(edits[e].col.id)
                      /\ UNCHANGED <<active, form, formOf>>

\* Mutant: the list is kept.
DeleteDoneKept(e) == /\ Done(e, "delete")
                     /\ SetActive(Default)
                     /\ UNCHANGED tabs

\* deleteCollection: pickCollection(null) is the default.
DeleteDone(e) == /\ Done(e, "delete")
                 /\ RemoveTab(edits[e].col.id)
                 /\ SetActive(Default)

\* The catch: a message in the log, and a form keeps its fields.
Refused(e) == /\ edits[e].reply = "refused"
              /\ edits' = [edits EXCEPT ![e] = Idle]
              /\ UNCHANGED <<server, ui, lost>>

-----------------------------------------------------------------------------

\* The list has arrived, with the default and some more.
Init == /\ born \in 1..MaxId
        /\ rows = [id \in Id |-> IF id <= born THEN 0 ELSE None]
        /\ tabs = [i \in 1..born |-> [id |-> i, ver |-> 0]]
        /\ active \in IdsOf(tabs)
        /\ form = None
        /\ formOf = None
        /\ edits = [e \in Edit |-> Idle]
        /\ lost = {}

Next == \/ \E mode \in {"create", "edit"} : OpenForm(mode)
        \/ SubmitUnchanged
        \/ \E id \in Id : SelectCollection(id)
        \/ \E e \in Edit :
             \/ SubmitCreate(e) \/ SubmitUpdate(e) \/ ClickDelete(e)
             \/ ServeCreate(e) \/ ServeUpdate(e) \/ ServeDelete(e)
             \/ Refuse(e) \/ Lose(e)
             \/ CreateDone(e) \/ UpdateDone(e) \/ DeleteDone(e) \/ Refused(e)

Spec == Init /\ [][Next]_vars

-----------------------------------------------------------------------------

\* The types of the state.
TypeOK == /\ rows \in [Id -> 0..MaxVer \cup {None}]
          /\ born \in Id
          /\ tabs \in Seq(Row)
          /\ active \in Id
          /\ form \in {"create", "edit", None}
          /\ formOf \in Id \cup {None}
          /\ edits \in [Edit -> Activation]
          /\ lost \subseteq Id

\* Whatever edits overlap, the active collection is one of the tabs, so every
\* path the page builds names a tab the user can see (deleteCollection,
\* createCollection, selectCollection).
ActiveIsATab == active \in IdsOf(tabs)

\* Local edits are enough: with no edit under way, a collection has a tab just
\* if the server has it, and has one only.  An answer that was lost leaves the
\* tab it was about in doubt, and no other: not its neighbours in the list, and
\* none that later edits make or delete.
TabsSettle ==
  (\A e \in Edit : Free(e)) =>
     /\ \A id \in Id \ lost : id \in IdsOf(tabs) <=> rows[id] # None
     /\ Len(tabs) = Cardinality(IdsOf(tabs))

\* The form that edits holds the values of the collection it would change,
\* however the active one changed while it was open (setActiveCollection).
EditIsOfActive == form = "edit" => formOf = active

\* "The list is ordered oldest first, which is where a new row belongs."
OldestFirst == \A i, j \in DOMAIN tabs : i < j => tabs[i].id < tabs[j].id

\* "the tab strip is showing the result" when the form closes on an update.
TabShowsResult ==
  [][\A e \in Edit : UpdateDone(e) =>
       \/ edits[e].got.id \notin IdsOf(tabs)
       \/ \E i \in DOMAIN tabs' : tabs'[i] = edits[e].got]_vars

\* "grid is showing a collection that no longer exists": that is why a delete
\* moves the user, and only from the collection it deleted.
DeleteMovesFromDeleted ==
  [][\A e \in Edit : DeleteDone(e) /\ active' # active => active = edits[e].col.id]_vars
=============================================================================
