---------------------------- MODULE CollectionSvc ---------------------------
(***************************************************************************)
(* The collections of an account (internal/collectionsvc and the           *)
(* collection repository).                                                 *)
(***************************************************************************)
EXTENDS Storage

\* CreateCollection, in a transaction: SELECT .. FOR UPDATE on the user row
\* serializes the creates of one user.
LockUser(r) ==
  LET u == rq[r].user IN
  /\ rq[r].pc = "lockUser"
  /\ userLock[u] = None
  /\ \/ /\ UserExists(u)
        /\ userLock' = [userLock EXCEPT ![u] = r]
        /\ rq' = [rq EXCEPT ![r].pc = "countClts"]
        /\ answer' = None
        /\ UNCHANGED <<tables, cltLock>>
     \/ /\ ~UserExists(u)
        /\ Reply(r, 404)

\* Mutant: off by one.
CountCollectionsOffByOne(r) ==
  LET n == Cardinality(Owned(rq[r].user)) IN
  /\ rq[r].pc = "countClts"
  /\ \/ n > CollectionQuota /\ Reply(r, 409)
     \/ n <= CollectionQuota /\ Continue(r, "insertClt")

CountCollections(r) ==
  LET n == Cardinality(Owned(rq[r].user)) IN
  /\ rq[r].pc = "countClts"
  /\ \/ n >= CollectionQuota /\ Reply(r, 409)
     \/ n < CollectionQuota /\ Continue(r, "insertClt")

InsertCollection(r) ==
  /\ rq[r].pc = "insertClt"
  /\ \E c \in FreshClt : rq' = [rq EXCEPT ![r].pc = "commitClt", ![r].clt = c]
  /\ answer' = None
  /\ UNCHANGED <<tables, locks>>

\* The name is the client's; nobody sees the row before this step.
CommitCollection(r) ==
  /\ rq[r].pc = "commitClt"
  /\ \E name \in Name : InsertCollectionRow(rq[r].clt, rq[r].user, name)
  /\ Committed(r, 201)

-----------------------------------------------------------------------------
(* One statement each. *)

ListCollections(r) == rq[r].pc = "listClts" /\ Reply(r, 200)

GetCollection(r) ==
  /\ rq[r].pc = "getClt"
  /\ Reply(r, IF Owns(rq[r].user, rq[r].clt) THEN 200 ELSE 404)

\* Mutant: UPDATE .. WHERE id = $1, without the owner.
UpdateCollectionOfAnyone(r) ==
  LET c == rq[r].clt IN
  /\ rq[r].pc = "updateClt"
  /\ \/ /\ CltExists(c)
        /\ cltLock[c] = None
        /\ \E name \in Name \cup {None} : UpdateCollectionRow(c, name)
        /\ Committed(r, 200)
     \/ /\ ~CltExists(c)
        /\ Reply(r, 404)

\* WHERE id = $1 AND user_id = $2: UPDATE waits for the lock of a row it matches,
\* and then looks at the row again; a row it does not match it passes over.
UpdateCollection(r) ==
  LET c == rq[r].clt IN
  /\ rq[r].pc = "updateClt"
  /\ \/ /\ Owns(rq[r].user, c)
        /\ cltLock[c] = None
        /\ \E name \in Name \cup {None} : UpdateCollectionRow(c, name)
        /\ Committed(r, 200)
     \/ /\ ~Owns(rq[r].user, c)
        /\ Reply(r, 404)

-----------------------------------------------------------------------------
(* DeleteCollection: a read, then a delete, with no transaction. *)

\* Mutant: is_default is not looked at.
ReadCollectionAnyKind(r) ==
  /\ rq[r].pc = "readClt"
  /\ \/ ~Owns(rq[r].user, rq[r].clt) /\ Reply(r, 404)
     \/ Owns(rq[r].user, rq[r].clt) /\ Continue(r, "deleteClt")

ReadCollection(r) ==
  LET c == rq[r].clt IN
  /\ rq[r].pc = "readClt"
  /\ \/ ~Owns(rq[r].user, c) /\ Reply(r, 404)
     \/ Owns(rq[r].user, c) /\ IsDefault(c) /\ Reply(r, 409)
     \/ Owns(rq[r].user, c) /\ ~IsDefault(c) /\ Continue(r, "deleteClt")

DeleteCollection(r) ==
  LET c == rq[r].clt IN
  /\ rq[r].pc = "deleteClt"
  /\ \/ /\ Owns(rq[r].user, c)
        /\ cltLock[c] = None
        /\ DeleteCollectionRow(c)
        /\ Committed(r, 204)
     \/ /\ ~Owns(rq[r].user, c)
        /\ Reply(r, 404)

CollectionStep(r) ==
  \/ LockUser(r) \/ CountCollections(r) \/ InsertCollection(r) \/ CommitCollection(r)
  \/ ListCollections(r) \/ GetCollection(r) \/ UpdateCollection(r)
  \/ ReadCollection(r) \/ DeleteCollection(r)
=============================================================================
