------------------------------ MODULE ColorSvc ------------------------------
(***************************************************************************)
(* The colours of a collection (internal/colorsvc and the color            *)
(* repository).                                                            *)
(***************************************************************************)
EXTENDS Storage

\* Mutant: SELECT without FOR UPDATE.
LockCollectionNoLock(r) ==
  /\ rq[r].pc = "lockClt"
  /\ \/ Owns(rq[r].user, rq[r].clt) /\ Continue(r, "countColors")
     \/ ~Owns(rq[r].user, rq[r].clt) /\ Reply(r, 404)

\* Mutant: SELECT .. WHERE id = $1 FOR UPDATE, without the owner.
LockCollectionOfAnyone(r) ==
  LET c == rq[r].clt IN
  /\ rq[r].pc = "lockClt"
  /\ \/ /\ CltExists(c)
        /\ cltLock[c] = None
        /\ cltLock' = [cltLock EXCEPT ![c] = r]
        /\ rq' = [rq EXCEPT ![r].pc = "countColors"]
        /\ answer' = None
        /\ UNCHANGED <<tables, userLock>>
     \/ /\ ~CltExists(c)
        /\ Reply(r, 404)

\* AddColor, in a transaction: SELECT .. FOR UPDATE on the collection row
\* proves the caller owns it and serializes the adds to it.
LockCollection(r) ==
  LET c == rq[r].clt IN
  /\ rq[r].pc = "lockClt"
  /\ \/ /\ Owns(rq[r].user, c)
        /\ cltLock[c] = None
        /\ cltLock' = [cltLock EXCEPT ![c] = r]
        /\ rq' = [rq EXCEPT ![r].pc = "countColors"]
        /\ answer' = None
        /\ UNCHANGED <<tables, userLock>>
     \/ /\ ~Owns(rq[r].user, c)
        /\ Reply(r, 404)

\* Mutant: off by one.
CountColorsOffByOne(r) ==
  LET n == Cardinality(colors[rq[r].clt]) IN
  /\ rq[r].pc = "countColors"
  /\ \/ n > ColorQuota /\ Continue(r, "hasColor")
     \/ n <= ColorQuota /\ Continue(r, "insertColor")

CountColors(r) ==
  LET n == Cardinality(colors[rq[r].clt]) IN
  /\ rq[r].pc = "countColors"
  /\ \/ n >= ColorQuota /\ Continue(r, "hasColor")
     \/ n < ColorQuota /\ Continue(r, "insertColor")

\* Mutant: a refusal returns without ending the transaction.
HasColorKeepsLock(r) ==
  /\ rq[r].pc = "hasColor"
  /\ rq' = [rq EXCEPT ![r] = NoRequest]
  /\ \E hex \in Hex :
       answer' = [req |-> r, status |-> IF hex \in colors[rq[r].clt] THEN 200 ELSE 409]
  /\ UNCHANGED <<tables, locks>>

\* At the quota: a colour already saved is a success, any other is refused.
HasColor(r) == /\ rq[r].pc = "hasColor"
               /\ \E hex \in Hex :
                    Reply(r, IF hex \in colors[rq[r].clt] THEN 200 ELSE 409)

\* Mutant: ON CONFLICT DO UPDATE, which reports one row affected either way.
InsertColorUpsert(r) ==
  /\ rq[r].pc = "insertColor"
  /\ \E hex \in Hex : rq' = [rq EXCEPT ![r].pc = "commitColor", ![r].hex = hex]
  /\ answer' = None
  /\ UNCHANGED <<tables, locks>>

\* ON CONFLICT DO NOTHING: a colour already saved leaves nothing to commit.
InsertColor(r) ==
  /\ rq[r].pc = "insertColor"
  /\ \E hex \in Hex :
       \/ /\ hex \in colors[rq[r].clt]
          /\ Reply(r, 200)
       \/ /\ hex \notin colors[rq[r].clt]
          /\ rq' = [rq EXCEPT ![r].pc = "commitColor", ![r].hex = hex]
          /\ answer' = None
          /\ UNCHANGED <<tables, locks>>

CommitColor(r) == /\ rq[r].pc = "commitColor"
                  /\ InsertColorRow(rq[r].clt, rq[r].hex)
                  /\ Committed(r, 201)

-----------------------------------------------------------------------------
(* Deleting and listing: resolve the collection, then one statement on its *)
(* colours, each on its own and without the collection's lock.             *)

AfterResolve == [resolveDelete    |-> "deleteColor",
                 resolveDeleteAll |-> "deleteAllColors",
                 resolveList      |-> "listColors"]

\* Mutant: SELECT .. WHERE id = $1, without the owner.
ResolveCollectionOfAnyone(r) ==
  /\ rq[r].pc \in DOMAIN AfterResolve
  /\ \/ CltExists(rq[r].clt) /\ Continue(r, AfterResolve[rq[r].pc])
     \/ ~CltExists(rq[r].clt) /\ Reply(r, 404)

ResolveCollection(r) ==
  /\ rq[r].pc \in DOMAIN AfterResolve
  /\ \/ Owns(rq[r].user, rq[r].clt) /\ Continue(r, AfterResolve[rq[r].pc])
     \/ ~Owns(rq[r].user, rq[r].clt) /\ Reply(r, 404)

DeleteColor(r) ==
  LET c == rq[r].clt IN
  /\ rq[r].pc = "deleteColor"
  /\ \E hex \in Hex :
       \/ hex \in colors[c] /\ DeleteColorRow(c, hex) /\ Committed(r, 204)
       \/ hex \notin colors[c] /\ Reply(r, 404)

DeleteAllColors(r) == /\ rq[r].pc = "deleteAllColors"
                      /\ DeleteColorRows(rq[r].clt)
                      /\ Committed(r, 204)

ListColors(r) == rq[r].pc = "listColors" /\ Reply(r, 200)

ColorStep(r) ==
  \/ LockCollection(r) \/ CountColors(r) \/ HasColor(r) \/ InsertColor(r) \/ CommitColor(r)
  \/ ResolveCollection(r) \/ DeleteColor(r) \/ DeleteAllColors(r) \/ ListColors(r)
=============================================================================
