------------------------------ MODULE Services ------------------------------
(***************************************************************************)
(* The whole server over one database: requests of every service           *)
(* interleaved statement by statement, with failures, crashes and expiring *)
(* tokens.                                                                 *)
(***************************************************************************)
EXTENDS AuthSvc, UserSvc, CollectionSvc, ColorSvc

\* A request arrives; those behind authenticate also make its lookup.
Receive(r) == \/ StartSignUp(r)
              \/ FindUser(r)
              \/ RefuseLogin(r)
              \/ Unauthorized(r)
              \/ \E op \in AuthedOp : Authenticate(r, op)

\* The next statement of a request in flight.
Progress(r) == AuthStep(r) \/ UserStep(r) \/ CollectionStep(r) \/ ColorStep(r)

Next == \/ \E r \in Req : Receive(r) \/ Progress(r) \/ Abort(r)
        \/ \E t \in Token : ExpireToken(t)
        \/ Crash

Spec == Init /\ [][Next]_vars

\* PostgreSQL queues the waiters of a row lock, and every holder ends: a request
\* that can proceed again and again does proceed.
Fairness == \A r \in Req : SF_vars(Progress(r))

FairSpec == Spec /\ Fairness

-----------------------------------------------------------------------------
(* Locks. *)

UserLockPc == {"cascade", "countClts", "insertClt", "commitClt"}
CltLockPc == {"countColors", "hasColor", "insertColor", "commitColor"}

\* A row lock belongs to a transaction that is at a step that needs it, on a row
\* that exists; and a transaction at such a step holds its lock.
LocksHeld ==
  /\ \A u \in UserID : userLock[u] # None =>
       /\ UserExists(u)
       /\ rq[userLock[u]].pc \in UserLockPc
       /\ rq[userLock[u]].user = u
  /\ \A c \in CltID : cltLock[c] # None =>
       /\ CltExists(c)
       /\ \/ rq[cltLock[c]].pc \in CltLockPc /\ rq[cltLock[c]].clt = c
          \/ rq[cltLock[c]].pc = "cascade" /\ Owns(rq[cltLock[c]].user, c)
  /\ \A r \in Req :
       /\ rq[r].pc \in UserLockPc => userLock[rq[r].user] = r
       /\ rq[r].pc \in CltLockPc => cltLock[rq[r].clt] = r

\* What a transaction has counted is never less than what the tables hold when
\* it inserts, so an insert decided on the count keeps the quota ("the count
\* below cannot go stale", colorsvc.AddColor and collectionsvc.CreateCollection).
RoomLeft ==
  \A r \in Req :
    /\ rq[r].pc \in {"insertClt", "commitClt"} =>
         Cardinality(Owned(rq[r].user)) < CollectionQuota
    /\ rq[r].pc \in {"insertColor", "commitColor"} =>
         Cardinality(colors[rq[r].clt]) < ColorQuota

\* A row that is not committed yet collides with no committed row and with no
\* other uncommitted one: not by its id, and not by its nickname, which only the
\* wait of InsertUser keeps apart.
UserPending(r) == rq[r].pc \in {"insertDefault", "commitUser"}
CltPending(r) == rq[r].pc \in {"commitUser", "commitClt"}

PendingRowsDistinct ==
  \A r \in Req :
    /\ UserPending(r) => /\ ~UserExists(rq[r].user)
                         /\ ~NickTaken(rq[r].nick)
                         /\ \A q \in Req \ {r} : UserPending(q) =>
                              rq[q].user # rq[r].user /\ rq[q].nick # rq[r].nick
    /\ CltPending(r) => /\ ~CltExists(rq[r].clt)
                        /\ \A q \in Req \ {r} : CltPending(q) => rq[q].clt # rq[r].clt

\* What a request learned about its collection before the statement it is at
\* stays true although it holds no lock: the collection may go, but it never
\* becomes another user's, a default one, or a row not committed yet.  A colour
\* found missing under the lock is still missing at COMMIT.
ResolvedPc == CltLockPc \cup {"deleteClt", "deleteColor", "deleteAllColors", "listColors"}

ResolvedStillTrue ==
  \A r \in Req :
    /\ rq[r].pc \in ResolvedPc =>
         /\ CltExists(rq[r].clt) => Owns(rq[r].user, rq[r].clt)
         /\ \A q \in Req : CltPending(q) => rq[q].clt # rq[r].clt
    /\ rq[r].pc = "deleteClt" => ~IsDefault(rq[r].clt)
    /\ rq[r].pc = "commitColor" => rq[r].hex \notin colors[rq[r].clt]

\* The invariant every step preserves.
IInv == /\ TypeOK
        /\ ReferentialIntegrity
        /\ NicknamesUnique
        /\ OneDefaultCollection
        /\ CollectionsWithinQuota
        /\ ColorsWithinQuota
        /\ LocksHeld
        /\ RoomLeft
        /\ PendingRowsDistinct
        /\ ResolvedStillTrue

-----------------------------------------------------------------------------
(* What a step may never do. *)

\* This step answers the request of r.
Answers(r, op, status) == /\ rq[r].op = op
                          /\ answer' = [req |-> r, status |-> status]

\* Only a request of the owner changes a collection or its colours, although
\* DeleteColor, DeleteAllColors and AddColor write by collection id alone,
\* statements after the ownership was checked.
OnlyTheOwnerWrites ==
  [][\A c \in CltID :
       CltExists(c) /\ (collections'[c] # collections[c] \/ colors'[c] # colors[c]) =>
         \E r \in Req : /\ rq[r].user = collections[c].owner
                        /\ rq[r].pc # "done"
                        /\ rq'[r].pc = "done"]_vars

\* A default collection goes only together with its account, although
\* DeleteCollection looks at is_default outside the statement that deletes.
DefaultKept ==
  [][\A c \in CltID :
       IsDefault(c) /\ ~IsDefault(c)' => users'[collections[c].owner] = None]_vars

\* 201 to AddColor means this request saved the colour: of concurrent adds of
\* one colour to one collection exactly one is answered 201, the others 200.
CreatedIsNew ==
  [][\A r \in Req :
       Answers(r, "AddColor", 201) =>
         \E hex \in Hex : /\ hex \notin colors[rq[r].clt]
                          /\ colors'[rq[r].clt] = colors[rq[r].clt] \cup {hex}]_vars

\* Nothing is left of an account once its deletion is answered, whatever was in
\* flight for it.
DeletedIsGone ==
  [][\A r \in Req, u \in UserID :
       Answers(r, "DeleteMe", 204) /\ rq[r].user = u =>
         /\ ~UserExists(u)'
         /\ \A t \in Token : tokens'[t] # None => tokens'[t].user # u
         /\ \A c \in CltID : ~Owns(u, c)']_vars

\* Every step is one change the API promises, or changes no row.
API == INSTANCE WavelenAPI WITH users <- users, tokens <- tokens,
                                collections <- collections, colors <- colors
ImplementsAPI == API!Spec

-----------------------------------------------------------------------------
(* What must happen. *)

\* Every request is answered: no cycle of lock waits, no waiter left behind.
EveryRequestAnswered == \A r \in Req : rq[r].pc # "done" ~> rq[r].pc = "done"

-----------------------------------------------------------------------------
(* What the repository says and interleavings break. *)

\* authsvc.Login: "the endpoint has only one failure answer", a 401.
LoginFailsOneWay ==
  [][\A r \in Req, status \in Status :
       Answers(r, "Login", status) => status \in {201, 401, 500}]_vars

\* HandleDeleteMe: "All the user tokens will also be deleted, so a repeat
\* answers 401."
RepeatedDeleteMeIs401 == [][\A r \in Req : ~Answers(r, "DeleteMe", 404)]_vars

\* api.yaml, DELETE /tokens: "An already invalid token answers 401, not 204."
LogoutOnce ==
  [][\A r \in Req : Answers(r, "Logout", 204) => tokens[rq[r].tok] # None]_vars

\* docs/datamodel.md: a user has one or more collections; an export shows them.
ExportHasDefault ==
  [][\A r \in Req : Answers(r, "Export", 200) =>
       \E c \in Owned(rq[r].user) : IsDefault(c)]_vars

\* colorsvc.AddColor: "A collection exceeding the quota -> ErrQuotaFull", decided
\* on a count that "cannot go stale".
RefusedOnlyWhenFull ==
  [][\A r \in Req : Answers(r, "AddColor", 409) =>
       Cardinality(colors[rq[r].clt]) >= ColorQuota]_vars
=============================================================================
