------------------------------- MODULE Storage ------------------------------
(***************************************************************************)
(* Requests in flight and the transactions they run (internal/storage,     *)
(* PostgreSQL at READ COMMITTED).  A request is a process; one step is one *)
(* SQL statement or one COMMIT.                                            *)
(*                                                                         *)
(*  - An uncommitted row lives only in the request that wrote it and       *)
(*    reaches the tables at COMMIT; a rollback just forgets it.            *)
(*  - The two locks that outlive a statement are the row locks on users    *)
(*    and collections (SELECT .. FOR UPDATE, and the rows a DELETE with    *)
(*    its cascade has reached).  A statement that needs a locked row       *)
(*    waits: its guard is false until the holder ends.                     *)
(*  - An identifier is fresh when no row and no request mentions it.       *)
(*    PostgreSQL never reissues one, but nobody could tell: a client may   *)
(*    present any identifier anyway.                                       *)
(*                                                                         *)
(* A value the client sent is chosen at the statement that first reads it. *)
(***************************************************************************)
EXTENDS Schema

CONSTANTS Req,      \* the requests the server handles at a time
          Enabled   \* the operations clients ask for

\* Operations on one collection, with its id in the path.
CltOp == {"GetCollection", "UpdateCollection", "DeleteCollection",
          "ListColors", "AddColor", "DeleteColor", "DeleteAllColors"}

\* Operations behind the authenticate wrapper.
AuthedOp == CltOp \cup {"Logout", "GetMe", "DeleteMe", "Export",
                        "ListCollections", "CreateCollection"}

Op == AuthedOp \cup {"SignUp", "Login"}

ASSUME EnabledAssumption == Enabled \subseteq Op

\* The steps of a request that concern one collection.
CltPc == {"commitUser", "commitClt",
          "getClt", "updateClt", "readClt", "deleteClt",
          "lockClt", "countColors", "hasColor", "insertColor", "commitColor",
          "resolveDelete", "deleteColor", "resolveDeleteAll", "deleteAllColors",
          "resolveList", "listColors"}

\* The statement a request executes next; "done" when it has none in flight.
Pc == CltPc \cup
      {"done",
       "insertUser", "insertDefault", "getMe", "deleteUser", "cascade",
       "exportUser", "exportClts",
       "insertToken", "deleteToken",
       "lockUser", "countClts", "insertClt", "listClts"}

\* HTTP statuses the handlers answer with.
Status == {200, 201, 204, 401, 404, 409, 500}

Request == [pc   : Pc,
            op   : Op \cup {None},
            user : UserID \cup {None},  \* who is calling, or the row being inserted
            clt  : CltID \cup {None},   \* from the path, or the row being inserted
            tok  : Token \cup {None},   \* the token presented, kept for logout
            nick : Nick \cup {None},
            hex  : Hex \cup {None}]    \* the colour row being inserted

NoRequest == [pc |-> "done", op |-> None, user |-> None, clt |-> None,
              tok |-> None, nick |-> None, hex |-> None]

Answer == [req : Req, status : Status]

ASSUME ReqAssumption == None \notin Req \cup Answer

VARIABLES userLock,  \* [UserID -> the request holding the row lock, or None]
          cltLock,   \* [CltID -> the request holding the row lock, or None]
          rq,        \* [Req -> the request in flight]
          answer     \* what the last step answered, and to whom, or None

locks == <<userLock, cltLock>>
vars == <<users, collections, colors, tokens, userLock, cltLock, rq, answer>>

\* The fields a request has set by the time it reaches a step.
FieldsOK(r) ==
  /\ rq[r].pc \in Pc \ {"done", "insertUser"} => rq[r].user \in UserID
  /\ rq[r].pc \in CltPc => rq[r].clt \in CltID
  /\ rq[r].pc \in {"insertUser", "insertDefault", "commitUser"} => rq[r].nick \in Nick
  /\ rq[r].pc = "deleteToken" => rq[r].tok \in Token
  /\ rq[r].pc = "commitColor" => rq[r].hex \in Hex

TypeOK == /\ TablesOK
          /\ userLock \in [UserID -> Req \cup {None}]
          /\ cltLock \in [CltID -> Req \cup {None}]
          /\ rq \in [Req -> Request]
          /\ answer \in Answer \cup {None}
          /\ \A r \in Req : FieldsOK(r)

Init == /\ EmptyTables
        /\ userLock = [u \in UserID |-> None]
        /\ cltLock = [c \in CltID |-> None]
        /\ rq = [r \in Req |-> NoRequest]
        /\ answer = None

-----------------------------------------------------------------------------
(* Identifiers the database generates. *)

FreshUser == {u \in UserID : ~UserExists(u) /\ \A r \in Req : rq[r].user # u}
\* Mutant: an id goes to a new row while a request still holds it from an old one.
FreshCltReissued == {c \in CltID : ~CltExists(c)}

FreshClt == {c \in CltID : ~CltExists(c) /\ \A r \in Req : rq[r].clt # c}
FreshToken == {t \in Token : tokens[t] = None /\ \A r \in Req : rq[r].tok # t}

At(pc) == {r \in Req : rq[r].pc = pc}

\* Bounds: a signup or a login is accepted only while the finite sets have an
\* identifier left for it and for those already waiting for theirs.
UsersLeft == Cardinality(At("insertUser")) < Cardinality(FreshUser)
TokensLeft == Cardinality(At("insertToken")) < Cardinality(FreshToken)

-----------------------------------------------------------------------------
(* How a step of a request ends. *)

\* The next statement of the same request; nothing is committed or released.
Continue(r, pc) == /\ rq' = [rq EXCEPT ![r].pc = pc]
                   /\ answer' = None
                   /\ UNCHANGED <<tables, locks>>

\* COMMIT and ROLLBACK release the locks of the transaction.
ReleaseLocks(r) ==
  /\ userLock' = [u \in UserID |-> IF userLock[u] = r THEN None ELSE userLock[u]]
  /\ cltLock' = [c \in CltID |-> IF cltLock[c] = r THEN None ELSE cltLock[c]]

\* The request ends with an answer and writes nothing: an error the service
\* returns (InTx rolls back), or the result of a read.
Reply(r, status) == /\ rq' = [rq EXCEPT ![r] = NoRequest]
                    /\ answer' = [req |-> r, status |-> status]
                    /\ ReleaseLocks(r)
                    /\ UNCHANGED tables

\* The request's write is committed.  The connection may break before the
\* acknowledgement arrives: pgx then returns an error, answered 500.
Committed(r, status) == /\ rq' = [rq EXCEPT ![r] = NoRequest]
                        /\ \E s \in {status, 500} : answer' = [req |-> r, status |-> s]
                        /\ ReleaseLocks(r)

-----------------------------------------------------------------------------
(* Failures. *)

\* Mutant: the transaction is neither committed nor rolled back.
AbortNoRollback(r) == /\ rq[r].pc # "done"
                      /\ rq' = [rq EXCEPT ![r] = NoRequest]
                      /\ answer' = [req |-> r, status |-> 500]
                      /\ UNCHANGED <<tables, locks>>

\* A statement fails, the client hangs up or a deadline passes: BeginFunc rolls
\* back and the handler answers 500.
Abort(r) == /\ rq[r].pc # "done"
            /\ Reply(r, 500)

\* The process dies and restarts.  The database rolls back every transaction.
Crash == /\ \E r \in Req : rq[r].pc # "done"
         /\ rq' = [r \in Req |-> NoRequest]
         /\ answer' = None
         /\ userLock' = [u \in UserID |-> None]
         /\ cltLock' = [c \in CltID |-> None]
         /\ UNCHANGED tables
=============================================================================
