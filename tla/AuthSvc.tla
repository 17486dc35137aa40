------------------------------- MODULE AuthSvc ------------------------------
(***************************************************************************)
(* Who is calling: the authenticate wrapper of internal/server/auth.go,    *)
(* and login and logout (internal/authsvc).                                *)
(***************************************************************************)
EXTENDS Storage

\* newMux: the first statement of each authenticated operation.
Route == [Logout           |-> "deleteToken",
          GetMe            |-> "getMe",
          DeleteMe         |-> "deleteUser",
          Export           |-> "exportUser",
          ListCollections  |-> "listClts",
          CreateCollection |-> "lockUser",
          GetCollection    |-> "getClt",
          UpdateCollection |-> "updateClt",
          DeleteCollection |-> "readClt",
          ListColors       |-> "resolveList",
          AddColor         |-> "lockClt",
          DeleteColor      |-> "resolveDelete",
          DeleteAllColors  |-> "resolveDeleteAll"]

\* The token names the user once, before the handler runs, in a statement of
\* its own: whatever happens to the token or the user later goes unnoticed.
Authenticate(r, op) ==
  /\ rq[r].pc = "done"
  /\ op \in AuthedOp \cap Enabled
  /\ \E t \in {x \in Token : TokenValid(x)} :
     \E c \in (IF op \in CltOp THEN CltID ELSE {None}) :
       rq' = [rq EXCEPT ![r] = [NoRequest EXCEPT
                !.pc = Route[op], !.op = op, !.user = tokens[t].user, !.clt = c,
                !.tok = IF op = "Logout" THEN t ELSE None]]
  /\ answer' = None
  /\ UNCHANGED <<tables, locks>>

\* No bearer token, an unknown one or an expired one.
Unauthorized(r) == /\ rq[r].pc = "done"
                   /\ \E t \in Token : ~TokenValid(t)
                   /\ Reply(r, 401)

\* Login reads the account and compares the password, outside a transaction.
FindUser(r) == /\ rq[r].pc = "done"
               /\ "Login" \in Enabled
               /\ TokensLeft
               /\ \E u \in UserID :
                    /\ UserExists(u)
                    /\ rq' = [rq EXCEPT ![r] = [NoRequest EXCEPT
                                !.pc = "insertToken", !.op = "Login", !.user = u]]
               /\ answer' = None
               /\ UNCHANGED <<tables, locks>>

\* A nickname that is malformed or unknown, or a wrong password.
RefuseLogin(r) == /\ rq[r].pc = "done"
                  /\ "Login" \in Enabled
                  /\ Reply(r, 401)

\* Mutant: tokens.user_id is no foreign key.
InsertTokenNoCheck(r) ==
  /\ rq[r].pc = "insertToken"
  /\ \E t \in FreshToken : InsertTokenRow(t, rq[r].user)
  /\ Committed(r, 201)

\* INSERT INTO tokens takes a key-share lock on the user row, so it waits for
\* whoever locked the row, and fails on the foreign key when the row is gone.
InsertToken(r) ==
  LET u == rq[r].user IN
  /\ rq[r].pc = "insertToken"
  /\ userLock[u] = None
  /\ \/ /\ UserExists(u)
        /\ \E t \in FreshToken : InsertTokenRow(t, u)
        /\ Committed(r, 201)
     \/ /\ ~UserExists(u)
        /\ Reply(r, 404)

\* Logout: zero rows deleted is a success too.
DeleteToken(r) == /\ rq[r].pc = "deleteToken"
                  /\ DeleteTokenRow(rq[r].tok)
                  /\ Committed(r, 204)

\* Time passes the expiry of a token.
ExpireToken(t) == /\ TokenValid(t)
                  /\ ExpireTokenRow(t)
                  /\ answer' = None
                  /\ UNCHANGED <<locks, rq>>

AuthStep(r) == InsertToken(r) \/ DeleteToken(r)
=============================================================================
