------------------------------- MODULE UserSvc ------------------------------
(***************************************************************************)
(* Accounts: signup, reading, export and deletion (internal/usersvc, the   *)
(* user and export repositories).                                          *)
(***************************************************************************)
EXTENDS Storage

\* HandleCreateUser has a well-formed nickname and a password hash.
StartSignUp(r) ==
  /\ rq[r].pc = "done"
  /\ "SignUp" \in Enabled
  /\ UsersLeft
  /\ \E nick \in Nick :
       rq' = [rq EXCEPT ![r] = [NoRequest EXCEPT
                !.pc = "insertUser", !.op = "SignUp", !.nick = nick]]
  /\ answer' = None
  /\ UNCHANGED <<tables, locks>>

\* Mutant: the nickname is looked up, and nothing makes two signups meet.
NickContendedNever(r) == rq[r].pc = "done"

\* The unique index makes INSERT INTO users wait for a transaction that has
\* inserted, or is deleting, a row with the same nickname.
NickContended(r) ==
  \E q \in Req \ {r} :
    \/ rq[q].pc \in {"insertDefault", "commitUser"} /\ rq[q].nick = rq[r].nick
    \/ rq[q].pc = "cascade" /\ users[rq[q].user] = rq[r].nick

\* Mutant: the account is committed on its own, without InTx.
InsertUserAutocommit(r) ==
  /\ rq[r].pc = "insertUser"
  /\ ~NickContended(r)
  /\ ~NickTaken(rq[r].nick)
  /\ \E u \in FreshUser :
       /\ users' = [users EXCEPT ![u] = rq[r].nick]
       /\ rq' = [rq EXCEPT ![r].pc = "insertDefault", ![r].user = u]
  /\ answer' = None
  /\ UNCHANGED <<collections, colors, tokens, locks>>

\* First statement of the signup transaction.
InsertUser(r) ==
  /\ rq[r].pc = "insertUser"
  /\ ~NickContended(r)
  /\ \/ /\ NickTaken(rq[r].nick)
        /\ Reply(r, 409)
     \/ /\ ~NickTaken(rq[r].nick)
        /\ \E u \in FreshUser :
             rq' = [rq EXCEPT ![r].pc = "insertDefault", ![r].user = u]
        /\ answer' = None
        /\ UNCHANGED <<tables, locks>>

\* Second statement: the default collection of the row just inserted.
InsertDefault(r) ==
  /\ rq[r].pc = "insertDefault"
  /\ \E c \in FreshClt : rq' = [rq EXCEPT ![r].pc = "commitUser", ![r].clt = c]
  /\ answer' = None
  /\ UNCHANGED <<tables, locks>>

CommitUser(r) == /\ rq[r].pc = "commitUser"
                 /\ InsertUserRows(rq[r].user, rq[r].nick, rq[r].clt)
                 /\ Committed(r, 201)

GetMe(r) == /\ rq[r].pc = "getMe"
            /\ Reply(r, IF UserExists(rq[r].user) THEN 200 ELSE 404)

-----------------------------------------------------------------------------
(* DELETE FROM users is one statement, but it locks the user row and then  *)
(* the row of every collection the cascade reaches, waiting for each.      *)

DeleteUser(r) ==
  LET u == rq[r].user IN
  /\ rq[r].pc = "deleteUser"
  /\ userLock[u] = None
  /\ \/ /\ UserExists(u)
        /\ userLock' = [userLock EXCEPT ![u] = r]
        /\ rq' = [rq EXCEPT ![r].pc = "cascade"]
        /\ answer' = None
        /\ UNCHANGED <<tables, cltLock>>
     \/ /\ ~UserExists(u)
        /\ Reply(r, 404)

CascadeToCollection(r) ==
  /\ rq[r].pc = "cascade"
  /\ \E c \in Owned(rq[r].user) :
       /\ cltLock[c] = None
       /\ cltLock' = [cltLock EXCEPT ![c] = r]
  /\ answer' = None
  /\ UNCHANGED <<tables, userLock, rq>>

CommitDeleteUser(r) ==
  /\ rq[r].pc = "cascade"
  /\ \A c \in Owned(rq[r].user) : cltLock[c] = r
  /\ DeleteUserRow(rq[r].user)
  /\ Committed(r, 204)

-----------------------------------------------------------------------------
(* ExportUser: two reads, each with a snapshot of its own. *)

ExportUser(r) == /\ rq[r].pc = "exportUser"
                 /\ \/ UserExists(rq[r].user) /\ Continue(r, "exportClts")
                    \/ ~UserExists(rq[r].user) /\ Reply(r, 404)

ExportCollections(r) == /\ rq[r].pc = "exportClts"
                        /\ Reply(r, 200)

UserStep(r) == \/ InsertUser(r) \/ InsertDefault(r) \/ CommitUser(r)
               \/ GetMe(r)
               \/ DeleteUser(r) \/ CascadeToCollection(r) \/ CommitDeleteUser(r)
               \/ ExportUser(r) \/ ExportCollections(r)
=============================================================================
