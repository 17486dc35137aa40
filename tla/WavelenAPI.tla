----------------------------- MODULE WavelenAPI -----------------------------
(***************************************************************************)
(* What the API promises about stored data: every request that changes     *)
(* anything is one atomic change of the tables, allowed only when its      *)
(* conditions hold at that instant.  Services, where a request is a series *)
(* of statements interleaved with those of other requests, implements it.  *)
(***************************************************************************)
EXTENDS Schema

\* POST /users: the account and its default collection.
SignUp(u, nick, c) == /\ ~UserExists(u)
                      /\ ~NickTaken(nick)
                      /\ ~CltExists(c)
                      /\ InsertUserRows(u, nick, c)

\* DELETE /me
DeleteAccount(u) == /\ UserExists(u)
                    /\ DeleteUserRow(u)

\* POST /tokens
Login(t, u) == /\ tokens[t] = None
               /\ UserExists(u)
               /\ InsertTokenRow(t, u)

\* DELETE /tokens
Logout(t) == /\ tokens[t] # None
             /\ DeleteTokenRow(t)

Expire(t) == /\ TokenValid(t)
             /\ ExpireTokenRow(t)

\* POST /me/collections
CreateCollection(c, u, name) == /\ UserExists(u)
                                /\ ~CltExists(c)
                                /\ Cardinality(Owned(u)) < CollectionQuota
                                /\ InsertCollectionRow(c, u, name)

\* PATCH /me/collections/{id}
RenameCollection(c, name) == /\ CltExists(c)
                             /\ UpdateCollectionRow(c, name)

\* DELETE /me/collections/{id}
DeleteCollection(c) == /\ CltExists(c)
                       /\ ~IsDefault(c)
                       /\ DeleteCollectionRow(c)

\* POST /me/collections/{id}/colors
AddColor(c, hex) == /\ CltExists(c)
                    /\ hex \notin colors[c]
                    /\ Cardinality(colors[c]) < ColorQuota
                    /\ InsertColorRow(c, hex)

\* DELETE /me/collections/{id}/colors/{hex}
DeleteColor(c, hex) == /\ hex \in colors[c]
                       /\ DeleteColorRow(c, hex)

\* DELETE /me/collections/{id}/colors
DeleteAllColors(c) == DeleteColorRows(c)

-----------------------------------------------------------------------------

UserNext == \E u \in UserID :
              \/ DeleteAccount(u)
              \/ \E nick \in Nick, c \in CltID : SignUp(u, nick, c)

TokenNext == \E t \in Token :
               \/ Logout(t)
               \/ Expire(t)
               \/ \E u \in UserID : Login(t, u)

CollectionNext == \E c \in CltID :
                    \/ DeleteCollection(c)
                    \/ \E name \in Name : RenameCollection(c, name)
                    \/ \E u \in UserID, name \in Name : CreateCollection(c, u, name)

ColorNext == \E c \in CltID :
               \/ DeleteAllColors(c)
               \/ \E hex \in Hex : AddColor(c, hex) \/ DeleteColor(c, hex)

Next == UserNext \/ TokenNext \/ CollectionNext \/ ColorNext

Spec == EmptyTables /\ [][Next]_tables
=============================================================================
