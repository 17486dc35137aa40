------------------------------- MODULE Schema -------------------------------
(***************************************************************************)
(* The five tables of the database (src/migrations/) as the committed      *)
(* state every component reads and writes, and one operator per committed  *)
(* change of them.  A row that does not exist is None.  The colours of a   *)
(* collection are a set, as (collection_id, hex) is their primary key.     *)
(*                                                                         *)
(* Left out because nothing below tells them apart: password hashes, the   *)
(* icon and accent of a collection (written by the same statements as its  *)
(* name), created_at and color_key.                                        *)
(***************************************************************************)
EXTENDS Integers, FiniteSets

CONSTANTS UserID,           \* users.id
          CltID,            \* collections.id
          Token,            \* tokens.hash
          Nick,             \* normalised nicknames, compared as citext
          Name,             \* display names of collections
          Hex,              \* colours
          MainName,         \* usersvc.DefCollectionName
          ColorQuota,       \* USER_COLOR_QUOTA: colours in one collection
          CollectionQuota,  \* USER_COLLECTION_QUOTA: collections of one user
          None              \* no row, no value

Collection == [owner : UserID, name : Name, isDefault : BOOLEAN]

TokenRow == [user : UserID, expired : BOOLEAN]

\* cmd/api refuses to start with a quota that is not positive.
ASSUME QuotaAssumption == /\ ColorQuota \in Nat \ {0}
                          /\ CollectionQuota \in Nat \ {0}

ASSUME DataAssumption == /\ IsFiniteSet(CltID)
                         /\ IsFiniteSet(Hex)
                         /\ MainName \in Name

ASSUME NoneAssumption ==
         None \notin UserID \cup CltID \cup Token \cup Nick \cup Name \cup Collection \cup TokenRow

VARIABLES users,        \* [UserID -> the nickname, or None]
          collections,  \* [CltID -> the row, or None]
          colors,       \* [CltID -> the set of saved colours]
          tokens        \* [Token -> the row, or None]

tables == <<users, collections, colors, tokens>>

TablesOK == /\ users \in [UserID -> Nick \cup {None}]
            /\ collections \in [CltID -> Collection \cup {None}]
            /\ colors \in [CltID -> SUBSET Hex]
            /\ tokens \in [Token -> TokenRow \cup {None}]

EmptyTables == /\ users = [u \in UserID |-> None]
               /\ collections = [c \in CltID |-> None]
               /\ colors = [c \in CltID |-> {}]
               /\ tokens = [t \in Token |-> None]

-----------------------------------------------------------------------------
(* What the WHERE clauses ask. *)

UserExists(u) == users[u] # None

NickTaken(nick) == \E u \in UserID : users[u] = nick

CltExists(c) == collections[c] # None

\* WHERE id = c AND user_id = u
Owns(u, c) == CltExists(c) /\ collections[c].owner = u

Owned(u) == {c \in CltID : Owns(u, c)}

IsDefault(c) == CltExists(c) /\ collections[c].isDefault

\* WHERE hash = t AND expiry > now()
TokenValid(t) == tokens[t] # None /\ ~tokens[t].expired

-----------------------------------------------------------------------------
(* What a commit changes.  Each operator fixes the next value of all four  *)
(* tables.                                                                 *)

\* The two INSERTs of a signup, committed together.
InsertUserRows(u, nick, c) ==
  /\ users' = [users EXCEPT ![u] = nick]
  /\ collections' = [collections EXCEPT
                       ![c] = [owner |-> u, name |-> MainName, isDefault |-> TRUE]]
  /\ UNCHANGED <<colors, tokens>>

\* Mutant: tokens.user_id without ON DELETE CASCADE or a foreign key.
DeleteUserRowKeepTokens(u) ==
  /\ users' = [users EXCEPT ![u] = None]
  /\ collections' = [c \in CltID |-> IF Owns(u, c) THEN None ELSE collections[c]]
  /\ colors' = [c \in CltID |-> IF Owns(u, c) THEN {} ELSE colors[c]]
  /\ UNCHANGED tokens

\* ON DELETE CASCADE takes the user's tokens and collections, and the
\* collections take their colours.
DeleteUserRow(u) ==
  /\ users' = [users EXCEPT ![u] = None]
  /\ collections' = [c \in CltID |-> IF Owns(u, c) THEN None ELSE collections[c]]
  /\ colors' = [c \in CltID |-> IF Owns(u, c) THEN {} ELSE colors[c]]
  /\ tokens' = [t \in Token |->
                  IF tokens[t] # None /\ tokens[t].user = u THEN None ELSE tokens[t]]

InsertTokenRow(t, u) ==
  /\ tokens' = [tokens EXCEPT ![t] = [user |-> u, expired |-> FALSE]]
  /\ UNCHANGED <<users, collections, colors>>

\* Zero rows deleted is no error.
DeleteTokenRow(t) ==
  /\ tokens' = [tokens EXCEPT ![t] = None]
  /\ UNCHANGED <<users, collections, colors>>

\* now() passes the expiry of the row.  No code deletes an expired row.
ExpireTokenRow(t) ==
  /\ tokens' = [tokens EXCEPT ![t].expired = TRUE]
  /\ UNCHANGED <<users, collections, colors>>

InsertCollectionRow(c, u, name) ==
  /\ collections' = [collections EXCEPT
                       ![c] = [owner |-> u, name |-> name, isDefault |-> FALSE]]
  /\ UNCHANGED <<users, colors, tokens>>

\* COALESCE: an absent name (None) keeps the stored one.
UpdateCollectionRow(c, name) ==
  /\ collections' = [collections EXCEPT ![c].name = IF name = None THEN @ ELSE name]
  /\ UNCHANGED <<users, colors, tokens>>

DeleteCollectionRow(c) ==
  /\ collections' = [collections EXCEPT ![c] = None]
  /\ colors' = [colors EXCEPT ![c] = {}]
  /\ UNCHANGED <<users, tokens>>

InsertColorRow(c, hex) ==
  /\ colors' = [colors EXCEPT ![c] = @ \cup {hex}]
  /\ UNCHANGED <<users, collections, tokens>>

DeleteColorRow(c, hex) ==
  /\ colors' = [colors EXCEPT ![c] = @ \ {hex}]
  /\ UNCHANGED <<users, collections, tokens>>

DeleteColorRows(c) ==
  /\ colors' = [colors EXCEPT ![c] = {}]
  /\ UNCHANGED <<users, collections, tokens>>

-----------------------------------------------------------------------------
(* What the tables promise between any two commits. *)

\* A token, a collection and a colour always hang off a row that exists
\* (the foreign keys of migrations 000002, 000003 and 000005): UserIDForTokenHash
\* and ListColors rely on it instead of joining.
ReferentialIntegrity ==
  /\ \A t \in Token : tokens[t] # None => UserExists(tokens[t].user)
  /\ \A c \in CltID : CltExists(c) => UserExists(collections[c].owner)
  /\ \A c \in CltID : colors[c] # {} => CltExists(c)

\* Two accounts never share a nickname (UNIQUE of migration 000001).
NicknamesUnique ==
  \A u, v \in UserID : UserExists(u) /\ users[u] = users[v] => u = v

\* Every account has exactly one default collection: CreateUser writes it with
\* the account and nothing else creates, deletes or changes a default one.
OneDefaultCollection ==
  \A u \in UserID : UserExists(u) =>
     \E c \in Owned(u) : /\ IsDefault(c)
                         /\ \A d \in Owned(u) : IsDefault(d) => d = c

\* No account holds more collections than its quota, the default one included
\* (collectionsvc.CreateCollection).
CollectionsWithinQuota ==
  \A u \in UserID : Cardinality(Owned(u)) <= CollectionQuota

\* No collection holds more colours than its quota (colorsvc.AddColor).
ColorsWithinQuota ==
  \A c \in CltID : Cardinality(colors[c]) <= ColorQuota
=============================================================================
