--------------------------- MODULE ServicesProofs ---------------------------
(***************************************************************************)
(* Proofs about Services, for every value of the constants, in three       *)
(* parts: the types, and what each committed change of the tables          *)
(* preserves under the conditions of the transaction that makes it; the    *)
(* inductive invariant; and the refinement of WavelenAPI.                  *)
(***************************************************************************)
EXTENDS Services, FiniteSetTheorems, TLAPS

-----------------------------------------------------------------------------
(* Writes of the tables. *)

\* Table writes keep the tables typed.
LEMMA TableTypes ==
  ASSUME TablesOK
  PROVE  /\ \A u \in UserID, nick \in Nick, c \in CltID :
              InsertUserRows(u, nick, c) => TablesOK'
         /\ \A u \in UserID : DeleteUserRow(u) => TablesOK'
         /\ \A t \in Token, u \in UserID : InsertTokenRow(t, u) => TablesOK'
         /\ \A t \in Token : DeleteTokenRow(t) => TablesOK'
         /\ \A t \in Token : TokenValid(t) /\ ExpireTokenRow(t) => TablesOK'
         /\ \A c \in CltID, u \in UserID, name \in Name :
              InsertCollectionRow(c, u, name) => TablesOK'
         /\ \A c \in CltID, name \in Name \cup {None} :
              CltExists(c) /\ UpdateCollectionRow(c, name) => TablesOK'
         /\ \A c \in CltID : DeleteCollectionRow(c) => TablesOK'
         /\ \A c \in CltID, hex \in Hex : InsertColorRow(c, hex) => TablesOK'
         /\ \A c \in CltID, hex \in Hex : DeleteColorRow(c, hex) => TablesOK'
         /\ \A c \in CltID : DeleteColorRows(c) => TablesOK'
  <1>1. ASSUME NEW u \in UserID, NEW nick \in Nick, NEW c \in CltID,
               InsertUserRows(u, nick, c)
        PROVE  TablesOK'
    BY <1>1, DataAssumption DEF TablesOK, InsertUserRows, Collection
  <1>2. ASSUME NEW u \in UserID, DeleteUserRow(u) PROVE TablesOK'
    BY <1>2 DEF TablesOK, DeleteUserRow
  <1>3. ASSUME NEW t \in Token, NEW u \in UserID, InsertTokenRow(t, u) PROVE TablesOK'
    BY <1>3 DEF TablesOK, InsertTokenRow, TokenRow
  <1>4. ASSUME NEW t \in Token, DeleteTokenRow(t) PROVE TablesOK'
    BY <1>4 DEF TablesOK, DeleteTokenRow
  <1>5. ASSUME NEW t \in Token, TokenValid(t), ExpireTokenRow(t) PROVE TablesOK'
    BY <1>5 DEF TablesOK, ExpireTokenRow, TokenValid, TokenRow
  <1>6. ASSUME NEW c \in CltID, NEW u \in UserID, NEW name \in Name,
               InsertCollectionRow(c, u, name)
        PROVE  TablesOK'
    BY <1>6 DEF TablesOK, InsertCollectionRow, Collection
  <1>7. ASSUME NEW c \in CltID, NEW name \in Name \cup {None}, CltExists(c),
               UpdateCollectionRow(c, name)
        PROVE  TablesOK'
    <2>1. collections[c] \in Collection
      BY <1>7 DEF TablesOK, CltExists
    <2>2. [collections[c] EXCEPT !.name = IF name = None THEN @ ELSE name] \in Collection
      BY <2>1 DEF Collection
    <2> QED BY <1>7, <2>2 DEF TablesOK, UpdateCollectionRow
  <1>8. ASSUME NEW c \in CltID, DeleteCollectionRow(c) PROVE TablesOK'
    BY <1>8 DEF TablesOK, DeleteCollectionRow
  <1>9. ASSUME NEW c \in CltID, NEW hex \in Hex, InsertColorRow(c, hex) PROVE TablesOK'
    BY <1>9 DEF TablesOK, InsertColorRow
  <1>10. ASSUME NEW c \in CltID, NEW hex \in Hex, DeleteColorRow(c, hex) PROVE TablesOK'
    BY <1>10 DEF TablesOK, DeleteColorRow
  <1>11. ASSUME NEW c \in CltID, DeleteColorRows(c) PROVE TablesOK'
    BY <1>11 DEF TablesOK, DeleteColorRows
  <1> QED BY <1>1, <1>2, <1>3, <1>4, <1>5, <1>6, <1>7, <1>8, <1>9, <1>10, <1>11

-----------------------------------------------------------------------------
(* The invariant of the tables. *)

TablesInv == /\ TablesOK
             /\ ReferentialIntegrity
             /\ NicknamesUnique
             /\ OneDefaultCollection
             /\ CollectionsWithinQuota
             /\ ColorsWithinQuota

LEMMA EmptyTablesInv == EmptyTables => TablesInv
  <1> SUFFICES ASSUME EmptyTables PROVE TablesInv
    OBVIOUS
  <1>1. \A u \in UserID : Owned(u) = {}
    BY DEF EmptyTables, Owned, Owns, CltExists
  <1>2. CollectionsWithinQuota /\ ColorsWithinQuota
    BY <1>1, FS_EmptySet, QuotaAssumption
    DEF EmptyTables, CollectionsWithinQuota, ColorsWithinQuota
  <1> QED BY <1>2 DEF EmptyTables, TablesInv, TablesOK, ReferentialIntegrity, NicknamesUnique,
                     OneDefaultCollection, UserExists, CltExists

LEMMA OwnedFinite == \A u \in UserID : IsFiniteSet(Owned(u)) /\ Cardinality(Owned(u)) \in Nat
  BY FS_Subset, FS_CardinalityType, DataAssumption DEF Owned

LEMMA ColorsFinite ==
  ASSUME TablesOK
  PROVE  \A c \in CltID : IsFiniteSet(colors[c]) /\ Cardinality(colors[c]) \in Nat
  BY FS_Subset, FS_CardinalityType, DataAssumption DEF TablesOK

\* A user row that does not exist owns nothing.
LEMMA OwnsNothing ==
  ASSUME ReferentialIntegrity, NEW u \in UserID, ~UserExists(u)
  PROVE  Owned(u) = {}
  BY DEF ReferentialIntegrity, Owned, Owns

LEMMA InsertUserInv ==
  ASSUME TablesInv, NEW u \in UserID, NEW nick \in Nick, NEW c \in CltID,
         ~UserExists(u), ~NickTaken(nick), ~CltExists(c), InsertUserRows(u, nick, c)
  PROVE  TablesInv'
  <1>1. TablesOK'
    BY TableTypes DEF TablesInv
  <1>2. /\ users' = [users EXCEPT ![u] = nick]
        /\ collections' = [collections EXCEPT
                             ![c] = [owner |-> u, name |-> MainName, isDefault |-> TRUE]]
        /\ colors' = colors
        /\ tokens' = tokens
        /\ users \in [UserID -> Nick \cup {None}]
        /\ collections \in [CltID -> Collection \cup {None}]
    BY DEF InsertUserRows, TablesInv, TablesOK
  <1>a. nick # None /\ [owner |-> u, name |-> MainName, isDefault |-> TRUE] # None
    <2>1. [owner |-> u, name |-> MainName, isDefault |-> TRUE] \in Collection
      BY DataAssumption DEF Collection
    <2> QED BY <2>1, NoneAssumption
  <1>3. ReferentialIntegrity'
    BY <1>2, <1>a DEF TablesInv, TablesOK, ReferentialIntegrity, UserExists, CltExists
  <1>4. NicknamesUnique'
    BY <1>2, <1>a DEF TablesInv, NicknamesUnique, UserExists, NickTaken
  <1>5. Owned(u)' = {c} /\ IsDefault(c)'
    <2>1. Owned(u) = {}
      BY OwnsNothing DEF TablesInv
    <2> QED BY <1>2, <1>a, <2>1 DEF Owned, Owns, CltExists, IsDefault
  <1>6. ASSUME NEW v \in UserID, v # u
        PROVE  /\ Owned(v)' = Owned(v)
               /\ UserExists(v)' = UserExists(v)
               /\ \A d \in Owned(v) : IsDefault(d)' = IsDefault(d)
    BY <1>2, <1>6 DEF Owned, Owns, CltExists, IsDefault, UserExists
  <1>7. OneDefaultCollection'
    <2> SUFFICES ASSUME NEW v \in UserID, UserExists(v)'
                 PROVE  (\E d \in Owned(v) : /\ IsDefault(d)
                                             /\ \A e \in Owned(v) : IsDefault(e) => e = d)'
      BY DEF OneDefaultCollection
    <2>1. CASE v = u
      BY <1>5, <2>1
    <2>2. CASE v # u
      BY <1>6, <2>2 DEF TablesInv, OneDefaultCollection
    <2> QED BY <2>1, <2>2
  <1>8. CollectionsWithinQuota'
    <2> SUFFICES ASSUME NEW v \in UserID PROVE (Cardinality(Owned(v)) <= CollectionQuota)'
      BY DEF CollectionsWithinQuota
    <2>1. CASE v = u
      BY <1>5, <2>1, FS_Singleton, QuotaAssumption
    <2>2. CASE v # u
      BY <1>6, <2>2 DEF TablesInv, CollectionsWithinQuota
    <2> QED BY <2>1, <2>2
  <1>9. ColorsWithinQuota'
    BY <1>2 DEF TablesInv, ColorsWithinQuota
  <1> QED BY <1>1, <1>3, <1>4, <1>7, <1>8, <1>9 DEF TablesInv

LEMMA DeleteUserInv ==
  ASSUME TablesInv, NEW u \in UserID, DeleteUserRow(u)
  PROVE  TablesInv'
  <1>1. TablesOK'
    BY TableTypes DEF TablesInv
  <1>2. /\ users' = [users EXCEPT ![u] = None]
        /\ collections' = [c \in CltID |-> IF Owns(u, c) THEN None ELSE collections[c]]
        /\ colors' = [c \in CltID |-> IF Owns(u, c) THEN {} ELSE colors[c]]
        /\ tokens' = [t \in Token |->
                  IF tokens[t] # None /\ tokens[t].user = u THEN None ELSE tokens[t]]
        /\ users \in [UserID -> Nick \cup {None}]
    BY DEF DeleteUserRow, TablesInv, TablesOK
  <1>3. ~UserExists(u)' /\ \A v \in UserID \ {u} : users'[v] = users[v]
    BY <1>2 DEF UserExists
  <1>4. ReferentialIntegrity'
    <2>1. \A t \in Token : tokens'[t] # None => tokens'[t] = tokens[t] /\ tokens[t].user # u
      BY <1>2
    <2>2. \A c \in CltID : CltExists(c)' =>
            CltExists(c) /\ collections'[c] = collections[c] /\ collections[c].owner # u
      BY <1>2 DEF CltExists, Owns
    <2>3. \A t \in Token : tokens[t] # None => tokens[t].user \in UserID
      BY DEF TablesInv, TablesOK, TokenRow
    <2>4. \A c \in CltID : CltExists(c) => collections[c].owner \in UserID
      BY DEF TablesInv, TablesOK, Collection, CltExists
    <2>5. \A c \in CltID : colors'[c] # {} => CltExists(c)'
      BY <1>2 DEF TablesInv, ReferentialIntegrity, CltExists
    <2>6. \A t \in Token : tokens'[t] # None => users'[tokens'[t].user] # None
      BY <1>3, <2>1, <2>3 DEF TablesInv, ReferentialIntegrity, UserExists
    <2>7. \A c \in CltID : CltExists(c)' => users'[collections'[c].owner] # None
      BY <1>3, <2>2, <2>4 DEF TablesInv, ReferentialIntegrity, UserExists
    <2> QED BY <2>5, <2>6, <2>7 DEF ReferentialIntegrity, UserExists
  <1>5. NicknamesUnique'
    BY <1>3 DEF TablesInv, NicknamesUnique, UserExists
  <1>6. Owned(u)' = {}
    BY <1>2 DEF Owned, Owns, CltExists
  <1>7. ASSUME NEW v \in UserID, v # u
        PROVE  /\ Owned(v)' = Owned(v)
               /\ \A d \in Owned(v) : IsDefault(d)' = IsDefault(d)
    BY <1>2, <1>7 DEF Owned, Owns, CltExists, IsDefault
  <1>8. OneDefaultCollection'
    BY <1>3, <1>7 DEF TablesInv, OneDefaultCollection, UserExists
  <1>9. CollectionsWithinQuota'
    <2> SUFFICES ASSUME NEW v \in UserID PROVE (Cardinality(Owned(v)) <= CollectionQuota)'
      BY DEF CollectionsWithinQuota
    <2>1. CASE v = u
      BY <1>6, <2>1, FS_EmptySet, QuotaAssumption
    <2>2. CASE v # u
      BY <1>7, <2>2 DEF TablesInv, CollectionsWithinQuota
    <2> QED BY <2>1, <2>2
  <1>10. ColorsWithinQuota'
    BY <1>2, FS_EmptySet, QuotaAssumption DEF TablesInv, ColorsWithinQuota
  <1> QED BY <1>1, <1>4, <1>5, <1>8, <1>9, <1>10 DEF TablesInv

\* The invariants that tokens and colours have no part in.
LEMMA AccountsKept ==
  ASSUME TablesInv, UNCHANGED <<users, collections>>
  PROVE  NicknamesUnique' /\ OneDefaultCollection' /\ CollectionsWithinQuota'
  <1>1. \A u \in UserID : Owned(u)' = Owned(u) /\ UserExists(u)' = UserExists(u)
    BY DEF Owned, Owns, CltExists, UserExists
  <1>2. \A c \in CltID : IsDefault(c)' = IsDefault(c)
    BY DEF IsDefault, CltExists
  <1>3. NicknamesUnique' /\ CollectionsWithinQuota'
    BY <1>1 DEF TablesInv, NicknamesUnique, CollectionsWithinQuota
  <1>4. OneDefaultCollection'
    BY <1>1, <1>2 DEF TablesInv, OneDefaultCollection, Owned
  <1> QED BY <1>3, <1>4

LEMMA TokenRowsInv ==
  ASSUME TablesInv, NEW t \in Token
  PROVE  /\ \A u \in UserID : UserExists(u) /\ InsertTokenRow(t, u) => TablesInv'
         /\ DeleteTokenRow(t) => TablesInv'
         /\ TokenValid(t) /\ ExpireTokenRow(t) => TablesInv'
  <1>1. ASSUME UNCHANGED <<users, collections, colors>>, TablesOK',
               \A x \in Token : tokens'[x] # None => UserExists(tokens'[x].user)
        PROVE  TablesInv'
    <2>1. ReferentialIntegrity' /\ ColorsWithinQuota'
      BY <1>1 DEF TablesInv, ReferentialIntegrity, ColorsWithinQuota, UserExists, CltExists
    <2> QED BY <1>1, <2>1, AccountsKept DEF TablesInv
  <1>2. ASSUME NEW u \in UserID, UserExists(u), InsertTokenRow(t, u) PROVE TablesInv'
    <2>1. TablesOK'
      BY <1>2, TableTypes DEF TablesInv
    <2>2. \A x \in Token : tokens'[x] # None => UserExists(tokens'[x].user)
      BY <1>2 DEF InsertTokenRow, TablesInv, TablesOK, ReferentialIntegrity
    <2> QED BY <1>1, <1>2, <2>1, <2>2 DEF InsertTokenRow
  <1>3. ASSUME DeleteTokenRow(t) PROVE TablesInv'
    <2>1. TablesOK'
      BY <1>3, TableTypes DEF TablesInv
    <2>2. \A x \in Token : tokens'[x] # None => UserExists(tokens'[x].user)
      BY <1>3 DEF DeleteTokenRow, TablesInv, TablesOK, ReferentialIntegrity
    <2> QED BY <1>1, <1>3, <2>1, <2>2 DEF DeleteTokenRow
  <1>4. ASSUME TokenValid(t), ExpireTokenRow(t) PROVE TablesInv'
    <2>1. TablesOK'
      BY <1>4, TableTypes DEF TablesInv
    <2>2. \A x \in Token : tokens'[x] # None =>
            tokens[x] # None /\ tokens'[x].user = tokens[x].user
      BY <1>4 DEF ExpireTokenRow, TokenValid, TablesInv, TablesOK, TokenRow
    <2>3. \A x \in Token : tokens'[x] # None => UserExists(tokens'[x].user)
      BY <2>2 DEF TablesInv, ReferentialIntegrity
    <2> QED BY <1>1, <1>4, <2>1, <2>3 DEF ExpireTokenRow
  <1> QED BY <1>2, <1>3, <1>4

\* Changes of one collection row: what is left to show.
LEMMA CollectionRowInv ==
  ASSUME TablesInv, TablesOK', UNCHANGED <<users, tokens>>,
         ReferentialIntegrity', OneDefaultCollection',
         CollectionsWithinQuota', ColorsWithinQuota'
  PROVE  TablesInv'
  BY DEF TablesInv, NicknamesUnique, UserExists

LEMMA InsertCollectionInv ==
  ASSUME TablesInv, NEW c \in CltID, NEW u \in UserID, NEW name \in Name,
         UserExists(u), ~CltExists(c), Cardinality(Owned(u)) < CollectionQuota,
         InsertCollectionRow(c, u, name)
  PROVE  TablesInv'
  <1>1. TablesOK'
    BY TableTypes DEF TablesInv
  <1> DEFINE row == [owner |-> u, name |-> name, isDefault |-> FALSE]
  <1>2. /\ users' = users
        /\ collections' = [collections EXCEPT ![c] = row]
        /\ colors' = colors
        /\ tokens' = tokens
        /\ collections \in [CltID -> Collection \cup {None}]
    BY DEF InsertCollectionRow, TablesInv, TablesOK
  <1>3. row # None /\ row.owner = u /\ row.isDefault = FALSE
    <2>1. row \in Collection
      BY DEF Collection
    <2> QED BY <2>1, NoneAssumption
  <1> HIDE DEF row
  <1>4. /\ collections'[c] = row
        /\ \A d \in CltID \ {c} : collections'[d] = collections[d]
    BY <1>2
  <1>5. ReferentialIntegrity'
    BY <1>2, <1>3, <1>4 DEF TablesInv, ReferentialIntegrity, UserExists, CltExists
  <1>6. Owned(u)' = Owned(u) \cup {c} /\ c \notin Owned(u)
    BY <1>3, <1>4 DEF Owned, Owns, CltExists
  <1>7. \A v \in UserID \ {u} : Owned(v)' = Owned(v)
    BY <1>3, <1>4 DEF Owned, Owns, CltExists
  <1>8. \A d \in CltID : IsDefault(d)' = IsDefault(d)
    BY <1>3, <1>4 DEF IsDefault, CltExists
  <1>9. ~IsDefault(c)
    BY DEF IsDefault
  <1>10. \A v \in UserID : /\ Owned(v) \subseteq Owned(v)'
                           /\ \A d \in Owned(v)' : d # c => d \in Owned(v)
    BY <1>6, <1>7
  <1>11. OneDefaultCollection'
    <2> SUFFICES ASSUME NEW v \in UserID, UserExists(v)
                 PROVE  \E d \in Owned(v)' :
                           IsDefault(d)' /\ \A e \in Owned(v)' : IsDefault(e)' => e = d
      BY <1>2 DEF OneDefaultCollection, UserExists
    <2> PICK d \in Owned(v) : IsDefault(d) /\ \A e \in Owned(v) : IsDefault(e) => e = d
      BY DEF TablesInv, OneDefaultCollection
    <2>1. \A e \in Owned(v)' : e \in CltID
      BY DEF Owned
    <2> QED BY <1>8, <1>9, <1>10, <2>1
  <1>12. CollectionsWithinQuota'
    <2>1. Cardinality(Owned(u) \cup {c}) = Cardinality(Owned(u)) + 1
      BY <1>6, OwnedFinite, FS_AddElement
    <2>2. Cardinality(Owned(u) \cup {c}) <= CollectionQuota
      BY <2>1, OwnedFinite, QuotaAssumption
    <2>3. \A v \in UserID : Cardinality(Owned(v)') <= CollectionQuota
      BY <1>6, <1>7, <2>2 DEF TablesInv, CollectionsWithinQuota
    <2> QED BY <2>3 DEF CollectionsWithinQuota
  <1>13. ColorsWithinQuota'
    BY <1>2 DEF TablesInv, ColorsWithinQuota
  <1> QED BY <1>1, <1>2, <1>5, <1>11, <1>12, <1>13, CollectionRowInv

LEMMA UpdateCollectionInv ==
  ASSUME TablesInv, NEW c \in CltID, NEW name \in Name \cup {None}, CltExists(c),
         UpdateCollectionRow(c, name)
  PROVE  TablesInv'
  <1>1. TablesOK'
    BY TableTypes DEF TablesInv
  <1>2. /\ users' = users
        /\ colors' = colors
        /\ tokens' = tokens
        /\ \A d \in CltID \ {c} : collections'[d] = collections[d]
        /\ collections'[c].owner = collections[c].owner
        /\ collections'[c].isDefault = collections[c].isDefault
        /\ collections'[c] # None
    <2> DEFINE row == [collections[c] EXCEPT !.name = IF name = None THEN @ ELSE name]
    <2>1. collections[c] \in Collection
      BY DEF TablesInv, TablesOK, CltExists
    <2>2. row \in Collection /\ row.owner = collections[c].owner
                             /\ row.isDefault = collections[c].isDefault
      BY <2>1 DEF Collection
    <2>3. row # None
      BY <2>2, NoneAssumption
    <2>4. collections' = [collections EXCEPT ![c] = row]
      BY DEF UpdateCollectionRow
    <2>5. collections'[c] = row /\ \A d \in CltID \ {c} : collections'[d] = collections[d]
      BY <2>4 DEF TablesInv, TablesOK
    <2> QED BY <2>2, <2>3, <2>5 DEF UpdateCollectionRow
  <1>3. /\ \A d \in CltID : /\ CltExists(d)' = CltExists(d)
                            /\ IsDefault(d)' = IsDefault(d)
                            /\ collections'[d].owner = collections[d].owner
        /\ \A v \in UserID : UserExists(v)' = UserExists(v)
    BY <1>2 DEF CltExists, IsDefault, UserExists
  <1>4. \A v \in UserID : Owned(v)' = Owned(v)
    BY <1>3 DEF Owned, Owns
  <1>5. ReferentialIntegrity'
    BY <1>2, <1>3 DEF TablesInv, ReferentialIntegrity, UserExists
  <1>6. OneDefaultCollection'
    BY <1>3, <1>4 DEF TablesInv, OneDefaultCollection, Owned
  <1>7. CollectionsWithinQuota' /\ ColorsWithinQuota'
    BY <1>2, <1>4 DEF TablesInv, CollectionsWithinQuota, ColorsWithinQuota
  <1> QED BY <1>1, <1>2, <1>5, <1>6, <1>7, CollectionRowInv

LEMMA DeleteCollectionInv ==
  ASSUME TablesInv, NEW c \in CltID, ~IsDefault(c), DeleteCollectionRow(c)
  PROVE  TablesInv'
  <1>1. TablesOK'
    BY TableTypes DEF TablesInv
  <1>2. /\ users' = users
        /\ tokens' = tokens
        /\ collections'[c] = None
        /\ colors'[c] = {}
        /\ \A d \in CltID \ {c} : collections'[d] = collections[d] /\ colors'[d] = colors[d]
    BY DEF DeleteCollectionRow, TablesInv, TablesOK
  <1>3. ReferentialIntegrity'
    BY <1>2 DEF TablesInv, ReferentialIntegrity, UserExists, CltExists
  <1>4. \A v \in UserID : Owned(v)' = Owned(v) \ {c}
    BY <1>2 DEF Owned, Owns, CltExists
  <1>5. \A d \in CltID : IsDefault(d)' = IsDefault(d)
    BY <1>2 DEF IsDefault, CltExists
  <1>6. \A v \in UserID : \A d \in Owned(v) : IsDefault(d) => d \in Owned(v) \ {c}
    OBVIOUS
  <1>7. OneDefaultCollection'
    BY <1>2, <1>4, <1>5, <1>6 DEF TablesInv, OneDefaultCollection, UserExists, Owned
  <1>8. CollectionsWithinQuota'
    <2> SUFFICES ASSUME NEW v \in UserID PROVE Cardinality(Owned(v)') <= CollectionQuota
      BY DEF CollectionsWithinQuota
    <2>1. /\ IsFiniteSet(Owned(v) \ {c})
          /\ Cardinality(Owned(v) \ {c}) <= Cardinality(Owned(v))
      BY OwnedFinite, FS_Subset
    <2>2. Cardinality(Owned(v) \ {c}) \in Nat
      BY <2>1, FS_CardinalityType
    <2> QED BY <1>4, <2>1, <2>2, OwnedFinite, QuotaAssumption
            DEF TablesInv, CollectionsWithinQuota
  <1>9. ColorsWithinQuota'
    BY <1>2, FS_EmptySet, QuotaAssumption DEF TablesInv, ColorsWithinQuota
  <1> QED BY <1>1, <1>2, <1>3, <1>7, <1>8, <1>9, CollectionRowInv

\* Changes of the colours of one collection.
LEMMA ColorRowsInv ==
  ASSUME TablesInv, NEW c \in CltID
  PROVE  /\ \A hex \in Hex : /\ CltExists(c)
                             /\ hex \notin colors[c]
                             /\ Cardinality(colors[c]) < ColorQuota
                             /\ InsertColorRow(c, hex)
                             => TablesInv'
         /\ \A hex \in Hex : DeleteColorRow(c, hex) => TablesInv'
         /\ DeleteColorRows(c) => TablesInv'
  <1>1. ASSUME NEW S, colors' = [colors EXCEPT ![c] = S],
               UNCHANGED <<users, collections, tokens>>, TablesOK',
               S # {} => CltExists(c), Cardinality(S) <= ColorQuota
        PROVE  TablesInv'
    <2>1. colors'[c] = S /\ \A d \in CltID \ {c} : colors'[d] = colors[d]
      BY <1>1 DEF TablesInv, TablesOK
    <2>2. ReferentialIntegrity'
      BY <1>1, <2>1 DEF TablesInv, ReferentialIntegrity, UserExists, CltExists
    <2>3. ColorsWithinQuota'
      BY <1>1, <2>1 DEF TablesInv, ColorsWithinQuota
    <2> QED BY <1>1, <2>2, <2>3, AccountsKept DEF TablesInv
  <1>2. ASSUME NEW hex \in Hex, CltExists(c), hex \notin colors[c],
               Cardinality(colors[c]) < ColorQuota, InsertColorRow(c, hex)
        PROVE  TablesInv'
    <2>1. Cardinality(colors[c] \cup {hex}) = Cardinality(colors[c]) + 1
      BY <1>2, ColorsFinite, FS_AddElement DEF TablesInv
    <2>2. Cardinality(colors[c] \cup {hex}) <= ColorQuota
      BY <1>2, <2>1, ColorsFinite, QuotaAssumption DEF TablesInv
    <2>3. TablesOK'
      BY <1>2, TableTypes DEF TablesInv
    <2> QED BY <1>1, <1>2, <2>2, <2>3 DEF InsertColorRow
  <1>3. ASSUME NEW hex \in Hex, DeleteColorRow(c, hex) PROVE TablesInv'
    <2>1. /\ IsFiniteSet(colors[c] \ {hex})
          /\ Cardinality(colors[c] \ {hex}) <= Cardinality(colors[c])
      BY ColorsFinite, FS_Subset DEF TablesInv
    <2>2. Cardinality(colors[c] \ {hex}) \in Nat
      BY <2>1, FS_CardinalityType
    <2>3. Cardinality(colors[c] \ {hex}) <= ColorQuota
      BY <2>1, <2>2, ColorsFinite, QuotaAssumption DEF TablesInv, ColorsWithinQuota
    <2>4. TablesOK'
      BY <1>3, TableTypes DEF TablesInv
    <2>5. colors[c] \ {hex} # {} => CltExists(c)
      BY DEF TablesInv, ReferentialIntegrity
    <2> QED BY <1>1, <1>3, <2>3, <2>4, <2>5 DEF DeleteColorRow
  <1>4. ASSUME DeleteColorRows(c) PROVE TablesInv'
    <2>1. TablesOK'
      BY <1>4, TableTypes DEF TablesInv
    <2>2. Cardinality({}) <= ColorQuota
      BY FS_EmptySet, QuotaAssumption
    <2> QED BY <1>1, <1>4, <2>1, <2>2 DEF DeleteColorRows
  <1> QED BY <1>2, <1>3, <1>4

-----------------------------------------------------------------------------
(* Type correctness. *)

\* The parts of TypeOK that a step disturbs separately.
LocksOK == /\ userLock \in [UserID -> Req \cup {None}]
           /\ cltLock \in [CltID -> Req \cup {None}]

RequestsOK == /\ rq \in [Req -> Request]
              /\ \A r \in Req : FieldsOK(r)

AnswerOK == answer \in Answer \cup {None}

LEMMA TypeParts == (TablesOK /\ LocksOK /\ RequestsOK /\ AnswerOK)' => TypeOK'
  BY DEF TypeOK, LocksOK, RequestsOK, AnswerOK

\* Ending a request.
LEMMA EndType ==
  ASSUME TypeOK, NEW r \in Req, rq' = [rq EXCEPT ![r] = NoRequest]
  PROVE  RequestsOK'
  <1>1. NoRequest \in Request
    BY DEF NoRequest, Request, Pc
  <1>2. rq' \in [Req -> Request]
    BY <1>1 DEF TypeOK
  <1>3. ASSUME NEW q \in Req PROVE FieldsOK(q)'
    BY DEF TypeOK, FieldsOK, NoRequest, CltPc
  <1> QED BY <1>2, <1>3 DEF RequestsOK

LEMMA ReleaseType ==
  ASSUME TypeOK, NEW r \in Req, ReleaseLocks(r)
  PROVE  LocksOK'
  BY DEF TypeOK, ReleaseLocks, LocksOK

LEMMA ReplyType ==
  ASSUME TypeOK, NEW r \in Req, NEW status \in Status, Reply(r, status)
  PROVE  TypeOK'
  <1>1. TablesOK'
    BY DEF TypeOK, TablesOK, Reply, tables
  <1>2. AnswerOK'
    BY DEF Reply, AnswerOK, Answer
  <1> QED BY <1>1, <1>2, EndType, ReleaseType, TypeParts DEF Reply

\* A committed write keeps the types when the tables stay typed.
LEMMA CommittedType ==
  ASSUME TypeOK, NEW r \in Req, NEW status \in Status, Committed(r, status), TablesOK'
  PROVE  TypeOK'
  <1>1. AnswerOK'
    BY DEF Committed, AnswerOK, Answer, Status
  <1> QED BY <1>1, EndType, ReleaseType, TypeParts DEF Committed

\* Replacing the request of r by one that has the fields of its next step.
LEMMA RequestType ==
  ASSUME TypeOK, NEW r \in Req, NEW x \in Request, rq' = [rq EXCEPT ![r] = x],
         x.pc \in Pc \ {"done", "insertUser"} => x.user \in UserID,
         x.pc \in CltPc => x.clt \in CltID,
         x.pc \in {"insertUser", "insertDefault", "commitUser"} => x.nick \in Nick,
         x.pc = "deleteToken" => x.tok \in Token,
         x.pc = "commitColor" => x.hex \in Hex
  PROVE  RequestsOK'
  <1>1. rq' \in [Req -> Request]
    BY DEF TypeOK
  <1>2. ASSUME NEW q \in Req PROVE FieldsOK(q)'
    <2>1. CASE q = r
      BY <2>1 DEF TypeOK, FieldsOK
    <2>2. CASE q # r
      BY <2>2 DEF TypeOK, FieldsOK
    <2> QED BY <2>1, <2>2
  <1> QED BY <1>1, <1>2 DEF RequestsOK

LEMMA ContinueType ==
  ASSUME TypeOK, NEW r \in Req, NEW pc \in Pc, Continue(r, pc),
         pc \in Pc \ {"done", "insertUser"} => rq[r].user \in UserID,
         pc \in CltPc => rq[r].clt \in CltID,
         pc \notin {"insertUser", "insertDefault", "commitUser", "deleteToken", "commitColor"}
  PROVE  TypeOK'
  <1> DEFINE x == [rq[r] EXCEPT !.pc = pc]
  <1>1. x \in Request
    BY DEF TypeOK, Request
  <1>2. rq' = [rq EXCEPT ![r] = x]
    BY DEF Continue
  <1>3. /\ x.pc = pc
        /\ x.user = rq[r].user
        /\ x.clt = rq[r].clt
    BY DEF TypeOK, Request
  <1>4. RequestsOK'
    BY <1>1, <1>2, <1>3, RequestType
  <1>5. TablesOK' /\ LocksOK' /\ AnswerOK'
    BY DEF Continue, TypeOK, TablesOK, LocksOK, AnswerOK, tables, locks
  <1> QED BY <1>4, <1>5, TypeParts

-----------------------------------------------------------------------------

LEMMA ReceiveType ==
  ASSUME TypeOK, NEW r \in Req, Receive(r)
  PROVE  TypeOK'
  <1>1. CASE StartSignUp(r)
    <2> PICK nick \in Nick : rq' = [rq EXCEPT ![r] = [NoRequest EXCEPT
                !.pc = "insertUser", !.op = "SignUp", !.nick = nick]]
      BY <1>1 DEF StartSignUp
    <2> DEFINE x == [NoRequest EXCEPT !.pc = "insertUser", !.op = "SignUp", !.nick = nick]
    <2>1. x \in Request /\ x.pc = "insertUser" /\ x.nick = nick
      BY DEF NoRequest, Request, Pc, Op
    <2>2. RequestsOK'
      BY <2>1, RequestType DEF CltPc
    <2> QED BY <1>1, <2>2, TypeParts
            DEF StartSignUp, TypeOK, TablesOK, LocksOK, AnswerOK, tables, locks
  <1>2. CASE FindUser(r)
    <2> PICK u \in UserID : rq' = [rq EXCEPT ![r] = [NoRequest EXCEPT
                !.pc = "insertToken", !.op = "Login", !.user = u]]
      BY <1>2 DEF FindUser
    <2> DEFINE x == [NoRequest EXCEPT !.pc = "insertToken", !.op = "Login", !.user = u]
    <2>1. x \in Request /\ x.pc = "insertToken" /\ x.user = u
      BY DEF NoRequest, Request, Pc, Op
    <2>2. RequestsOK'
      BY <2>1, RequestType DEF CltPc
    <2> QED BY <1>2, <2>2, TypeParts
            DEF FindUser, TypeOK, TablesOK, LocksOK, AnswerOK, tables, locks
  <1>3. CASE RefuseLogin(r)
    BY <1>3, ReplyType DEF RefuseLogin, Status
  <1>4. CASE Unauthorized(r)
    BY <1>4, ReplyType DEF Unauthorized, Status
  <1>5. ASSUME NEW op \in AuthedOp, Authenticate(r, op) PROVE TypeOK'
    <2> PICK t \in Token, c \in (IF op \in CltOp THEN CltID ELSE {None}) :
          /\ TokenValid(t)
          /\ rq' = [rq EXCEPT ![r] = [NoRequest EXCEPT
                !.pc = Route[op], !.op = op, !.user = tokens[t].user, !.clt = c,
                !.tok = IF op = "Logout" THEN t ELSE None]]
      BY <1>5 DEF Authenticate
    <2> DEFINE x == [NoRequest EXCEPT
                !.pc = Route[op], !.op = op, !.user = tokens[t].user, !.clt = c,
                !.tok = IF op = "Logout" THEN t ELSE None]
    <2>1. /\ Route[op] \in Pc
          /\ Route[op] \notin {"insertUser", "insertDefault", "commitUser", "commitColor"}
          /\ Route[op] \in CltPc => op \in CltOp
          /\ Route[op] = "deleteToken" => op = "Logout"
      BY DEF Route, AuthedOp, CltOp, Pc, CltPc
    <2>2. tokens[t].user \in UserID
      BY DEF TypeOK, TablesOK, TokenRow, TokenValid
    <2>3. x \in Request
      BY <2>1, <2>2 DEF NoRequest, Request, Op
    <2>4. /\ x.pc = Route[op]
          /\ x.user = tokens[t].user
          /\ x.clt = c
          /\ op = "Logout" => x.tok = t
      BY DEF NoRequest
    <2>5. RequestsOK'
      BY <2>1, <2>2, <2>3, <2>4, RequestType
    <2> QED BY <1>5, <2>5, TypeParts
            DEF Authenticate, TypeOK, TablesOK, LocksOK, AnswerOK, tables, locks
  <1> QED BY <1>1, <1>2, <1>3, <1>4, <1>5 DEF Receive

LEMMA AuthType ==
  ASSUME TypeOK, NEW r \in Req, AuthStep(r)
  PROVE  TypeOK'
  <1>1. CASE InsertToken(r)
    <2>1. rq[r].user \in UserID
      BY <1>1 DEF InsertToken, TypeOK, FieldsOK, Pc
    <2>2. ASSUME NEW t \in Token, InsertTokenRow(t, rq[r].user), Committed(r, 201)
          PROVE  TypeOK'
      BY <2>1, <2>2, TableTypes, CommittedType DEF TypeOK, Status
    <2> QED BY <1>1, <2>2, ReplyType DEF InsertToken, FreshToken, Status
  <1>2. CASE DeleteToken(r)
    <2>1. rq[r].tok \in Token
      BY <1>2 DEF DeleteToken, TypeOK, FieldsOK
    <2> QED BY <1>2, <2>1, TableTypes, CommittedType DEF DeleteToken, TypeOK, Status
  <1> QED BY <1>1, <1>2 DEF AuthStep

LEMMA UserType ==
  ASSUME TypeOK, NEW r \in Req, UserStep(r)
  PROVE  TypeOK'
  <1>1. CASE InsertUser(r)
    <2>1. ASSUME NEW u \in FreshUser, rq' = [rq EXCEPT ![r].pc = "insertDefault", ![r].user = u],
                 answer' = None, UNCHANGED <<tables, locks>>
          PROVE  TypeOK'
      <3> DEFINE x == [rq[r] EXCEPT !.pc = "insertDefault", !.user = u]
      <3>1. x \in Request /\ x.pc = "insertDefault" /\ x.user = u /\ x.nick = rq[r].nick
        BY DEF TypeOK, Request, Pc, FreshUser
      <3>2. rq[r].nick \in Nick
        BY <1>1 DEF InsertUser, TypeOK, FieldsOK
      <3>3. rq' = [rq EXCEPT ![r] = x]
        BY <2>1
      <3>4. RequestsOK'
        BY <3>1, <3>2, <3>3, RequestType DEF CltPc, FreshUser
      <3> QED BY <2>1, <3>4, TypeParts
              DEF TypeOK, TablesOK, LocksOK, AnswerOK, tables, locks
    <2> QED BY <1>1, <2>1, ReplyType DEF InsertUser, Status
  <1>2. CASE InsertDefault(r)
    <2> PICK c \in FreshClt : rq' = [rq EXCEPT ![r].pc = "commitUser", ![r].clt = c]
      BY <1>2 DEF InsertDefault
    <2> DEFINE x == [rq[r] EXCEPT !.pc = "commitUser", !.clt = c]
    <2>1. /\ x \in Request
          /\ x.pc = "commitUser"
          /\ x.clt = c
          /\ x.user = rq[r].user
          /\ x.nick = rq[r].nick
      BY DEF TypeOK, Request, Pc, CltPc, FreshClt
    <2>2. rq[r].nick \in Nick /\ rq[r].user \in UserID
      BY <1>2 DEF InsertDefault, TypeOK, FieldsOK, Pc
    <2>3. rq' = [rq EXCEPT ![r] = x]
      OBVIOUS
    <2>4. x.user \in UserID /\ x.clt \in CltID /\ x.nick \in Nick
      BY <2>1, <2>2 DEF FreshClt
    <2> HIDE DEF x
    <2>5. RequestsOK'
      BY <2>1, <2>3, <2>4, RequestType
    <2> QED BY <1>2, <2>5, TypeParts
            DEF InsertDefault, TypeOK, TablesOK, LocksOK, AnswerOK, tables, locks
  <1>3. CASE CommitUser(r)
    <2>1. rq[r].user \in UserID /\ rq[r].nick \in Nick /\ rq[r].clt \in CltID
      BY <1>3 DEF CommitUser, TypeOK, FieldsOK, Pc, CltPc
    <2> QED BY <1>3, <2>1, TableTypes, CommittedType DEF CommitUser, TypeOK, Status
  <1>4. CASE GetMe(r)
    BY <1>4, ReplyType DEF GetMe, Status
  <1>5. CASE DeleteUser(r)
    <2>1. rq[r].user \in UserID
      BY <1>5 DEF DeleteUser, TypeOK, FieldsOK, Pc
    <2>2. ASSUME userLock' = [userLock EXCEPT ![rq[r].user] = r],
                 rq' = [rq EXCEPT ![r].pc = "cascade"],
                 answer' = None, UNCHANGED <<tables, cltLock>>
          PROVE  TypeOK'
      <3> DEFINE x == [rq[r] EXCEPT !.pc = "cascade"]
      <3>1. x \in Request /\ x.pc = "cascade" /\ x.user = rq[r].user
        BY DEF TypeOK, Request, Pc
      <3>2. rq' = [rq EXCEPT ![r] = x]
        BY <2>2
      <3>3. RequestsOK'
        BY <2>1, <3>1, <3>2, RequestType DEF CltPc
      <3> QED BY <2>2, <3>3, TypeParts DEF TypeOK, TablesOK, LocksOK, AnswerOK, tables
    <2> QED BY <1>5, <2>2, ReplyType DEF DeleteUser, Status
  <1>6. CASE CascadeToCollection(r)
    BY <1>6, TypeParts
    DEF CascadeToCollection, TypeOK, FieldsOK, RequestsOK, TablesOK, LocksOK, AnswerOK, tables
  <1>7. CASE CommitDeleteUser(r)
    <2>1. rq[r].user \in UserID
      BY <1>7 DEF CommitDeleteUser, TypeOK, FieldsOK, Pc
    <2> QED BY <1>7, <2>1, TableTypes, CommittedType DEF CommitDeleteUser, TypeOK, Status
  <1>8. CASE ExportUser(r)
    <2>1. rq[r].user \in UserID
      BY <1>8 DEF ExportUser, TypeOK, FieldsOK, Pc
    <2>2. ASSUME Continue(r, "exportClts") PROVE TypeOK'
      BY <2>1, <2>2, ContinueType DEF Pc, CltPc
    <2> QED BY <1>8, <2>2, ReplyType DEF ExportUser, Status
  <1>9. CASE ExportCollections(r)
    BY <1>9, ReplyType DEF ExportCollections, Status
  <1> QED BY <1>1, <1>2, <1>3, <1>4, <1>5, <1>6, <1>7, <1>8, <1>9 DEF UserStep

LEMMA CollectionType ==
  ASSUME TypeOK, NEW r \in Req, CollectionStep(r)
  PROVE  TypeOK'
  <1>1. CASE LockUser(r)
    <2>1. rq[r].user \in UserID
      BY <1>1 DEF LockUser, TypeOK, FieldsOK, Pc
    <2>2. ASSUME userLock' = [userLock EXCEPT ![rq[r].user] = r],
                 rq' = [rq EXCEPT ![r].pc = "countClts"],
                 answer' = None, UNCHANGED <<tables, cltLock>>
          PROVE  TypeOK'
      <3> DEFINE x == [rq[r] EXCEPT !.pc = "countClts"]
      <3>1. x \in Request /\ x.pc = "countClts" /\ x.user = rq[r].user
        BY DEF TypeOK, Request, Pc
      <3>2. rq' = [rq EXCEPT ![r] = x]
        BY <2>2
      <3>3. RequestsOK'
        BY <2>1, <3>1, <3>2, RequestType DEF CltPc
      <3> QED BY <2>2, <3>3, TypeParts DEF TypeOK, TablesOK, LocksOK, AnswerOK, tables
    <2> QED BY <1>1, <2>2, ReplyType DEF LockUser, Status
  <1>2. CASE CountCollections(r)
    <2>1. rq[r].user \in UserID
      BY <1>2 DEF CountCollections, TypeOK, FieldsOK, Pc
    <2>2. ASSUME Continue(r, "insertClt") PROVE TypeOK'
      BY <2>1, <2>2, ContinueType DEF Pc, CltPc
    <2> QED BY <1>2, <2>2, ReplyType DEF CountCollections, Status
  <1>3. CASE InsertCollection(r)
    <2> PICK c \in FreshClt : rq' = [rq EXCEPT ![r].pc = "commitClt", ![r].clt = c]
      BY <1>3 DEF InsertCollection
    <2> DEFINE x == [rq[r] EXCEPT !.pc = "commitClt", !.clt = c]
    <2>1. /\ x \in Request
          /\ x.pc = "commitClt"
          /\ x.clt = c
          /\ x.user = rq[r].user
      BY DEF TypeOK, Request, Pc, CltPc, FreshClt
    <2>2. rq[r].user \in UserID /\ c \in CltID
      BY <1>3 DEF InsertCollection, TypeOK, FieldsOK, Pc, FreshClt
    <2>3. rq' = [rq EXCEPT ![r] = x]
      OBVIOUS
    <2>4. RequestsOK'
      BY <2>1, <2>2, <2>3, RequestType
    <2> QED BY <1>3, <2>4, TypeParts
            DEF InsertCollection, TypeOK, TablesOK, LocksOK, AnswerOK, tables, locks
  <1>4. CASE CommitCollection(r)
    <2>1. rq[r].user \in UserID /\ rq[r].clt \in CltID
      BY <1>4 DEF CommitCollection, TypeOK, FieldsOK, Pc, CltPc
    <2> QED BY <1>4, <2>1, TableTypes, CommittedType DEF CommitCollection, TypeOK, Status
  <1>5. CASE ListCollections(r)
    BY <1>5, ReplyType DEF ListCollections, Status
  <1>6. CASE GetCollection(r)
    BY <1>6, ReplyType DEF GetCollection, Status
  <1>7. CASE UpdateCollection(r)
    <2>1. rq[r].clt \in CltID
      BY <1>7 DEF UpdateCollection, TypeOK, FieldsOK, CltPc
    <2>2. ASSUME NEW name \in Name \cup {None}, CltExists(rq[r].clt),
                 UpdateCollectionRow(rq[r].clt, name), Committed(r, 200)
          PROVE  TypeOK'
      BY <2>1, <2>2, TableTypes, CommittedType DEF TypeOK, Status
    <2> QED BY <1>7, <2>2, ReplyType DEF UpdateCollection, Owns, Status
  <1>8. CASE ReadCollection(r)
    <2>1. rq[r].user \in UserID /\ rq[r].clt \in CltID
      BY <1>8 DEF ReadCollection, TypeOK, FieldsOK, Pc, CltPc
    <2>2. ASSUME Continue(r, "deleteClt") PROVE TypeOK'
      BY <2>1, <2>2, ContinueType DEF Pc, CltPc
    <2> QED BY <1>8, <2>2, ReplyType DEF ReadCollection, Status
  <1>9. CASE DeleteCollection(r)
    <2>1. rq[r].clt \in CltID
      BY <1>9 DEF DeleteCollection, TypeOK, FieldsOK, CltPc
    <2>2. ASSUME DeleteCollectionRow(rq[r].clt), Committed(r, 204) PROVE TypeOK'
      BY <2>1, <2>2, TableTypes, CommittedType DEF TypeOK, Status
    <2> QED BY <1>9, <2>2, ReplyType DEF DeleteCollection, Status
  <1> QED BY <1>1, <1>2, <1>3, <1>4, <1>5, <1>6, <1>7, <1>8, <1>9 DEF CollectionStep

LEMMA ColorType ==
  ASSUME TypeOK, NEW r \in Req, ColorStep(r)
  PROVE  TypeOK'
  <1>1. rq[r].pc \in CltPc \ {"commitUser"} => rq[r].user \in UserID /\ rq[r].clt \in CltID
    BY DEF TypeOK, FieldsOK, Pc, CltPc
  <1>2. CASE LockCollection(r)
    <2>1. ASSUME cltLock' = [cltLock EXCEPT ![rq[r].clt] = r],
                 rq' = [rq EXCEPT ![r].pc = "countColors"],
                 answer' = None, UNCHANGED <<tables, userLock>>
          PROVE  TypeOK'
      <3> DEFINE x == [rq[r] EXCEPT !.pc = "countColors"]
      <3>1. /\ x \in Request
            /\ x.pc = "countColors"
            /\ x.user = rq[r].user
            /\ x.clt = rq[r].clt
        BY DEF TypeOK, Request, Pc, CltPc
      <3>2. rq' = [rq EXCEPT ![r] = x]
        BY <2>1
      <3>3. RequestsOK'
        BY <1>1, <1>2, <3>1, <3>2, RequestType DEF CltPc, LockCollection
      <3> QED BY <2>1, <3>3, TypeParts DEF TypeOK, TablesOK, LocksOK, AnswerOK, tables
    <2> QED BY <1>2, <2>1, ReplyType DEF LockCollection, Status
  <1>3. CASE CountColors(r)
    <2>1. ASSUME NEW pc \in {"hasColor", "insertColor"}, Continue(r, pc) PROVE TypeOK'
      BY <1>1, <1>3, <2>1, ContinueType DEF CountColors, Pc, CltPc
    <2> QED BY <1>3, <2>1 DEF CountColors
  <1>4. CASE HasColor(r)
    BY <1>4, ReplyType DEF HasColor, Status
  <1>5. CASE InsertColor(r)
    <2>1. ASSUME NEW hex \in Hex, rq' = [rq EXCEPT ![r].pc = "commitColor", ![r].hex = hex],
                 answer' = None, UNCHANGED <<tables, locks>>
          PROVE  TypeOK'
      <3> DEFINE x == [rq[r] EXCEPT !.pc = "commitColor", !.hex = hex]
      <3>0. rq[r] \in Request /\ "commitColor" \in Pc
        BY DEF TypeOK, Pc, CltPc
      <3>1. /\ x \in Request
            /\ x.pc = "commitColor"
            /\ x.hex = hex
            /\ x.user = rq[r].user
            /\ x.clt = rq[r].clt
        BY <3>0 DEF Request
      <3>2. rq' = [rq EXCEPT ![r] = x]
        BY <2>1
      <3>3. rq[r].user \in UserID /\ rq[r].clt \in CltID
        BY <1>1, <1>5 DEF CltPc, InsertColor
      <3>4. RequestsOK'
        BY <3>1, <3>2, <3>3, RequestType
      <3> QED BY <2>1, <3>4, TypeParts DEF TypeOK, TablesOK, LocksOK, AnswerOK, tables, locks
    <2> QED BY <1>5, <2>1, ReplyType DEF InsertColor, Status
  <1>6. CASE CommitColor(r)
    <2>1. rq[r].clt \in CltID /\ rq[r].hex \in Hex
      BY <1>6 DEF CommitColor, TypeOK, FieldsOK, CltPc
    <2> QED BY <1>6, <2>1, TableTypes, CommittedType DEF CommitColor, TypeOK, Status
  <1>7. CASE ResolveCollection(r)
    <2>1. ASSUME NEW pc \in {"deleteColor", "deleteAllColors", "listColors"}, Continue(r, pc)
          PROVE  TypeOK'
      BY <1>1, <1>7, <2>1, ContinueType DEF ResolveCollection, AfterResolve, Pc, CltPc
    <2>2. rq[r].pc \in DOMAIN AfterResolve =>
            AfterResolve[rq[r].pc] \in {"deleteColor", "deleteAllColors", "listColors"}
      BY DEF AfterResolve
    <2> QED BY <1>7, <2>1, <2>2, ReplyType DEF ResolveCollection, Status
  <1>8. CASE DeleteColor(r)
    <2>1. ASSUME NEW hex \in Hex, DeleteColorRow(rq[r].clt, hex), Committed(r, 204)
          PROVE  TypeOK'
      BY <1>1, <1>8, <2>1, TableTypes, CommittedType DEF DeleteColor, TypeOK, CltPc, Status
    <2> QED BY <1>8, <2>1, ReplyType DEF DeleteColor, Status
  <1>9. CASE DeleteAllColors(r)
    BY <1>1, <1>9, TableTypes, CommittedType DEF DeleteAllColors, TypeOK, CltPc, Status
  <1>10. CASE ListColors(r)
    BY <1>10, ReplyType DEF ListColors, Status
  <1> QED BY <1>2, <1>3, <1>4, <1>5, <1>6, <1>7, <1>8, <1>9, <1>10 DEF ColorStep

-----------------------------------------------------------------------------

LEMMA InitType == Init => TypeOK
  BY DEF Init, EmptyTables, TypeOK, TablesOK, NoRequest, Request, FieldsOK, Pc, CltPc

LEMMA NextType == TypeOK /\ [Next]_vars => TypeOK'
  <1> SUFFICES ASSUME TypeOK, [Next]_vars PROVE TypeOK'
    OBVIOUS
  <1>1. ASSUME NEW r \in Req, Receive(r) PROVE TypeOK'
    BY <1>1, ReceiveType
  <1>2. ASSUME NEW r \in Req, Progress(r) PROVE TypeOK'
    BY <1>2, AuthType, UserType, CollectionType, ColorType DEF Progress
  <1>3. ASSUME NEW r \in Req, Abort(r) PROVE TypeOK'
    BY <1>3, ReplyType DEF Abort, Status
  <1>4. ASSUME NEW t \in Token, ExpireToken(t) PROVE TypeOK'
    BY <1>4, TableTypes, TypeParts
    DEF ExpireToken, TypeOK, FieldsOK, RequestsOK, LocksOK, AnswerOK, locks
  <1>5. CASE Crash
    <2>1. NoRequest \in Request /\ NoRequest.pc = "done"
      BY DEF NoRequest, Request, Pc
    <2>2. \A r \in Req : rq'[r] = NoRequest
      BY <1>5 DEF Crash
    <2>3. RequestsOK'
      BY <1>5, <2>1, <2>2 DEF Crash, RequestsOK, FieldsOK, CltPc
    <2> QED BY <1>5, <2>3, TypeParts
            DEF Crash, TypeOK, TablesOK, LocksOK, AnswerOK, tables
  <1>6. CASE UNCHANGED vars
    BY <1>6 DEF vars, TypeOK, TablesOK, FieldsOK
  <1> QED BY <1>1, <1>2, <1>3, <1>4, <1>5, <1>6 DEF Next

\* Every variable keeps its type, and every request has the fields its next
\* statement reads, however the requests interleave, fail and crash.
THEOREM TypeCorrect == Spec => []TypeOK
  BY InitType, NextType, PTL DEF Spec

-----------------------------------------------------------------------------
(***************************************************************************)
(* IInv is an invariant of Services, for every value of the constants.     *)
(* The proof looks at IInv from the side of one request: what the lock     *)
(* table says of it, what it knows of the rows (RowsOK), and what keeps it *)
(* apart from each other request.  A step changes the request it belongs   *)
(* to, and a commit must leave RowsOK of all the others alone.             *)
(***************************************************************************)

\* Who holds which row.
LockTable ==
  /\ \A u \in UserID : userLock[u] # None =>
       rq[userLock[u]].pc \in UserLockPc /\ rq[userLock[u]].user = u
  /\ \A c \in CltID : cltLock[c] # None =>
       \/ rq[cltLock[c]].pc \in CltLockPc /\ rq[cltLock[c]].clt = c
       \/ rq[cltLock[c]].pc = "cascade" /\ Owns(rq[cltLock[c]].user, c)

Holds(r) == /\ rq[r].pc \in UserLockPc => userLock[rq[r].user] = r
            /\ rq[r].pc \in CltLockPc => cltLock[rq[r].clt] = r

\* What a request knows of users and collections.
AccountRowsOK(r) ==
  /\ rq[r].pc \in UserLockPc => UserExists(rq[r].user)
  /\ rq[r].pc \in CltLockPc => CltExists(rq[r].clt)
  /\ rq[r].pc \in {"insertClt", "commitClt"} =>
       Cardinality(Owned(rq[r].user)) < CollectionQuota
  /\ UserPending(r) => ~UserExists(rq[r].user) /\ ~NickTaken(rq[r].nick)
  /\ CltPending(r) => ~CltExists(rq[r].clt)
  /\ rq[r].pc \in ResolvedPc /\ CltExists(rq[r].clt) => Owns(rq[r].user, rq[r].clt)
  /\ rq[r].pc = "deleteClt" => ~IsDefault(rq[r].clt)

\* What it knows of colours.
ColorRowsOK(r) ==
  /\ rq[r].pc \in {"insertColor", "commitColor"} => Cardinality(colors[rq[r].clt]) < ColorQuota
  /\ rq[r].pc = "commitColor" => rq[r].hex \notin colors[rq[r].clt]

RowsOK(r) == AccountRowsOK(r) /\ ColorRowsOK(r)

Apart(r, q) ==
  /\ UserPending(r) /\ UserPending(q) => rq[r].user # rq[q].user /\ rq[r].nick # rq[q].nick
  /\ CltPending(r) /\ (CltPending(q) \/ rq[q].pc \in ResolvedPc) => rq[r].clt # rq[q].clt

IParts == /\ TablesInv
          /\ LockTable
          /\ \A r \in Req : Holds(r) /\ RowsOK(r)
          /\ \A r \in Req : \A q \in Req \ {r} : Apart(r, q)

LEMMA Parts == TypeOK => (IInv <=> IParts)
  <1> SUFFICES ASSUME TypeOK PROVE IInv <=> IParts
    OBVIOUS
  <1>1. \A r \in Req : /\ rq[r].pc \in UserLockPc => rq[r].user \in UserID
                       /\ rq[r].pc \in CltLockPc \cup ResolvedPc => rq[r].clt \in CltID
    BY DEF TypeOK, FieldsOK, Pc, CltPc, UserLockPc, CltLockPc, ResolvedPc
  <1>2. ASSUME LocksHeld, ResolvedStillTrue, RoomLeft, PendingRowsDistinct
        PROVE  /\ LockTable
               /\ \A r \in Req : Holds(r) /\ RowsOK(r)
               /\ \A r \in Req : \A q \in Req \ {r} : Apart(r, q)
    <2>1. LockTable /\ \A r \in Req : Holds(r)
      BY <1>2 DEF LocksHeld, LockTable, Holds
    <2>2. \A r \in Req : /\ rq[r].pc \in UserLockPc => UserExists(rq[r].user)
                         /\ rq[r].pc \in CltLockPc => CltExists(rq[r].clt)
      BY <1>1, <1>2, ReqAssumption DEF LocksHeld
    <2>3. \A r \in Req : RowsOK(r)
      BY <1>2, <2>2 DEF RowsOK, AccountRowsOK, ColorRowsOK, RoomLeft, PendingRowsDistinct,
                        ResolvedStillTrue
    <2>4. \A r \in Req : \A q \in Req \ {r} : Apart(r, q)
      BY <1>2 DEF Apart, PendingRowsDistinct, ResolvedStillTrue
    <2> QED BY <2>1, <2>3, <2>4
  <1>3. ASSUME LockTable, \A r \in Req : Holds(r) /\ RowsOK(r),
               \A r \in Req : \A q \in Req \ {r} : Apart(r, q)
        PROVE  LocksHeld /\ ResolvedStillTrue /\ RoomLeft /\ PendingRowsDistinct
    <2>1. /\ \A u \in UserID : userLock[u] # None => userLock[u] \in Req
          /\ \A c \in CltID : cltLock[c] # None => cltLock[c] \in Req
      BY DEF TypeOK
    <2>2. LocksHeld
      BY <1>3, <2>1 DEF LocksHeld, LockTable, Holds, RowsOK, AccountRowsOK, Owns
    <2>3. \A r, q \in Req : rq[r].pc \in ResolvedPc /\ CltPending(q) => q # r
      BY DEF ResolvedPc, CltLockPc, CltPending
    <2>4. ResolvedStillTrue
      BY <1>3, <2>3 DEF ResolvedStillTrue, RowsOK, AccountRowsOK, ColorRowsOK, Apart
    <2>5. RoomLeft
      BY <1>3 DEF RoomLeft, RowsOK, AccountRowsOK, ColorRowsOK
    <2>6. PendingRowsDistinct
      BY <1>3 DEF PendingRowsDistinct, RowsOK, AccountRowsOK, Apart
    <2> QED BY <2>2, <2>4, <2>5, <2>6
  <1> QED BY <1>2, <1>3 DEF IInv, IParts, TablesInv, TypeOK

\* The same of the next state.
LEMMA PartsNext ==
  ASSUME TypeOK', TablesInv', LockTable',
         \A r \in Req : Holds(r)' /\ RowsOK(r)',
         \A r \in Req : \A q \in Req \ {r} : Apart(r, q)'
  PROVE  IInv'
  <1>1. IParts'
    BY DEF IParts
  <1> QED BY <1>1, Parts, PTL

-----------------------------------------------------------------------------
(* Ending a request. *)

LEMMA EndLocks ==
  ASSUME TypeOK, LockTable, \A q \in Req : Holds(q),
         NEW r \in Req, rq' = [rq EXCEPT ![r] = NoRequest], ReleaseLocks(r),
         \A q \in Req \ {r}, c \in CltID :
            rq[q].pc = "cascade" /\ cltLock[c] = q => Owns(rq[q].user, c)'
  PROVE  LockTable' /\ \A q \in Req : Holds(q)'
  <1>1. rq'[r].pc = "done" /\ \A q \in Req \ {r} : rq'[q] = rq[q]
    BY DEF TypeOK, NoRequest
  <1>2. /\ \A u \in UserID : userLock'[u] = IF userLock[u] = r THEN None ELSE userLock[u]
        /\ \A c \in CltID : cltLock'[c] = IF cltLock[c] = r THEN None ELSE cltLock[c]
    BY DEF ReleaseLocks
  <1>3. LockTable'
    BY <1>1, <1>2 DEF LockTable, TypeOK
  <1>4. ASSUME NEW q \in Req PROVE Holds(q)'
    <2>1. CASE q = r
      BY <1>1, <2>1 DEF Holds, UserLockPc, CltLockPc
    <2>2. CASE q # r
      <3>1. /\ rq[q].pc \in UserLockPc => rq[q].user \in UserID
            /\ rq[q].pc \in CltLockPc => rq[q].clt \in CltID
        BY DEF TypeOK, FieldsOK, Pc, CltPc, UserLockPc, CltLockPc
      <3> QED BY <1>1, <1>2, <2>2, <3>1 DEF Holds
    <2> QED BY <2>1, <2>2
  <1> QED BY <1>3, <1>4

LEMMA NoRequestRows ==
  ASSUME NEW r \in Req, rq[r].pc = "done"
  PROVE  RowsOK(r)
  BY DEF RowsOK, AccountRowsOK, ColorRowsOK, UserLockPc, CltLockPc, ResolvedPc,
         UserPending, CltPending

LEMMA NoRequestRowsNext ==
  ASSUME NEW r \in Req, rq'[r].pc = "done"
  PROVE  RowsOK(r)'
  BY DEF RowsOK, AccountRowsOK, ColorRowsOK, UserLockPc, CltLockPc, ResolvedPc,
         UserPending, CltPending

\* A request ends: it is left to show that its commit disturbs no other request.
LEMMA EndInv ==
  ASSUME IInv, NEW r \in Req, rq' = [rq EXCEPT ![r] = NoRequest], ReleaseLocks(r),
         TypeOK', TablesInv',
         \A q \in Req \ {r} : RowsOK(q)',
         \A q \in Req \ {r}, c \in CltID :
            rq[q].pc = "cascade" /\ cltLock[c] = q => Owns(rq[q].user, c)'
  PROVE  IInv'
  <1>1. TypeOK /\ IParts
    BY Parts DEF IInv
  <1>2. LockTable' /\ \A q \in Req : Holds(q)'
    BY <1>1, EndLocks DEF IParts
  <1>3. rq'[r].pc = "done" /\ \A q \in Req \ {r} : rq'[q] = rq[q]
    BY <1>1 DEF TypeOK, NoRequest
  <1>4. \A q \in Req : RowsOK(q)'
    BY <1>3, NoRequestRowsNext
  <1>5. \A p \in Req : \A q \in Req \ {p} : Apart(p, q)'
    BY <1>1, <1>3 DEF IParts, Apart, UserPending, CltPending, ResolvedPc, CltLockPc
  <1> QED BY <1>2, <1>4, <1>5, PartsNext

LEMMA AccountRowsKept ==
  ASSUME UNCHANGED <<users, collections>>, NEW q \in Req, rq'[q] = rq[q], AccountRowsOK(q)
  PROVE  AccountRowsOK(q)'
  BY DEF AccountRowsOK, UserExists, NickTaken, CltExists, Owned, Owns, IsDefault,
         UserPending, CltPending

LEMMA ColorRowsKept ==
  ASSUME UNCHANGED colors, NEW q \in Req, rq'[q] = rq[q], ColorRowsOK(q)
  PROVE  ColorRowsOK(q)'
  BY DEF ColorRowsOK

LEMMA TablesKept ==
  ASSUME TablesInv, UNCHANGED tables
  PROVE  TablesInv'
  <1>1. TablesOK' /\ ReferentialIntegrity' /\ ColorsWithinQuota'
    BY DEF TablesInv, TablesOK, ReferentialIntegrity, ColorsWithinQuota, tables,
           UserExists, CltExists
  <1> QED BY <1>1, AccountsKept DEF TablesInv, tables

\* A commit that leaves users and collections alone.
LEMMA EndKeepsAccounts ==
  ASSUME IInv, NEW r \in Req, rq' = [rq EXCEPT ![r] = NoRequest], ReleaseLocks(r),
         TypeOK', TablesInv', UNCHANGED <<users, collections>>,
         \A q \in Req \ {r} : ColorRowsOK(q)'
  PROVE  IInv'
  <1>1. TypeOK /\ IParts
    BY Parts DEF IInv
  <1>2. \A q \in Req \ {r} : rq'[q] = rq[q]
    BY <1>1 DEF TypeOK
  <1>3. \A q \in Req \ {r} : RowsOK(q)'
    BY <1>1, <1>2, AccountRowsKept DEF RowsOK, IParts
  <1>4. ASSUME NEW q \in Req \ {r}, NEW c \in CltID, rq[q].pc = "cascade", cltLock[c] = q
        PROVE  Owns(rq[q].user, c)'
    <2>1. Owns(rq[q].user, c)
      BY <1>1, <1>4, ReqAssumption DEF IParts, LockTable, CltLockPc
    <2> QED BY <1>2, <2>1 DEF Owns, CltExists
  <1> QED BY <1>3, <1>4, EndInv

LEMMA ReplyInv ==
  ASSUME IInv, NEW r \in Req, NEW status \in Status, Reply(r, status)
  PROVE  IInv'
  <1>1. TypeOK /\ IParts
    BY Parts DEF IInv
  <1>2. TypeOK'
    BY <1>1, ReplyType
  <1>3. TablesInv'
    BY <1>1, TablesKept DEF Reply, IParts
  <1>4. \A q \in Req \ {r} : rq'[q] = rq[q]
    BY <1>1 DEF Reply, TypeOK
  <1>5. \A q \in Req \ {r} : ColorRowsOK(q)'
    BY <1>1, <1>4, ColorRowsKept DEF Reply, tables, IParts, RowsOK
  <1> QED BY <1>2, <1>3, <1>5, EndKeepsAccounts DEF Reply, tables

-----------------------------------------------------------------------------
(* Going on: the tables stay, the request is replaced by another one. *)

LEMMA AdvanceInv ==
  ASSUME IInv, NEW r \in Req, NEW x \in Request, rq' = [rq EXCEPT ![r] = x],
         TypeOK', UNCHANGED tables,
         LockTable', \A q \in Req : Holds(q)',
         RowsOK(r)',
         UserPending(r)' => \A q \in Req \ {r} :
            UserPending(q) => x.user # rq[q].user /\ x.nick # rq[q].nick,
         CltPending(r)' => \A q \in Req \ {r} :
            CltPending(q) \/ rq[q].pc \in ResolvedPc => x.clt # rq[q].clt,
         x.pc \in ResolvedPc => \A q \in Req \ {r} : CltPending(q) => x.clt # rq[q].clt
  PROVE  IInv'
  <1>1. TypeOK /\ IParts
    BY Parts DEF IInv
  <1>2. rq'[r] = x /\ \A q \in Req \ {r} : rq'[q] = rq[q]
    BY <1>1 DEF TypeOK
  <1>3. \A q \in Req : RowsOK(q)'
    BY <1>1, <1>2, AccountRowsKept, ColorRowsKept DEF IParts, RowsOK, tables
  <1>4. \A p \in Req : \A q \in Req \ {p} : Apart(p, q)'
    BY <1>1, <1>2 DEF IParts, Apart, UserPending, CltPending
  <1>5. TablesInv'
    BY <1>1, TablesKept DEF IParts
  <1> QED BY <1>3, <1>4, <1>5, PartsNext

\* No lock changes hands, and the steps before and after need the same ones.
LEMMA AdvanceLocks ==
  ASSUME IInv, NEW r \in Req, NEW x \in Request, rq' = [rq EXCEPT ![r] = x],
         UNCHANGED <<tables, locks>>,
         rq[r].pc # "cascade", x.pc # "cascade",
         rq[r].pc \in UserLockPc <=> x.pc \in UserLockPc,
         rq[r].pc \in CltLockPc <=> x.pc \in CltLockPc,
         x.pc \in UserLockPc => x.user = rq[r].user,
         x.pc \in CltLockPc => x.clt = rq[r].clt
  PROVE  LockTable' /\ \A q \in Req : Holds(q)'
  <1>1. TypeOK /\ IParts
    BY Parts DEF IInv
  <1>2. rq'[r] = x /\ \A q \in Req \ {r} : rq'[q] = rq[q]
    BY <1>1 DEF TypeOK
  <1>3. /\ \A u \in UserID : userLock[u] # None => userLock[u] \in Req
        /\ \A c \in CltID : cltLock[c] # None => cltLock[c] \in Req
    BY <1>1 DEF TypeOK
  <1>4. userLock' = userLock /\ cltLock' = cltLock /\ collections' = collections
    BY DEF locks, tables
  <1>5. \A u \in UserID : userLock'[u] # None =>
          rq'[userLock'[u]].pc \in UserLockPc /\ rq'[userLock'[u]].user = u
    BY <1>1, <1>2, <1>3, <1>4 DEF IParts, LockTable
  <1>6. \A c \in CltID : cltLock'[c] # None =>
          \/ rq'[cltLock'[c]].pc \in CltLockPc /\ rq'[cltLock'[c]].clt = c
          \/ /\ rq'[cltLock'[c]].pc = "cascade"
             /\ collections'[c] # None
             /\ collections'[c].owner = rq'[cltLock'[c]].user
    BY <1>1, <1>2, <1>3, <1>4 DEF IParts, LockTable, Owns, CltExists
  <1>7. \A q \in Req : Holds(q)'
    BY <1>1, <1>2, <1>4 DEF IParts, Holds
  <1> QED BY <1>5, <1>6, <1>7 DEF LockTable, Owns, CltExists

LEMMA AcquireUser ==
  ASSUME IInv, NEW r \in Req, NEW pc \in {"cascade", "countClts"},
         rq[r].pc \in {"deleteUser", "lockUser"},
         userLock[rq[r].user] = None, UserExists(rq[r].user),
         userLock' = [userLock EXCEPT ![rq[r].user] = r],
         rq' = [rq EXCEPT ![r].pc = pc], UNCHANGED <<tables, cltLock>>, TypeOK'
  PROVE  IInv'
  <1> DEFINE u == rq[r].user
             x == [rq[r] EXCEPT !.pc = pc]
  <1>1. TypeOK /\ IParts
    BY Parts DEF IInv
  <1>2. x \in Request /\ x.pc = pc /\ x.user = u /\ rq' = [rq EXCEPT ![r] = x]
    BY <1>1 DEF TypeOK, Request, Pc
  <1>3. rq'[r] = x /\ \A q \in Req \ {r} : rq'[q] = rq[q]
    BY <1>1, <1>2 DEF TypeOK
  <1>4. u \in UserID
    BY <1>1 DEF TypeOK, FieldsOK, Pc
  <1>5. userLock'[u] = r /\ \A v \in UserID \ {u} : userLock'[v] = userLock[v]
    BY <1>1, <1>4 DEF TypeOK
  <1>6. /\ \A v \in UserID : userLock[v] # None => userLock[v] \in Req \ {r}
        /\ \A c \in CltID : cltLock[c] # None => cltLock[c] \in Req \ {r}
    BY <1>1 DEF TypeOK, IParts, LockTable, UserLockPc, CltLockPc
  <1>7. \A v \in UserID : userLock'[v] # None =>
          rq'[userLock'[v]].pc \in UserLockPc /\ rq'[userLock'[v]].user = v
    <2>1. rq'[userLock'[u]].pc \in UserLockPc /\ rq'[userLock'[u]].user = u
      BY <1>2, <1>3, <1>5 DEF UserLockPc
    <2>2. ASSUME NEW v \in UserID \ {u}, userLock'[v] # None
          PROVE  rq'[userLock'[v]].pc \in UserLockPc /\ rq'[userLock'[v]].user = v
      <3>1. userLock'[v] = userLock[v] /\ rq'[userLock[v]] = rq[userLock[v]]
        BY <1>3, <1>5, <1>6, <2>2
      <3> QED BY <1>1, <2>2, <3>1 DEF IParts, LockTable
    <2> QED BY <2>1, <2>2
  <1>8. \A c \in CltID : cltLock[c] # None => rq'[cltLock[c]] = rq[cltLock[c]]
    BY <1>3, <1>6
  <1>9. \A c \in CltID : cltLock'[c] # None =>
          \/ rq'[cltLock'[c]].pc \in CltLockPc /\ rq'[cltLock'[c]].clt = c
          \/ /\ rq'[cltLock'[c]].pc = "cascade"
             /\ collections'[c] # None
             /\ collections'[c].owner = rq'[cltLock'[c]].user
    <2>1. cltLock' = cltLock /\ collections' = collections
      BY DEF tables
    <2>2. LockTable
      BY <1>1 DEF IParts
    <2>3. \A c \in CltID : cltLock[c] # None =>
            \/ rq[cltLock[c]].pc \in CltLockPc /\ rq[cltLock[c]].clt = c
            \/ /\ rq[cltLock[c]].pc = "cascade"
               /\ collections[c] # None
               /\ collections[c].owner = rq[cltLock[c]].user
      BY <2>2 DEF LockTable, Owns, CltExists
    <2>4. ASSUME NEW c \in CltID, cltLock'[c] # None
          PROVE  \/ rq'[cltLock'[c]].pc \in CltLockPc /\ rq'[cltLock'[c]].clt = c
                 \/ /\ rq'[cltLock'[c]].pc = "cascade"
                    /\ collections'[c] # None
                    /\ collections'[c].owner = rq'[cltLock'[c]].user
      <3> DEFINE y == rq[cltLock[c]]
      <3>1. rq'[cltLock'[c]] = y /\ cltLock[c] # None
        BY <1>8, <2>1, <2>4
      <3>2. \/ y.pc \in CltLockPc /\ y.clt = c
            \/ /\ y.pc = "cascade"
               /\ collections[c] # None
               /\ collections[c].owner = y.user
        BY <2>3, <3>1
      <3> HIDE DEF y
      <3> QED BY <2>1, <3>1, <3>2
    <2> QED BY <2>4
  <1>a. LockTable'
    BY <1>7, <1>9 DEF LockTable, Owns, CltExists
  <1>10. ASSUME NEW q \in Req \ {r} PROVE Holds(q)'
    <2>1. rq[q].pc \in UserLockPc => rq[q].user \in UserID
      BY <1>1 DEF TypeOK, FieldsOK, Pc, CltPc, UserLockPc
    <2>2. rq[q].pc \in UserLockPc => rq[q].user # u
      BY <1>1, ReqAssumption DEF IParts, Holds
    <2> QED BY <1>1, <1>3, <1>5, <2>1, <2>2 DEF IParts, Holds
  <1>11. Holds(r)'
    BY <1>2, <1>3, <1>5 DEF Holds, CltLockPc
  <1>12. RowsOK(r)'
    BY <1>2, <1>3 DEF RowsOK, AccountRowsOK, ColorRowsOK, UserLockPc, CltLockPc, ResolvedPc,
                      UserPending, CltPending, UserExists, tables
  <1>13. ~UserPending(r)' /\ ~CltPending(r)' /\ x.pc \notin ResolvedPc
    BY <1>2, <1>3 DEF UserPending, CltPending, ResolvedPc, CltLockPc
  <1> QED BY <1>2, <1>a, <1>10, <1>11, <1>12, <1>13, AdvanceInv

LEMMA AcquireCollection ==
  ASSUME IInv, NEW r \in Req, rq[r].pc = "lockClt",
         cltLock[rq[r].clt] = None, Owns(rq[r].user, rq[r].clt),
         cltLock' = [cltLock EXCEPT ![rq[r].clt] = r],
         rq' = [rq EXCEPT ![r].pc = "countColors"], UNCHANGED <<tables, userLock>>, TypeOK'
  PROVE  IInv'
  <1> DEFINE c == rq[r].clt
             x == [rq[r] EXCEPT !.pc = "countColors"]
  <1>1. TypeOK /\ IParts
    BY Parts DEF IInv
  <1>2. /\ x \in Request
        /\ x.pc = "countColors"
        /\ x.clt = c
        /\ x.user = rq[r].user
        /\ rq' = [rq EXCEPT ![r] = x]
    BY <1>1 DEF TypeOK, Request, Pc, CltPc
  <1>3. rq'[r] = x /\ \A q \in Req \ {r} : rq'[q] = rq[q]
    BY <1>1, <1>2 DEF TypeOK
  <1>4. c \in CltID
    BY <1>1 DEF TypeOK, FieldsOK, CltPc
  <1>5. cltLock'[c] = r /\ \A d \in CltID \ {c} : cltLock'[d] = cltLock[d]
    BY <1>1, <1>4 DEF TypeOK
  <1>6. /\ \A v \in UserID : userLock[v] # None => userLock[v] \in Req \ {r}
        /\ \A d \in CltID : cltLock[d] # None => cltLock[d] \in Req \ {r}
    BY <1>1 DEF TypeOK, IParts, LockTable, UserLockPc, CltLockPc
  <1>7. \A v \in UserID : userLock[v] # None => rq'[userLock[v]] = rq[userLock[v]]
    BY <1>3, <1>6
  <1>8. \A d \in CltID \ {c} : cltLock[d] # None => rq'[cltLock'[d]] = rq[cltLock[d]]
    BY <1>3, <1>5, <1>6
  <1>9. rq'[cltLock'[c]].pc \in CltLockPc /\ rq'[cltLock'[c]].clt = c
    BY <1>2, <1>3, <1>5 DEF CltLockPc
  <1>10. \A d \in CltID : cltLock'[d] # None =>
          \/ rq'[cltLock'[d]].pc \in CltLockPc /\ rq'[cltLock'[d]].clt = d
          \/ /\ rq'[cltLock'[d]].pc = "cascade"
             /\ collections'[d] # None
             /\ collections'[d].owner = rq'[cltLock'[d]].user
    BY <1>1, <1>5, <1>8, <1>9 DEF IParts, LockTable, Owns, CltExists, tables
  <1>11. LockTable'
    <2>1. \A v \in UserID : userLock'[v] # None =>
            rq'[userLock'[v]].pc \in UserLockPc /\ rq'[userLock'[v]].user = v
      <3>1. userLock' = userLock
        OBVIOUS
      <3>2. \A v \in UserID : userLock[v] # None =>
              rq[userLock[v]].pc \in UserLockPc /\ rq[userLock[v]].user = v
        BY <1>1 DEF IParts, LockTable
      <3> TAKE v \in UserID
      <3> HAVE userLock'[v] # None
      <3>3. rq'[userLock'[v]] = rq[userLock[v]]
        BY <1>7, <3>1
      <3> QED BY <3>1, <3>2, <3>3
    <2> QED BY <1>10, <2>1 DEF LockTable, Owns, CltExists
  <1>12. ASSUME NEW q \in Req \ {r} PROVE Holds(q)'
    <2>1. rq[q].pc \in CltLockPc => rq[q].clt \in CltID
      BY <1>1 DEF TypeOK, FieldsOK, CltPc, CltLockPc
    <2>2. rq[q].pc \in CltLockPc => rq[q].clt # c
      BY <1>1, ReqAssumption DEF IParts, Holds
    <2> QED BY <1>1, <1>3, <1>5, <2>1, <2>2 DEF IParts, Holds
  <1>13. Holds(r)'
    BY <1>2, <1>3, <1>5 DEF Holds, UserLockPc
  <1>14. RowsOK(r)'
    BY <1>2, <1>3 DEF RowsOK, AccountRowsOK, ColorRowsOK, UserLockPc, CltLockPc, ResolvedPc,
                      UserPending, CltPending, CltExists, Owns, tables
  <1>15. \A q \in Req \ {r} : CltPending(q) => rq[q].clt # c
    BY <1>1 DEF IParts, RowsOK, AccountRowsOK, Owns
  <1>16. ~UserPending(r)' /\ ~CltPending(r)'
    BY <1>2, <1>3 DEF UserPending, CltPending
  <1> QED BY <1>2, <1>11, <1>12, <1>13, <1>14, <1>15, <1>16, AdvanceInv

LEMMA CascadeInv ==
  ASSUME IInv, NEW r \in Req, CascadeToCollection(r), TypeOK'
  PROVE  IInv'
  <1>1. TypeOK /\ IParts
    BY Parts DEF IInv
  <1> PICK c \in Owned(rq[r].user) :
        cltLock[c] = None /\ cltLock' = [cltLock EXCEPT ![c] = r]
    BY DEF CascadeToCollection
  <1>2. /\ rq[r].pc = "cascade"
        /\ rq' = rq
        /\ userLock' = userLock
        /\ UNCHANGED tables
        /\ c \in CltID
        /\ Owns(rq[r].user, c)
    BY DEF CascadeToCollection, Owned
  <1>3. cltLock'[c] = r /\ \A d \in CltID \ {c} : cltLock'[d] = cltLock[d]
    BY <1>1, <1>2 DEF TypeOK
  <1>4. \A d \in CltID : cltLock'[d] # None =>
          \/ rq[cltLock'[d]].pc \in CltLockPc /\ rq[cltLock'[d]].clt = d
          \/ rq[cltLock'[d]].pc = "cascade" /\ Owns(rq[cltLock'[d]].user, d)
    BY <1>1, <1>2, <1>3 DEF IParts, LockTable
  <1>5. LockTable'
    BY <1>1, <1>2, <1>4 DEF IParts, LockTable, Owns, CltExists, tables
  <1>6. ASSUME NEW q \in Req PROVE Holds(q)'
    <2>1. rq[q].pc \in CltLockPc => rq[q].clt \in CltID
      BY <1>1 DEF TypeOK, FieldsOK, CltPc, CltLockPc
    <2>2. rq[q].pc \in CltLockPc => rq[q].clt # c
      BY <1>1, ReqAssumption DEF IParts, Holds
    <2> QED BY <1>1, <1>2, <1>3, <2>1, <2>2 DEF IParts, Holds
  <1>7. \A q \in Req : RowsOK(q)'
    BY <1>1, <1>2, AccountRowsKept, ColorRowsKept DEF IParts, RowsOK, tables
  <1>8. \A p \in Req : \A q \in Req \ {p} : Apart(p, q)'
    BY <1>1, <1>2 DEF IParts, Apart, UserPending, CltPending
  <1>9. TablesInv'
    BY <1>1, <1>2, TablesKept DEF IParts
  <1> QED BY <1>5, <1>6, <1>7, <1>8, <1>9, PartsNext

\* The next step needs no lock, and the request is not yet at a step that relies
\* on what it has read.
LEMMA AdvanceFree ==
  ASSUME IInv, NEW r \in Req, NEW x \in Request, rq' = [rq EXCEPT ![r] = x],
         UNCHANGED <<tables, locks>>, TypeOK',
         rq[r].pc \notin UserLockPc \cup CltLockPc,
         x.pc \notin UserLockPc \cup CltLockPc \cup ResolvedPc,
         x.pc \notin {"insertDefault", "commitUser"}
  PROVE  IInv'
  <1>1. rq'[r] = x
    BY DEF IInv, TypeOK
  <1>2. LockTable' /\ \A q \in Req : Holds(q)'
    BY AdvanceLocks DEF UserLockPc
  <1>3. ~UserPending(r)' /\ ~CltPending(r)' /\ x.pc \notin ResolvedPc
    BY <1>1 DEF UserPending, CltPending, UserLockPc
  <1>4. RowsOK(r)'
    BY <1>1 DEF RowsOK, AccountRowsOK, ColorRowsOK, UserLockPc, CltLockPc, ResolvedPc,
                UserPending, CltPending
  <1> QED BY <1>2, <1>3, <1>4, AdvanceInv DEF tables

\* The same request goes on to pc.
LEMMA ContinueInv ==
  ASSUME IInv, NEW r \in Req, NEW pc \in Pc, Continue(r, pc), TypeOK',
         rq[r].pc # "cascade", pc \notin {"cascade", "insertDefault", "commitUser", "commitClt"},
         rq[r].pc \in UserLockPc <=> pc \in UserLockPc,
         rq[r].pc \in CltLockPc <=> pc \in CltLockPc,
         RowsOK(r)',
         pc \in ResolvedPc => \A q \in Req \ {r} : CltPending(q) => rq[r].clt # rq[q].clt
  PROVE  IInv'
  <1> DEFINE x == [rq[r] EXCEPT !.pc = pc]
  <1>1. x \in Request /\ x.pc = pc /\ x.user = rq[r].user /\ x.clt = rq[r].clt
    BY DEF IInv, TypeOK, Request
  <1>2. rq' = [rq EXCEPT ![r] = x] /\ UNCHANGED <<tables, locks>>
    BY DEF Continue
  <1>3. rq'[r] = x
    BY <1>2 DEF IInv, TypeOK
  <1> HIDE DEF x
  <1>4. LockTable' /\ \A q \in Req : Holds(q)'
    BY <1>1, <1>2, AdvanceLocks
  <1>5. ~UserPending(r)' /\ ~CltPending(r)'
    BY <1>1, <1>3 DEF UserPending, CltPending
  <1> QED BY <1>1, <1>2, <1>4, <1>5, AdvanceInv DEF tables

LEMMA ReceiveInv ==
  ASSUME IInv, NEW r \in Req, Receive(r)
  PROVE  IInv'
  <1>1. TypeOK /\ TypeOK'
    BY ReceiveType DEF IInv
  <1>2. ASSUME NEW x \in Request, rq' = [rq EXCEPT ![r] = x], UNCHANGED <<tables, locks>>,
               rq[r].pc = "done",
               x.pc \notin UserLockPc \cup CltLockPc \cup ResolvedPc,
               x.pc \notin {"insertDefault", "commitUser"}
        PROVE  IInv'
    BY <1>1, <1>2, AdvanceFree DEF UserLockPc, CltLockPc
  <1>3. CASE StartSignUp(r)
    <2> PICK nick \in Nick : rq' = [rq EXCEPT ![r] = [NoRequest EXCEPT
                !.pc = "insertUser", !.op = "SignUp", !.nick = nick]]
      BY <1>3 DEF StartSignUp
    <2> DEFINE x == [NoRequest EXCEPT !.pc = "insertUser", !.op = "SignUp", !.nick = nick]
    <2>1. x \in Request /\ x.pc = "insertUser"
      BY DEF NoRequest, Request, Pc, Op
    <2> QED BY <1>2, <1>3, <2>1 DEF StartSignUp, UserLockPc, CltLockPc, ResolvedPc
  <1>4. CASE FindUser(r)
    <2> PICK u \in UserID : rq' = [rq EXCEPT ![r] = [NoRequest EXCEPT
                !.pc = "insertToken", !.op = "Login", !.user = u]]
      BY <1>4 DEF FindUser
    <2> DEFINE x == [NoRequest EXCEPT !.pc = "insertToken", !.op = "Login", !.user = u]
    <2>1. x \in Request /\ x.pc = "insertToken"
      BY DEF NoRequest, Request, Pc, Op
    <2> QED BY <1>2, <1>4, <2>1 DEF FindUser, UserLockPc, CltLockPc, ResolvedPc
  <1>5. CASE RefuseLogin(r)
    BY <1>5, ReplyInv DEF RefuseLogin, Status
  <1>6. CASE Unauthorized(r)
    BY <1>6, ReplyInv DEF Unauthorized, Status
  <1>7. ASSUME NEW op \in AuthedOp, Authenticate(r, op) PROVE IInv'
    <2> PICK t \in Token, c \in (IF op \in CltOp THEN CltID ELSE {None}) :
          /\ TokenValid(t)
          /\ rq' = [rq EXCEPT ![r] = [NoRequest EXCEPT
                !.pc = Route[op], !.op = op, !.user = tokens[t].user, !.clt = c,
                !.tok = IF op = "Logout" THEN t ELSE None]]
      BY <1>7 DEF Authenticate
    <2> DEFINE x == [NoRequest EXCEPT
                !.pc = Route[op], !.op = op, !.user = tokens[t].user, !.clt = c,
                !.tok = IF op = "Logout" THEN t ELSE None]
    <2>1. /\ Route[op] \in Pc
          /\ Route[op] \notin UserLockPc \cup CltLockPc \cup ResolvedPc
          /\ Route[op] \notin {"insertDefault", "commitUser"}
      BY DEF Route, AuthedOp, CltOp, Pc, CltPc, UserLockPc, CltLockPc, ResolvedPc
    <2>2. tokens[t].user \in UserID
      BY <1>1 DEF TypeOK, TablesOK, TokenRow, TokenValid
    <2>3. x \in Request /\ x.pc = Route[op]
      BY <2>1, <2>2 DEF NoRequest, Request, Op
    <2> QED BY <1>2, <1>7, <2>1, <2>3 DEF Authenticate
  <1> QED BY <1>3, <1>4, <1>5, <1>6, <1>7 DEF Receive

-----------------------------------------------------------------------------
(* Tokens. *)

LEMMA TokensInv ==
  ASSUME IInv, NEW r \in Req, NEW status \in Status, Committed(r, status),
         UNCHANGED <<users, collections, colors>>, TypeOK', TablesInv'
  PROVE  IInv'
  <1>1. TypeOK /\ IParts
    BY Parts DEF IInv
  <1>2. \A q \in Req \ {r} : rq'[q] = rq[q]
    BY <1>1 DEF Committed, TypeOK
  <1>3. \A q \in Req \ {r} : ColorRowsOK(q)'
    BY <1>1, <1>2, ColorRowsKept DEF IParts, RowsOK
  <1> QED BY <1>3, EndKeepsAccounts DEF Committed

LEMMA AuthInv ==
  ASSUME IInv, NEW r \in Req, AuthStep(r)
  PROVE  IInv'
  <1>1. TypeOK' /\ TypeOK /\ TablesInv
    BY AuthType, Parts DEF IInv, IParts
  <1>2. CASE InsertToken(r)
    <2>1. rq[r].user \in UserID
      BY <1>1, <1>2 DEF InsertToken, TypeOK, FieldsOK, Pc
    <2>2. ASSUME NEW t \in Token, UserExists(rq[r].user), InsertTokenRow(t, rq[r].user),
                 Committed(r, 201)
          PROVE  IInv'
      <3>1. TablesInv'
        BY <1>1, <2>1, <2>2, TokenRowsInv
      <3> QED BY <1>1, <2>2, <3>1, TokensInv DEF InsertTokenRow, Status
    <2> QED BY <1>2, <2>2, ReplyInv DEF InsertToken, FreshToken, Status
  <1>3. CASE DeleteToken(r)
    <2>1. rq[r].tok \in Token
      BY <1>1, <1>3 DEF DeleteToken, TypeOK, FieldsOK
    <2>2. TablesInv'
      BY <1>1, <1>3, <2>1, TokenRowsInv DEF DeleteToken
    <2> QED BY <1>1, <1>3, <2>2, TokensInv DEF DeleteToken, DeleteTokenRow, Status
  <1> QED BY <1>2, <1>3 DEF AuthStep

-----------------------------------------------------------------------------
(* Commits that change users or collections.  AccountRowsOK of another     *)
(* request follows from what happened to the rows it looks at.             *)

LEMMA AccountRowsNext ==
  ASSUME TypeOK, NEW q \in Req, rq'[q] = rq[q], AccountRowsOK(q),
         rq[q].pc \in UserLockPc => users'[rq[q].user] # None,
         rq[q].pc \in CltLockPc => collections'[rq[q].clt] # None,
         rq[q].pc \in {"insertClt", "commitClt"} =>
            \A v \in UserID : v = rq[q].user =>
               Owned(v)' \subseteq Owned(v),
         UserPending(q) => /\ users'[rq[q].user] = None
                           /\ \A v \in UserID : users'[v] # rq[q].nick,
         CltPending(q) => collections'[rq[q].clt] = None,
         rq[q].pc \in ResolvedPc /\ collections'[rq[q].clt] # None =>
            /\ CltExists(rq[q].clt)
            /\ collections'[rq[q].clt].owner = collections[rq[q].clt].owner
            /\ collections'[rq[q].clt].isDefault = collections[rq[q].clt].isDefault
  PROVE  AccountRowsOK(q)'
  <1>1. ASSUME NEW v \in UserID, v = rq[q].user, rq[q].pc \in {"insertClt", "commitClt"}
        PROVE  (Cardinality(Owned(rq[q].user)) < CollectionQuota)'
    <2>1. Cardinality(Owned(v)) < CollectionQuota
      BY <1>1 DEF AccountRowsOK
    <2>2. Owned(v)' \subseteq Owned(v)
      BY <1>1
    <2>3. \A S \in SUBSET Owned(v) :
            IsFiniteSet(S) /\ Cardinality(S) <= Cardinality(Owned(v)) /\ Cardinality(S) \in Nat
      BY OwnedFinite, FS_Subset, FS_CardinalityType
    <2>4. \A S \in SUBSET Owned(v) : Cardinality(S) < CollectionQuota
      BY <2>1, <2>3, OwnedFinite, QuotaAssumption
    <2>5. Owned(rq[q].user)' = Owned(v)'
      BY <1>1 DEF Owned, Owns, CltExists
    <2> QED BY <2>2, <2>4, <2>5
  <1>2. (rq[q].pc \in ResolvedPc /\ CltExists(rq[q].clt) => Owns(rq[q].user, rq[q].clt))'
    BY DEF AccountRowsOK, Owns, CltExists
  <1>3. (rq[q].pc = "deleteClt" => ~IsDefault(rq[q].clt))'
    BY DEF AccountRowsOK, IsDefault, CltExists, ResolvedPc
  <1>4. (UserPending(q) => ~UserExists(rq[q].user) /\ ~NickTaken(rq[q].nick))'
    BY DEF UserPending, UserExists, NickTaken
  <1>5. (CltPending(q) => ~CltExists(rq[q].clt))'
    BY DEF CltPending, CltExists
  <1>6. /\ (rq[q].pc \in UserLockPc => UserExists(rq[q].user))'
        /\ (rq[q].pc \in CltLockPc => CltExists(rq[q].clt))'
    BY DEF UserExists, CltExists
  <1>7. rq[q].pc \in {"insertClt", "commitClt"} => rq[q].user \in UserID
    BY DEF TypeOK, FieldsOK, Pc, CltPc
  <1> QED BY <1>1, <1>2, <1>3, <1>4, <1>5, <1>6, <1>7 DEF AccountRowsOK

LEMMA CommitUserInv ==
  ASSUME IInv, NEW r \in Req, CommitUser(r), TypeOK'
  PROVE  IInv'
  <1> DEFINE u == rq[r].user
             c == rq[r].clt
             nick == rq[r].nick
  <1>1. TypeOK /\ IParts
    BY Parts DEF IInv
  <1>2. u \in UserID /\ c \in CltID /\ nick \in Nick
    BY <1>1 DEF CommitUser, TypeOK, FieldsOK, Pc, CltPc
  <1>3. ~UserExists(u) /\ ~NickTaken(nick) /\ ~CltExists(c)
    BY <1>1 DEF CommitUser, IParts, RowsOK, AccountRowsOK, UserPending, CltPending
  <1>4. TablesInv'
    BY <1>1, <1>2, <1>3, InsertUserInv DEF CommitUser, IParts
  <1>5. /\ users'[u] = nick
        /\ \A v \in UserID \ {u} : users'[v] = users[v]
        /\ collections'[c] = [owner |-> u, name |-> MainName, isDefault |-> TRUE]
        /\ \A d \in CltID \ {c} : collections'[d] = collections[d]
        /\ colors' = colors
    BY <1>1, <1>2 DEF CommitUser, InsertUserRows, TypeOK, TablesOK
  <1>6. rq' = [rq EXCEPT ![r] = NoRequest] /\ ReleaseLocks(r)
    BY DEF CommitUser, Committed
  <1>7. ASSUME NEW q \in Req \ {r} PROVE RowsOK(q)'
    <2>1. rq'[q] = rq[q] /\ AccountRowsOK(q) /\ ColorRowsOK(q)
      BY <1>1, <1>6 DEF TypeOK, IParts, RowsOK
    <2>2. /\ rq[q].pc \in UserLockPc => rq[q].user \in UserID \ {u}
          /\ rq[q].pc \in CltLockPc => rq[q].clt \in CltID \ {c}
      BY <1>1, <1>3, <2>1 DEF TypeOK, FieldsOK, Pc, CltPc, UserLockPc, CltLockPc, AccountRowsOK
    <2>3. /\ UserPending(q) => rq[q].user \in UserID \ {u} /\ rq[q].nick # nick
          /\ CltPending(q) \/ rq[q].pc \in ResolvedPc => rq[q].clt \in CltID \ {c}
      <3>1. /\ UserPending(q) => rq[q].user \in UserID
            /\ CltPending(q) \/ rq[q].pc \in ResolvedPc => rq[q].clt \in CltID
        BY <1>1 DEF TypeOK, FieldsOK, Pc, CltPc, UserPending, CltPending, ResolvedPc, CltLockPc
      <3>2. Apart(r, q) /\ UserPending(r) /\ CltPending(r)
        BY <1>1 DEF IParts, CommitUser, UserPending, CltPending
      <3> QED BY <3>1, <3>2 DEF Apart
    <2>4. \A v \in UserID \ {u} : Owned(v)' \subseteq Owned(v)
      BY <1>5 DEF Owned, Owns, CltExists
    <2>5. rq[q].pc \in {"insertClt", "commitClt"} =>
            \A v \in UserID : v = rq[q].user => Owned(v)' \subseteq Owned(v)
      BY <2>2, <2>4 DEF UserLockPc
    <2>6. UserPending(q) => /\ users'[rq[q].user] = None
                            /\ \A v \in UserID : users'[v] # rq[q].nick
      BY <1>5, <2>1, <2>3 DEF AccountRowsOK, UserExists, NickTaken
    <2>7. AccountRowsOK(q)'
      BY <1>1, <1>5, <2>1, <2>2, <2>3, <2>5, <2>6, AccountRowsNext
      DEF AccountRowsOK, UserExists, CltExists
    <2> QED BY <1>5, <2>1, <2>7, ColorRowsKept DEF RowsOK
  <1>8. ASSUME NEW q \in Req \ {r}, NEW d \in CltID, rq[q].pc = "cascade", cltLock[d] = q
        PROVE  Owns(rq[q].user, d)'
    <2>1. Owns(rq[q].user, d)
      BY <1>1, <1>8, ReqAssumption DEF IParts, LockTable, CltLockPc
    <2>2. d # c
      BY <1>3, <2>1 DEF Owns
    <2> QED BY <1>1, <1>5, <1>6, <2>1, <2>2 DEF Owns, CltExists, TypeOK
  <1> QED BY <1>4, <1>6, <1>7, <1>8, EndInv

LEMMA CommitDeleteUserInv ==
  ASSUME IInv, NEW r \in Req, CommitDeleteUser(r), TypeOK'
  PROVE  IInv'
  <1> DEFINE u == rq[r].user
  <1>1. TypeOK /\ IParts
    BY Parts DEF IInv
  <1>2. u \in UserID /\ userLock[u] = r
    BY <1>1 DEF CommitDeleteUser, TypeOK, FieldsOK, Pc, IParts, Holds, UserLockPc
  <1>3. TablesInv'
    BY <1>1, <1>2, DeleteUserInv DEF CommitDeleteUser, IParts
  <1>4. /\ users'[u] = None
        /\ \A v \in UserID \ {u} : users'[v] = users[v]
        /\ \A d \in CltID : collections'[d] = IF Owns(u, d) THEN None ELSE collections[d]
        /\ \A d \in CltID : colors'[d] = IF Owns(u, d) THEN {} ELSE colors[d]
    BY <1>1, <1>2 DEF CommitDeleteUser, DeleteUserRow, TypeOK, TablesOK
  <1>5. rq' = [rq EXCEPT ![r] = NoRequest] /\ ReleaseLocks(r)
    BY DEF CommitDeleteUser, Committed
  <1>6. \A d \in CltID : Owns(u, d) => cltLock[d] = r
    BY DEF CommitDeleteUser, Owned
  <1>7. ASSUME NEW q \in Req \ {r} PROVE RowsOK(q)'
    <2>1. rq'[q] = rq[q] /\ AccountRowsOK(q) /\ ColorRowsOK(q) /\ Holds(q)
      BY <1>1, <1>5 DEF TypeOK, IParts, RowsOK
    <2>2. rq[q].pc \in UserLockPc => rq[q].user \in UserID \ {u}
      BY <1>1, <1>2, <2>1 DEF TypeOK, FieldsOK, Pc, CltPc, UserLockPc, Holds
    <2>3. rq[q].pc \in CltLockPc => rq[q].clt \in CltID /\ ~Owns(u, rq[q].clt)
      BY <1>1, <1>6, <2>1 DEF TypeOK, FieldsOK, CltPc, CltLockPc, Holds
    <2>4. /\ UserPending(q) => rq[q].user \in UserID /\ rq[q].nick \in Nick
          /\ CltPending(q) \/ rq[q].pc \in ResolvedPc => rq[q].clt \in CltID
      BY <1>1 DEF TypeOK, FieldsOK, Pc, CltPc, UserPending, CltPending, ResolvedPc, CltLockPc
    <2>5. \A v \in UserID : Owned(v)' \subseteq Owned(v)
      BY <1>4 DEF Owned, Owns, CltExists
    <2>6. UserPending(q) => /\ users'[rq[q].user] = None
                            /\ \A v \in UserID : users'[v] # rq[q].nick
      BY <1>4, <2>1, <2>4, NoneAssumption DEF AccountRowsOK, UserExists, NickTaken
    <2>7. CltPending(q) => collections'[rq[q].clt] = None
      BY <1>4, <2>1, <2>4 DEF AccountRowsOK, CltExists
    <2>8. AccountRowsOK(q)'
      BY <1>1, <1>4, <2>1, <2>2, <2>3, <2>4, <2>5, <2>6, <2>7, AccountRowsNext
      DEF AccountRowsOK, UserExists, CltExists
    <2>9. ColorRowsOK(q)'
      BY <1>4, <2>1, <2>3 DEF ColorRowsOK, CltLockPc
    <2> QED BY <2>8, <2>9 DEF RowsOK
  <1>8. ASSUME NEW q \in Req \ {r}, NEW d \in CltID, rq[q].pc = "cascade", cltLock[d] = q
        PROVE  Owns(rq[q].user, d)'
    <2>1. Owns(rq[q].user, d) /\ rq[q].user # u
      BY <1>1, <1>2, <1>8, ReqAssumption DEF IParts, LockTable, CltLockPc, Holds, UserLockPc
    <2> QED BY <1>1, <1>4, <1>5, <2>1 DEF Owns, CltExists, TypeOK
  <1> QED BY <1>3, <1>5, <1>7, <1>8, EndInv

\* A commit of one collection row that is neither locked by another request nor
\* becomes somebody else's or a default one.
LEMMA CollectionCommitInv ==
  ASSUME IInv, NEW r \in Req, rq' = [rq EXCEPT ![r] = NoRequest], ReleaseLocks(r),
         TypeOK', TablesInv', UNCHANGED users,
         rq[r].clt \in CltID,
         \A d \in CltID \ {rq[r].clt} : collections'[d] = collections[d] /\ colors'[d] = colors[d],
         cltLock[rq[r].clt] = None,
         \A q \in Req \ {r} : rq[q].pc \in {"insertClt", "commitClt"} =>
            \A v \in UserID : v = rq[q].user => Owned(v)' \subseteq Owned(v),
         \/ collections'[rq[r].clt] = None
         \/ /\ \A q \in Req \ {r} : CltPending(q) => rq[q].clt # rq[r].clt
            /\ \/ \A q \in Req \ {r} : rq[q].pc \in ResolvedPc => rq[q].clt # rq[r].clt
               \/ /\ CltExists(rq[r].clt)
                  /\ collections'[rq[r].clt].owner = collections[rq[r].clt].owner
                  /\ collections'[rq[r].clt].isDefault = collections[rq[r].clt].isDefault
  PROVE  IInv'
  <1> DEFINE c == rq[r].clt
  <1>1. TypeOK /\ IParts
    BY Parts DEF IInv
  <1>2. ASSUME NEW q \in Req \ {r} PROVE RowsOK(q)'
    <2>1. rq'[q] = rq[q] /\ AccountRowsOK(q) /\ ColorRowsOK(q) /\ Holds(q)
      BY <1>1 DEF TypeOK, IParts, RowsOK
    <2>2. rq[q].pc \in CltLockPc => rq[q].clt \in CltID \ {c}
      BY <1>1, <2>1, ReqAssumption DEF TypeOK, FieldsOK, CltPc, CltLockPc, Holds
    <2>3. CltPending(q) \/ rq[q].pc \in ResolvedPc => rq[q].clt \in CltID
      BY <1>1 DEF TypeOK, FieldsOK, CltPc, CltPending, ResolvedPc, CltLockPc
    <2>4. rq[q].pc \in CltLockPc => collections'[rq[q].clt] # None
      BY <2>1, <2>2 DEF AccountRowsOK, CltExists
    <2>5. UserPending(q) => /\ users'[rq[q].user] = None
                            /\ \A v \in UserID : users'[v] # rq[q].nick
      BY <2>1 DEF AccountRowsOK, UserExists, NickTaken
    <2>6. CltPending(q) => collections'[rq[q].clt] = None
      BY <2>1, <2>3 DEF AccountRowsOK, CltExists
    <2>7. rq[q].pc \in ResolvedPc /\ collections'[rq[q].clt] # None =>
            /\ CltExists(rq[q].clt)
            /\ collections'[rq[q].clt].owner = collections[rq[q].clt].owner
            /\ collections'[rq[q].clt].isDefault = collections[rq[q].clt].isDefault
      BY <2>3 DEF CltExists
    <2>8. rq[q].pc \in UserLockPc => users'[rq[q].user] # None
      BY <2>1 DEF AccountRowsOK, UserExists
    <2>9. AccountRowsOK(q)'
      BY <1>1, <2>1, <2>4, <2>5, <2>6, <2>7, <2>8, AccountRowsNext
    <2>10. ColorRowsOK(q)'
      BY <2>1, <2>2 DEF ColorRowsOK, CltLockPc
    <2> QED BY <2>9, <2>10 DEF RowsOK
  <1>3. ASSUME NEW q \in Req \ {r}, NEW d \in CltID, rq[q].pc = "cascade", cltLock[d] = q
        PROVE  Owns(rq[q].user, d)'
    <2>1. Owns(rq[q].user, d) /\ d # c
      BY <1>1, <1>3, ReqAssumption DEF IParts, LockTable, CltLockPc
    <2> QED BY <1>1, <2>1 DEF Owns, CltExists, TypeOK
  <1> QED BY <1>2, <1>3, EndInv

-----------------------------------------------------------------------------
(* One lemma per service. *)

LEMMA UserInv ==
  ASSUME IInv, NEW r \in Req, UserStep(r)
  PROVE  IInv'
  <1>1. TypeOK' /\ TypeOK /\ IParts
    BY UserType, Parts DEF IInv
  <1>2. CASE InsertUser(r)
    <2>1. ASSUME ~NickTaken(rq[r].nick), ~NickContended(r), NEW u \in FreshUser,
                 rq' = [rq EXCEPT ![r].pc = "insertDefault", ![r].user = u],
                 UNCHANGED <<tables, locks>>, rq[r].pc = "insertUser"
          PROVE  IInv'
      <3> DEFINE x == [rq[r] EXCEPT !.pc = "insertDefault", !.user = u]
      <3>1. /\ x \in Request
            /\ x.pc = "insertDefault"
            /\ x.user = u
            /\ x.nick = rq[r].nick
            /\ rq' = [rq EXCEPT ![r] = x]
        BY <1>1, <2>1 DEF TypeOK, Request, Pc, FreshUser
      <3>2. rq'[r] = x
        BY <1>1, <3>1 DEF TypeOK
      <3> HIDE DEF x
      <3>3. LockTable' /\ \A q \in Req : Holds(q)'
        BY <2>1, <3>1, AdvanceLocks DEF UserLockPc, CltLockPc
      <3>4. RowsOK(r)'
        BY <2>1, <3>1, <3>2 DEF RowsOK, AccountRowsOK, ColorRowsOK, UserLockPc, CltLockPc,
           ResolvedPc, CltPending, UserExists, NickTaken, FreshUser, tables
      <3>5. \A q \in Req \ {r} : UserPending(q) => x.user # rq[q].user /\ x.nick # rq[q].nick
        BY <2>1, <3>1 DEF FreshUser, NickContended, UserPending
      <3>6. ~CltPending(r)' /\ x.pc \notin ResolvedPc
        BY <3>1, <3>2 DEF CltPending, ResolvedPc, CltLockPc
      <3> QED BY <1>1, <2>1, <3>1, <3>3, <3>4, <3>5, <3>6, AdvanceInv DEF tables
    <2> QED BY <1>2, <2>1, ReplyInv DEF InsertUser, Status
  <1>3. CASE InsertDefault(r)
    <2> PICK c \in FreshClt : rq' = [rq EXCEPT ![r].pc = "commitUser", ![r].clt = c]
      BY <1>3 DEF InsertDefault
    <2> DEFINE x == [rq[r] EXCEPT !.pc = "commitUser", !.clt = c]
    <2>1. /\ x \in Request
          /\ x.pc = "commitUser"
          /\ x.clt = c
          /\ x.user = rq[r].user
          /\ x.nick = rq[r].nick
          /\ rq' = [rq EXCEPT ![r] = x]
      BY <1>1 DEF TypeOK, Request, Pc, CltPc, FreshClt
    <2>2. rq'[r] = x
      BY <1>1, <2>1 DEF TypeOK
    <2> HIDE DEF x
    <2>3. rq[r].pc = "insertDefault" /\ UNCHANGED <<tables, locks>>
      BY <1>3 DEF InsertDefault
    <2>4. LockTable' /\ \A q \in Req : Holds(q)'
      BY <2>1, <2>3, AdvanceLocks DEF UserLockPc, CltLockPc
    <2>5. RowsOK(r) /\ UserPending(r) /\ ~CltExists(c)
      BY <1>1, <2>3 DEF IParts, UserPending, FreshClt
    <2>6. RowsOK(r)'
      BY <2>1, <2>2, <2>3, <2>5 DEF RowsOK, AccountRowsOK, ColorRowsOK, UserLockPc,
         CltLockPc, ResolvedPc, UserPending, UserExists, NickTaken, CltExists, tables
    <2>7. \A q \in Req \ {r} : UserPending(q) => x.user # rq[q].user /\ x.nick # rq[q].nick
      BY <1>1, <2>1, <2>5 DEF IParts, Apart
    <2>8. \A q \in Req \ {r} : x.clt # rq[q].clt
      BY <2>1 DEF FreshClt
    <2> QED BY <1>1, <2>1, <2>3, <2>4, <2>6, <2>7, <2>8, AdvanceInv DEF tables
  <1>4. CASE CommitUser(r)
    BY <1>1, <1>4, CommitUserInv
  <1>5. CASE GetMe(r)
    BY <1>5, ReplyInv DEF GetMe, Status
  <1>6. CASE DeleteUser(r)
    BY <1>1, <1>6, AcquireUser, ReplyInv DEF DeleteUser, Status
  <1>7. CASE CascadeToCollection(r)
    BY <1>1, <1>7, CascadeInv
  <1>8. CASE CommitDeleteUser(r)
    BY <1>1, <1>8, CommitDeleteUserInv
  <1>9. CASE ExportUser(r)
    <2>1. ASSUME Continue(r, "exportClts") PROVE IInv'
      <3> DEFINE x == [rq[r] EXCEPT !.pc = "exportClts"]
      <3>1. x \in Request /\ x.pc = "exportClts" /\ rq' = [rq EXCEPT ![r] = x]
        BY <1>1, <2>1 DEF TypeOK, Request, Pc, Continue
      <3> HIDE DEF x
      <3> QED BY <1>1, <1>9, <2>1, <3>1, AdvanceFree
              DEF ExportUser, Continue, UserLockPc, CltLockPc, ResolvedPc
    <2> QED BY <1>9, <2>1, ReplyInv DEF ExportUser, Status
  <1>10. CASE ExportCollections(r)
    BY <1>10, ReplyInv DEF ExportCollections, Status
  <1> QED BY <1>2, <1>3, <1>4, <1>5, <1>6, <1>7, <1>8, <1>9, <1>10 DEF UserStep

LEMMA CollectionInv ==
  ASSUME IInv, NEW r \in Req, CollectionStep(r)
  PROVE  IInv'
  <1>1. TypeOK' /\ TypeOK /\ IParts
    BY CollectionType, Parts DEF IInv
  <1> DEFINE u == rq[r].user
             c == rq[r].clt
  <1>2. rq[r].pc \in CltPc \cup UserLockPc =>
          u \in UserID /\ (rq[r].pc \in CltPc => c \in CltID)
    BY <1>1 DEF TypeOK, FieldsOK, Pc, UserLockPc, CltPc
  <1>3. CASE LockUser(r)
    BY <1>1, <1>3, AcquireUser, ReplyInv DEF LockUser, Status
  <1>4. CASE CountCollections(r)
    <2>1. ASSUME Continue(r, "insertClt"), Cardinality(Owned(u)) < CollectionQuota PROVE IInv'
      <3>1. rq[r].pc = "countClts" /\ u \in UserID /\ UserExists(u)
        BY <1>1, <1>2, <1>4
        DEF CountCollections, UserLockPc, IParts, RowsOK, AccountRowsOK
      <3>2. rq'[r].pc = "insertClt" /\ rq'[r].user = u /\ UNCHANGED <<users, collections>>
        BY <1>1, <2>1 DEF Continue, TypeOK, Request, tables
      <3>3. Owned(rq[r].user)' = Owned(u)
        BY <3>2 DEF Owned, Owns, CltExists
      <3>4. RowsOK(r)'
        BY <2>1, <3>1, <3>2, <3>3 DEF RowsOK, AccountRowsOK, ColorRowsOK, UserLockPc,
           CltLockPc, ResolvedPc, UserPending, CltPending, UserExists
      <3> QED BY <1>1, <2>1, <3>1, <3>4, ContinueInv DEF Pc, UserLockPc, CltLockPc, ResolvedPc
    <2> QED BY <1>4, <2>1, ReplyInv DEF CountCollections, Status
  <1>5. CASE InsertCollection(r)
    <2> PICK d \in FreshClt : rq' = [rq EXCEPT ![r].pc = "commitClt", ![r].clt = d]
      BY <1>5 DEF InsertCollection
    <2> DEFINE x == [rq[r] EXCEPT !.pc = "commitClt", !.clt = d]
    <2>1. /\ x \in Request
          /\ x.pc = "commitClt"
          /\ x.clt = d
          /\ x.user = u
          /\ rq' = [rq EXCEPT ![r] = x]
      BY <1>1 DEF TypeOK, Request, Pc, CltPc, FreshClt
    <2>2. rq'[r] = x
      BY <1>1, <2>1 DEF TypeOK
    <2> HIDE DEF x
    <2>3. rq[r].pc = "insertClt" /\ UNCHANGED <<tables, locks>>
      BY <1>5 DEF InsertCollection
    <2>4. LockTable' /\ \A q \in Req : Holds(q)'
      BY <2>1, <2>3, AdvanceLocks DEF UserLockPc, CltLockPc
    <2>5. UserExists(u) /\ Cardinality(Owned(u)) < CollectionQuota /\ ~CltExists(d)
      BY <1>1, <2>3 DEF IParts, RowsOK, AccountRowsOK, UserLockPc, FreshClt
    <2>6. Owned(rq[r].user)' = Owned(u)
      BY <2>1, <2>2, <2>3 DEF Owned, Owns, CltExists, tables
    <2>7. RowsOK(r)'
      BY <2>1, <2>2, <2>3, <2>5, <2>6 DEF RowsOK, AccountRowsOK, ColorRowsOK,
         CltLockPc, ResolvedPc, UserPending, UserExists, CltExists, tables
    <2>8. \A q \in Req \ {r} : x.clt # rq[q].clt
      BY <2>1 DEF FreshClt
    <2>9. ~UserPending(r)'
      BY <2>1, <2>2 DEF UserPending
    <2> QED BY <1>1, <2>1, <2>3, <2>4, <2>7, <2>8, <2>9, AdvanceInv DEF tables
  <1>6. CASE CommitCollection(r)
    <2> PICK name \in Name : InsertCollectionRow(c, u, name)
      BY <1>6 DEF CommitCollection
    <2>1. rq' = [rq EXCEPT ![r] = NoRequest] /\ ReleaseLocks(r) /\ rq[r].pc = "commitClt"
      BY <1>6 DEF CommitCollection, Committed
    <2>2. u \in UserID /\ c \in CltID
      BY <1>2, <2>1 DEF CltPc
    <2>3. /\ UserExists(u)
          /\ ~CltExists(c)
          /\ Cardinality(Owned(u)) < CollectionQuota
          /\ userLock[u] = r
      BY <1>1, <2>1 DEF IParts, RowsOK, AccountRowsOK, Holds, UserLockPc, CltPending
    <2>4. TablesInv'
      BY <1>1, <2>2, <2>3, InsertCollectionInv DEF IParts
    <2>5. /\ users' = users
          /\ collections'[c] = [owner |-> u, name |-> name, isDefault |-> FALSE]
          /\ \A d \in CltID \ {c} : collections'[d] = collections[d] /\ colors'[d] = colors[d]
      BY <1>1, <2>2 DEF InsertCollectionRow, TypeOK, TablesOK
    <2>6. cltLock[c] = None
      BY <1>1, <2>2, <2>3 DEF TypeOK, IParts, LockTable, RowsOK, AccountRowsOK, Owns
    <2>7. \A v \in UserID \ {u} : Owned(v)' \subseteq Owned(v)
      BY <2>5 DEF Owned, Owns, CltExists
    <2>8. \A q \in Req \ {r} : rq[q].pc \in UserLockPc => rq[q].user # u
      BY <1>1, <2>3 DEF IParts, Holds
    <2>9. \A q \in Req \ {r} : CltPending(q) \/ rq[q].pc \in ResolvedPc => rq[q].clt # c
      BY <1>1, <2>1 DEF IParts, Apart, CltPending
    <2>10. \A q \in Req \ {r} : rq[q].pc \in {"insertClt", "commitClt"} =>
             \A v \in UserID : v = rq[q].user => Owned(v)' \subseteq Owned(v)
      BY <2>7, <2>8 DEF UserLockPc
    <2>11. TypeOK'
      BY <1>1
    <2> QED BY <2>1, <2>2, <2>4, <2>5, <2>6, <2>9, <2>10, <2>11, CollectionCommitInv
  <1>7. CASE ListCollections(r)
    BY <1>7, ReplyInv DEF ListCollections, Status
  <1>8. CASE GetCollection(r)
    BY <1>8, ReplyInv DEF GetCollection, Status
  <1>9. CASE UpdateCollection(r)
    <2>1. ASSUME NEW name \in Name \cup {None}, rq[r].pc = "updateClt", cltLock[c] = None,
                 Owns(u, c), UpdateCollectionRow(c, name), Committed(r, 200)
          PROVE  IInv'
      <3>1. c \in CltID /\ CltExists(c)
        BY <1>2, <2>1 DEF CltPc, Owns
      <3>2. TablesInv'
        BY <1>1, <2>1, <3>1, UpdateCollectionInv DEF IParts
      <3>3. collections[c] \in Collection
        BY <1>1, <3>1 DEF TypeOK, TablesOK, CltExists
      <3>4. /\ users' = users
            /\ collections'[c].owner = collections[c].owner
            /\ collections'[c].isDefault = collections[c].isDefault
            /\ \A d \in CltID \ {c} : collections'[d] = collections[d]
            /\ colors' = colors
        BY <1>1, <2>1, <3>1, <3>3 DEF UpdateCollectionRow, TypeOK, TablesOK, Collection
      <3>5. \A v \in UserID : Owned(v)' \subseteq Owned(v)
        BY <3>1, <3>4 DEF Owned, Owns, CltExists
      <3>6. \A q \in Req : CltPending(q) => rq[q].clt # c
        BY <1>1, <3>1 DEF IParts, RowsOK, AccountRowsOK
      <3>7. \A q \in Req \ {r} : rq[q].pc \in {"insertClt", "commitClt"} =>
              \A v \in UserID : v = rq[q].user => Owned(v)' \subseteq Owned(v)
        BY <3>5
      <3>8. rq' = [rq EXCEPT ![r] = NoRequest] /\ ReleaseLocks(r)
        BY <2>1 DEF Committed
      <3>9. TypeOK' /\ cltLock[c] = None
        BY <1>1, <2>1
      <3> QED BY <3>1, <3>2, <3>4, <3>6, <3>7, <3>8, <3>9, CollectionCommitInv
    <2> QED BY <1>9, <2>1, ReplyInv DEF UpdateCollection, Status
  <1>10. CASE ReadCollection(r)
    <2>1. ASSUME rq[r].pc = "readClt", Owns(u, c), ~IsDefault(c), Continue(r, "deleteClt")
          PROVE  IInv'
      <3>1. rq'[r].pc = "deleteClt" /\ rq'[r].user = u /\ rq'[r].clt = c
        BY <1>1, <2>1 DEF Continue, TypeOK, Request
      <3>2. RowsOK(r)'
        BY <2>1, <3>1 DEF RowsOK, AccountRowsOK, ColorRowsOK, UserLockPc, CltLockPc,
           UserPending, CltPending, Owns, IsDefault, CltExists, Continue, tables
      <3>3. \A q \in Req : CltPending(q) => rq[q].clt # c
        BY <1>1, <2>1 DEF IParts, RowsOK, AccountRowsOK, Owns
      <3> QED BY <1>1, <2>1, <3>2, <3>3, ContinueInv DEF Pc, CltPc, UserLockPc, CltLockPc
    <2> QED BY <1>10, <2>1, ReplyInv DEF ReadCollection, Status
  <1>11. CASE DeleteCollection(r)
    <2>1. ASSUME rq[r].pc = "deleteClt", cltLock[c] = None, DeleteCollectionRow(c),
                 Committed(r, 204)
          PROVE  IInv'
      <3>1. c \in CltID /\ ~IsDefault(c)
        BY <1>1, <1>2, <2>1 DEF CltPc, IParts, RowsOK, AccountRowsOK
      <3>2. TablesInv'
        BY <1>1, <2>1, <3>1, DeleteCollectionInv DEF IParts
      <3>3. /\ users' = users
            /\ collections'[c] = None
            /\ \A d \in CltID \ {c} : collections'[d] = collections[d] /\ colors'[d] = colors[d]
        BY <1>1, <2>1, <3>1 DEF DeleteCollectionRow, TypeOK, TablesOK
      <3>4. \A v \in UserID : Owned(v)' \subseteq Owned(v)
        BY <3>1, <3>3 DEF Owned, Owns, CltExists
      <3> QED BY <1>1, <2>1, <3>1, <3>2, <3>3, <3>4, CollectionCommitInv DEF Committed
    <2> QED BY <1>11, <2>1, ReplyInv DEF DeleteCollection, Status
  <1> QED BY <1>3, <1>4, <1>5, <1>6, <1>7, <1>8, <1>9, <1>10, <1>11 DEF CollectionStep

\* A commit that touches the colours of one collection.
LEMMA ColorCommitInv ==
  ASSUME IInv, NEW r \in Req, NEW status \in Status, Committed(r, status),
         TypeOK', TablesInv', UNCHANGED <<users, collections>>,
         NEW c \in CltID, \A d \in CltID \ {c} : colors'[d] = colors[d],
         \/ colors'[c] \subseteq colors[c]
         \/ cltLock[c] = r
  PROVE  IInv'
  <1>1. TypeOK /\ IParts
    BY Parts DEF IInv
  <1>2. rq' = [rq EXCEPT ![r] = NoRequest] /\ ReleaseLocks(r)
    BY DEF Committed
  <1>3. ASSUME NEW q \in Req \ {r} PROVE ColorRowsOK(q)'
    <2>1. rq'[q] = rq[q] /\ ColorRowsOK(q) /\ Holds(q)
      BY <1>1, <1>2 DEF TypeOK, IParts, RowsOK
    <2>2. rq[q].pc \in CltLockPc => rq[q].clt \in CltID /\ cltLock[rq[q].clt] = q
      BY <1>1, <2>1 DEF TypeOK, FieldsOK, CltPc, CltLockPc, Holds
    <2>3. CASE colors'[c] \subseteq colors[c]
      <3>1. \A d \in CltID : colors'[d] \subseteq colors[d]
        BY <2>3
      <3>2. \A d \in CltID : /\ Cardinality(colors'[d]) <= Cardinality(colors[d])
                             /\ Cardinality(colors'[d]) \in Nat
                             /\ Cardinality(colors[d]) \in Nat
        BY <1>1, <3>1, ColorsFinite, FS_Subset, FS_CardinalityType DEF TypeOK
      <3>3. rq[q].pc \in {"insertColor", "commitColor"} =>
              Cardinality(colors'[rq[q].clt]) < ColorQuota
        BY <2>1, <2>2, <3>2, QuotaAssumption DEF ColorRowsOK, CltLockPc
      <3> QED BY <2>1, <2>2, <3>1, <3>3 DEF ColorRowsOK, CltLockPc
    <2>4. CASE cltLock[c] = r
      BY <2>1, <2>2, <2>4 DEF ColorRowsOK, CltLockPc
    <2> QED BY <2>3, <2>4
  <1> QED BY <1>2, <1>3, EndKeepsAccounts

LEMMA ColorInv ==
  ASSUME IInv, NEW r \in Req, ColorStep(r)
  PROVE  IInv'
  <1>1. TypeOK' /\ TypeOK /\ IParts
    BY ColorType, Parts DEF IInv
  <1> DEFINE u == rq[r].user
             c == rq[r].clt
  <1>2. rq[r].pc \in CltPc => u \in UserID /\ c \in CltID
    BY <1>1 DEF TypeOK, FieldsOK, Pc, CltPc
  <1>3. CASE LockCollection(r)
    BY <1>1, <1>3, AcquireCollection, ReplyInv DEF LockCollection, Status
  <1>4. CASE CountColors(r)
    <2>1. ASSUME NEW pc \in {"hasColor", "insertColor"}, Continue(r, pc),
                 pc = "insertColor" => Cardinality(colors[c]) < ColorQuota
          PROVE  IInv'
      <3>1. rq[r].pc = "countColors" /\ rq[r].pc \in CltLockPc
        BY <1>4 DEF CountColors, CltLockPc
      <3>2. rq'[r].pc = pc /\ rq'[r].user = u /\ rq'[r].clt = c /\ UNCHANGED tables
        BY <1>1, <2>1 DEF Continue, TypeOK, Request
      <3>3. CltExists(c) /\ Owns(u, c)
        BY <1>1, <3>1 DEF IParts, RowsOK, AccountRowsOK, ResolvedPc
      <3>4. RowsOK(r)'
        BY <2>1, <3>2, <3>3 DEF RowsOK, AccountRowsOK, ColorRowsOK, UserLockPc,
           UserPending, CltPending, Owns, CltExists, tables
      <3>5. \A q \in Req : CltPending(q) => rq[q].clt # c
        BY <1>1, <3>3 DEF IParts, RowsOK, AccountRowsOK
      <3> QED BY <1>1, <2>1, <3>1, <3>4, <3>5, ContinueInv DEF Pc, CltPc, UserLockPc, CltLockPc
    <2> QED BY <1>4, <2>1 DEF CountColors
  <1>5. CASE HasColor(r)
    BY <1>5, ReplyInv DEF HasColor, Status
  <1>6. CASE InsertColor(r)
    <2>1. ASSUME NEW hex \in Hex, hex \notin colors[c], rq[r].pc = "insertColor",
                 rq' = [rq EXCEPT ![r].pc = "commitColor", ![r].hex = hex],
                 UNCHANGED <<tables, locks>>
          PROVE  IInv'
      <3> DEFINE x == [rq[r] EXCEPT !.pc = "commitColor", !.hex = hex]
      <3>a. rq[r] \in Request /\ rq \in [Req -> Request] /\ TypeOK'
        BY <1>1 DEF TypeOK
      <3>b. rq' = [rq EXCEPT ![r] = x]
        BY <2>1
      <3>1. /\ x \in Request
            /\ x.pc = "commitColor"
            /\ x.hex = hex
            /\ x.user = u
            /\ x.clt = c
        BY <3>a DEF Request, Pc, CltPc
      <3>2. rq'[r] = x
        BY <3>a, <3>b
      <3> HIDE DEF x
      <3>3. LockTable' /\ \A q \in Req : Holds(q)'
        BY <2>1, <3>b, <3>1, AdvanceLocks DEF UserLockPc, CltLockPc
      <3>4. CltExists(c) /\ Owns(u, c) /\ Cardinality(colors[c]) < ColorQuota
        BY <1>1, <2>1 DEF IParts, RowsOK, AccountRowsOK, ColorRowsOK, CltLockPc, ResolvedPc
      <3>5. RowsOK(r)'
        BY <2>1, <3>1, <3>2, <3>4 DEF RowsOK, AccountRowsOK, ColorRowsOK, UserLockPc,
           UserPending, CltPending, Owns, CltExists, tables
      <3>6. \A q \in Req : CltPending(q) => rq[q].clt # c
        BY <1>1, <3>4 DEF IParts, RowsOK, AccountRowsOK
      <3>7. ~UserPending(r)' /\ ~CltPending(r)'
        BY <3>1, <3>2 DEF UserPending, CltPending
      <3>8. UNCHANGED tables
        BY <2>1
      <3> QED BY <3>a, <3>b, <3>1, <3>3, <3>5, <3>6, <3>7, <3>8, AdvanceInv
    <2> QED BY <1>6, <2>1, ReplyInv DEF InsertColor, Status
  <1>7. CASE CommitColor(r)
    <2>1. rq[r].pc = "commitColor" /\ InsertColorRow(c, rq[r].hex) /\ Committed(r, 201)
      BY <1>7 DEF CommitColor
    <2>2. c \in CltID /\ rq[r].hex \in Hex
      BY <1>1, <2>1 DEF TypeOK, FieldsOK, CltPc
    <2>3. /\ CltExists(c)
          /\ rq[r].hex \notin colors[c]
          /\ Cardinality(colors[c]) < ColorQuota
          /\ cltLock[c] = r
      BY <1>1, <2>1 DEF IParts, RowsOK, AccountRowsOK, ColorRowsOK, Holds, CltLockPc
    <2>4. TablesInv'
      BY <1>1, <2>1, <2>2, <2>3, ColorRowsInv DEF IParts
    <2>5. /\ UNCHANGED <<users, collections>>
          /\ \A d \in CltID \ {c} : colors'[d] = colors[d]
      BY <1>1, <2>1, <2>2 DEF InsertColorRow, TypeOK, TablesOK
    <2> QED BY <1>1, <2>1, <2>2, <2>3, <2>4, <2>5, ColorCommitInv DEF Status
  <1>8. CASE ResolveCollection(r)
    <2>1. ASSUME NEW pc \in {"deleteColor", "deleteAllColors", "listColors"}, Continue(r, pc),
                 rq[r].pc \in DOMAIN AfterResolve, Owns(u, c)
          PROVE  IInv'
      <3>1. rq'[r].pc = pc /\ rq'[r].user = u /\ rq'[r].clt = c /\ UNCHANGED tables
        BY <1>1, <2>1 DEF Continue, TypeOK, Request
      <3>2. RowsOK(r)'
        BY <2>1, <3>1 DEF RowsOK, AccountRowsOK, ColorRowsOK, UserLockPc, CltLockPc,
           UserPending, CltPending, Owns, CltExists, tables
      <3>3. \A q \in Req : CltPending(q) => rq[q].clt # c
        BY <1>1, <2>1 DEF IParts, RowsOK, AccountRowsOK, Owns
      <3>4. rq[r].pc \in {"resolveDelete", "resolveDeleteAll", "resolveList"}
        BY <2>1 DEF AfterResolve
      <3> QED BY <1>1, <2>1, <3>2, <3>3, <3>4, ContinueInv DEF Pc, CltPc, UserLockPc, CltLockPc
    <2>2. rq[r].pc \in DOMAIN AfterResolve =>
            AfterResolve[rq[r].pc] \in {"deleteColor", "deleteAllColors", "listColors"}
      BY DEF AfterResolve
    <2> QED BY <1>8, <2>1, <2>2, ReplyInv DEF ResolveCollection, Status
  <1>9. CASE DeleteColor(r)
    <2>1. ASSUME NEW hex \in Hex, rq[r].pc = "deleteColor", DeleteColorRow(c, hex),
                 Committed(r, 204)
          PROVE  IInv'
      <3>1. c \in CltID
        BY <1>2, <2>1 DEF CltPc
      <3>2. TablesInv'
        BY <1>1, <2>1, <3>1, ColorRowsInv DEF IParts
      <3>3. /\ UNCHANGED <<users, collections>>
            /\ colors'[c] \subseteq colors[c]
            /\ \A d \in CltID \ {c} : colors'[d] = colors[d]
        BY <1>1, <2>1, <3>1 DEF DeleteColorRow, TypeOK, TablesOK
      <3> QED BY <1>1, <2>1, <3>1, <3>2, <3>3, ColorCommitInv DEF Status
    <2> QED BY <1>9, <2>1, ReplyInv DEF DeleteColor, Status
  <1>10. CASE DeleteAllColors(r)
    <2>1. c \in CltID /\ DeleteColorRows(c) /\ Committed(r, 204)
      BY <1>2, <1>10 DEF DeleteAllColors, CltPc
    <2>2. TablesInv'
      BY <1>1, <2>1, ColorRowsInv DEF IParts
    <2>3. /\ UNCHANGED <<users, collections>>
          /\ colors'[c] \subseteq colors[c]
          /\ \A d \in CltID \ {c} : colors'[d] = colors[d]
      BY <1>1, <2>1 DEF DeleteColorRows, TypeOK, TablesOK
    <2> QED BY <1>1, <2>1, <2>2, <2>3, ColorCommitInv DEF Status
  <1>11. CASE ListColors(r)
    BY <1>11, ReplyInv DEF ListColors, Status
  <1> QED BY <1>3, <1>4, <1>5, <1>6, <1>7, <1>8, <1>9, <1>10, <1>11 DEF ColorStep

-----------------------------------------------------------------------------

LEMMA InitIInv == Init => IInv
  <1> SUFFICES ASSUME Init PROVE IInv
    OBVIOUS
  <1>1. TypeOK /\ TablesInv
    BY InitType, EmptyTablesInv DEF Init
  <1>2. \A r \in Req : rq[r].pc = "done"
    BY DEF Init, NoRequest
  <1>3. LockTable /\ \A r \in Req : Holds(r)
    BY <1>2 DEF Init, LockTable, Holds, UserLockPc, CltLockPc
  <1>4. \A r \in Req : RowsOK(r)
    BY <1>2, NoRequestRows
  <1>5. \A r \in Req : \A q \in Req \ {r} : Apart(r, q)
    BY <1>2 DEF Apart, UserPending, CltPending
  <1> QED BY <1>1, <1>3, <1>4, <1>5, Parts DEF IParts

LEMMA NextIInv == IInv /\ [Next]_vars => IInv'
  <1> SUFFICES ASSUME IInv, [Next]_vars PROVE IInv'
    OBVIOUS
  <1>1. TypeOK /\ TypeOK' /\ IParts
    BY NextType, Parts DEF IInv
  <1>2. ASSUME NEW r \in Req, Receive(r) \/ Progress(r) \/ Abort(r) PROVE IInv'
    BY <1>2, ReceiveInv, AuthInv, UserInv, CollectionInv, ColorInv, ReplyInv
    DEF Progress, Abort, Status
  <1>3. ASSUME UNCHANGED <<users, collections, colors, locks, rq>>, TablesInv' PROVE IInv'
    <2>1. LockTable' /\ \A r \in Req : Holds(r)'
      BY <1>1, <1>3 DEF IParts, LockTable, Holds, Owns, CltExists, locks
    <2>2. \A r \in Req : RowsOK(r)'
      BY <1>1, <1>3, AccountRowsKept, ColorRowsKept DEF IParts, RowsOK
    <2>3. \A r \in Req : \A q \in Req \ {r} : Apart(r, q)'
      BY <1>1, <1>3 DEF IParts, Apart, UserPending, CltPending
    <2> QED BY <1>1, <1>3, <2>1, <2>2, <2>3, PartsNext
  <1>4. ASSUME NEW t \in Token, ExpireToken(t) PROVE IInv'
    <2>1. TablesInv'
      BY <1>1, <1>4, TokenRowsInv DEF ExpireToken, IParts
    <2> QED BY <1>3, <1>4, <2>1 DEF ExpireToken, ExpireTokenRow
  <1>5. CASE Crash
    <2>1. \A r \in Req : rq'[r].pc = "done"
      BY <1>5 DEF Crash, NoRequest
    <2>2. LockTable' /\ \A r \in Req : Holds(r)'
      BY <1>5, <2>1 DEF Crash, LockTable, Holds, UserLockPc, CltLockPc
    <2>3. \A r \in Req : RowsOK(r)'
      BY <2>1, NoRequestRowsNext
    <2>4. \A r \in Req : \A q \in Req \ {r} : Apart(r, q)'
      BY <2>1 DEF Apart, UserPending, CltPending
    <2>5. TablesInv'
      BY <1>1, <1>5, TablesKept DEF Crash, IParts
    <2> QED BY <1>1, <2>2, <2>3, <2>4, <2>5, PartsNext
  <1>6. CASE UNCHANGED vars
    <2>1. TablesInv'
      BY <1>1, <1>6, TablesKept DEF vars, tables, IParts
    <2> QED BY <1>3, <1>6, <2>1 DEF vars, locks
  <1> QED BY <1>2, <1>4, <1>5, <1>6 DEF Next

\* IInv holds in every reachable state, for any number of requests, accounts,
\* collections and colours and any quotas: the two row locks of CreateCollection
\* and AddColor, the wait on the nickname index and the checks inside each
\* statement are enough for all its parts.
THEOREM Invariance == Spec => []IInv
  BY InitIInv, NextIInv, PTL DEF Spec

\* No account ever has more collections than its quota, however many requests
\* race to create one.
THEOREM CollectionQuotaKept == Spec => []CollectionsWithinQuota
  <1>1. IInv => CollectionsWithinQuota
    BY DEF IInv
  <1> QED BY <1>1, Invariance, PTL

\* No collection ever has more colours than its quota, however many requests
\* race to add one.
THEOREM ColorQuotaKept == Spec => []ColorsWithinQuota
  <1>1. IInv => ColorsWithinQuota
    BY DEF IInv
  <1> QED BY <1>1, Invariance, PTL

\* A count taken under a row lock is still good for the insert it allowed.
THEOREM CountsStayTrue == Spec => []RoomLeft
  <1>1. IInv => RoomLeft
    BY DEF IInv
  <1> QED BY <1>1, Invariance, PTL

\* Every account has exactly one default collection in every committed state.
THEOREM OneDefault == Spec => []OneDefaultCollection
  <1>1. IInv => OneDefaultCollection
    BY DEF IInv
  <1> QED BY <1>1, Invariance, PTL

\* Two accounts, committed or being signed up, never share a nickname.
THEOREM NicknamesApart == Spec => [](NicknamesUnique /\ PendingRowsDistinct)
  <1>1. IInv => NicknamesUnique /\ PendingRowsDistinct
    BY DEF IInv
  <1> QED BY <1>1, Invariance, PTL

\* No token, collection or colour outlives the row it belongs to.
THEOREM NoOrphans == Spec => []ReferentialIntegrity
  <1>1. IInv => ReferentialIntegrity
    BY DEF IInv
  <1> QED BY <1>1, Invariance, PTL

\* Row locks are held exactly while a transaction needs them: no answer, failure
\* or crash leaves one behind.
THEOREM LockDiscipline == Spec => []LocksHeld
  <1>1. IInv => LocksHeld
    BY DEF IInv
  <1> QED BY <1>1, Invariance, PTL

-----------------------------------------------------------------------------
(***************************************************************************)
(* Services implements WavelenAPI: IInv gives every COMMIT the conditions  *)
(* of the atomic operation it stands for, and no other step changes a row. *)
(* From that, what a step of the server may never do to a collection, and  *)
(* what the answers to AddColor and DeleteMe promise.                      *)
(***************************************************************************)

LEMMA CommitSignUp ==
  ASSUME NEW u \in UserID, NEW nick \in Nick, NEW c \in CltID,
         ~UserExists(u), ~NickTaken(nick), ~CltExists(c), InsertUserRows(u, nick, c)
  PROVE  API!Next
  <1>1. API!SignUp(u, nick, c)
    BY DEF API!SignUp, API!UserExists, API!NickTaken, API!CltExists, API!InsertUserRows,
           UserExists, NickTaken, CltExists, InsertUserRows
  <1> QED BY <1>1 DEF API!Next, API!UserNext

LEMMA CommitDeleteAccount ==
  ASSUME NEW u \in UserID, UserExists(u), DeleteUserRow(u)
  PROVE  API!Next
  <1>1. API!DeleteAccount(u)
    BY DEF API!DeleteAccount, API!UserExists, API!DeleteUserRow, API!Owns, API!CltExists,
           UserExists, DeleteUserRow, Owns, CltExists
  <1> QED BY <1>1 DEF API!Next, API!UserNext

LEMMA CommitToken ==
  ASSUME NEW t \in Token
  PROVE  /\ \A u \in UserID : tokens[t] = None /\ UserExists(u) /\ InsertTokenRow(t, u)
                              => API!Next
         /\ tokens[t] # None /\ DeleteTokenRow(t) => API!Next
         /\ TokenValid(t) /\ ExpireTokenRow(t) => API!Next
  <1>1. ASSUME NEW u \in UserID, tokens[t] = None, UserExists(u), InsertTokenRow(t, u)
        PROVE  API!Next
    <2>1. API!Login(t, u)
      BY <1>1 DEF API!Login, API!UserExists, API!InsertTokenRow, UserExists, InsertTokenRow
    <2> QED BY <2>1 DEF API!Next, API!TokenNext
  <1>2. ASSUME tokens[t] # None, DeleteTokenRow(t) PROVE API!Next
    <2>1. API!Logout(t)
      BY <1>2 DEF API!Logout, API!DeleteTokenRow, DeleteTokenRow
    <2> QED BY <2>1 DEF API!Next, API!TokenNext
  <1>3. ASSUME TokenValid(t), ExpireTokenRow(t) PROVE API!Next
    <2>1. API!Expire(t)
      BY <1>3 DEF API!Expire, API!TokenValid, API!ExpireTokenRow, TokenValid, ExpireTokenRow
    <2> QED BY <2>1 DEF API!Next, API!TokenNext
  <1> QED BY <1>1, <1>2, <1>3

\* An instance brings its own copy of Cardinality.
LEMMA SameCardinality == \A S : API!Cardinality(S) = Cardinality(S)
  BY DEF API!Cardinality, Cardinality

LEMMA CommitNewCollection ==
  ASSUME NEW c \in CltID, NEW u \in UserID, NEW name \in Name, UserExists(u), ~CltExists(c),
         Cardinality(Owned(u)) < CollectionQuota, InsertCollectionRow(c, u, name)
  PROVE  API!Next
  <1>1. API!Owned(u) = Owned(u)
    BY DEF API!Owned, API!Owns, API!CltExists, Owned, Owns, CltExists
  <1>2. API!CreateCollection(c, u, name)
    <2>1. API!UserExists(u) /\ ~API!CltExists(c) /\ API!InsertCollectionRow(c, u, name)
      BY DEF API!UserExists, API!CltExists, API!InsertCollectionRow,
             UserExists, CltExists, InsertCollectionRow
    <2>2. Cardinality(API!Owned(u)) < CollectionQuota
      BY <1>1
    <2> QED BY <2>1, <2>2, SameCardinality DEF API!CreateCollection
  <1> QED BY <1>2 DEF API!Next, API!CollectionNext

\* A PATCH without a name rewrites the row with the name it has.
LEMMA CommitRename ==
  ASSUME TablesOK, NEW c \in CltID, NEW name \in Name \cup {None}, CltExists(c),
         UpdateCollectionRow(c, name)
  PROVE  API!Next
  <1> DEFINE n == IF name = None THEN collections[c].name ELSE name
             row == [collections[c] EXCEPT !.name = n]
  <1>1. n \in Name /\ n # None
    BY NoneAssumption DEF TablesOK, CltExists, Collection
  <1>2. collections' = [collections EXCEPT ![c] = row] /\ UNCHANGED <<users, colors, tokens>>
    BY DEF UpdateCollectionRow
  <1> HIDE DEF n
  <1>3. API!RenameCollection(c, n)
    BY <1>1, <1>2 DEF API!RenameCollection, API!CltExists, API!UpdateCollectionRow, CltExists
  <1> QED BY <1>1, <1>3 DEF API!Next, API!CollectionNext

LEMMA CommitDeleteCollection ==
  ASSUME NEW c \in CltID, CltExists(c), ~IsDefault(c), DeleteCollectionRow(c)
  PROVE  API!Next
  <1>1. API!DeleteCollection(c)
    BY DEF API!DeleteCollection, API!CltExists, API!IsDefault, API!DeleteCollectionRow,
           CltExists, IsDefault, DeleteCollectionRow
  <1> QED BY <1>1 DEF API!Next, API!CollectionNext

LEMMA CommitColors ==
  ASSUME NEW c \in CltID
  PROVE  /\ \A hex \in Hex : /\ CltExists(c)
                             /\ hex \notin colors[c]
                             /\ Cardinality(colors[c]) < ColorQuota
                             /\ InsertColorRow(c, hex)
                             => API!Next
         /\ \A hex \in Hex : hex \in colors[c] /\ DeleteColorRow(c, hex) => API!Next
         /\ DeleteColorRows(c) => API!Next
  <1>1. ASSUME NEW hex \in Hex, CltExists(c), hex \notin colors[c],
               Cardinality(colors[c]) < ColorQuota, InsertColorRow(c, hex)
        PROVE  API!Next
    <2>1. API!AddColor(c, hex)
      BY <1>1, SameCardinality
      DEF API!AddColor, API!CltExists, API!InsertColorRow, CltExists, InsertColorRow
    <2> QED BY <2>1 DEF API!Next, API!ColorNext
  <1>2. ASSUME NEW hex \in Hex, hex \in colors[c], DeleteColorRow(c, hex) PROVE API!Next
    <2>1. API!DeleteColor(c, hex)
      BY <1>2 DEF API!DeleteColor, API!DeleteColorRow, DeleteColorRow
    <2> QED BY <2>1 DEF API!Next, API!ColorNext
  <1>3. ASSUME DeleteColorRows(c) PROVE API!Next
    <2>1. API!DeleteAllColors(c)
      BY <1>3 DEF API!DeleteAllColors, API!DeleteColorRows, DeleteColorRows
    <2> QED BY <2>1 DEF API!Next, API!ColorNext
  <1> QED BY <1>1, <1>2, <1>3

-----------------------------------------------------------------------------

\* A step is a change the API promises, or leaves the tables as they are.
Promised == API!Next \/ UNCHANGED tables

LEMMA ProgressPromised ==
  ASSUME IInv, NEW r \in Req, Progress(r)
  PROVE  Promised
  <1> DEFINE u == rq[r].user
             c == rq[r].clt
  <1>1. TypeOK /\ IParts
    BY Parts DEF IInv
  <1>2. /\ rq[r].pc \in Pc \ {"done", "insertUser"} => u \in UserID
        /\ rq[r].pc \in CltPc => c \in CltID
    BY <1>1 DEF TypeOK, FieldsOK
  <1>3. CASE AuthStep(r)
    <2>1. CASE InsertToken(r)
      <3>1. u \in UserID
        BY <1>2, <2>1 DEF InsertToken, Pc
      <3>2. ASSUME NEW t \in FreshToken, UserExists(u), InsertTokenRow(t, u) PROVE Promised
        BY <3>1, <3>2, CommitToken DEF FreshToken, Promised
      <3> QED BY <2>1, <3>2 DEF InsertToken, Reply, Promised
    <2>2. CASE DeleteToken(r)
      <3>1. rq[r].tok \in Token /\ DeleteTokenRow(rq[r].tok)
        BY <1>1, <2>2 DEF DeleteToken, TypeOK, FieldsOK
      <3>2. CASE tokens[rq[r].tok] = None
        BY <1>1, <3>1, <3>2 DEF DeleteTokenRow, TypeOK, TablesOK, Promised, tables
      <3> QED BY <3>1, <3>2, CommitToken DEF Promised
    <2> QED BY <1>3, <2>1, <2>2 DEF AuthStep
  <1>4. CASE UserStep(r)
    <2>1. CASE CommitUser(r)
      <3>1. u \in UserID /\ c \in CltID /\ rq[r].nick \in Nick
        BY <1>1, <2>1 DEF CommitUser, TypeOK, FieldsOK, Pc, CltPc
      <3>2. ~UserExists(u) /\ ~NickTaken(rq[r].nick) /\ ~CltExists(c)
        BY <1>1, <2>1 DEF CommitUser, IParts, RowsOK, AccountRowsOK, UserPending, CltPending
      <3> QED BY <2>1, <3>1, <3>2, CommitSignUp DEF CommitUser, Promised
    <2>2. CASE CommitDeleteUser(r)
      <3>1. u \in UserID /\ UserExists(u)
        BY <1>1, <2>2
        DEF CommitDeleteUser, TypeOK, FieldsOK, Pc, IParts, RowsOK, AccountRowsOK, UserLockPc
      <3> QED BY <2>2, <3>1, CommitDeleteAccount DEF CommitDeleteUser, Promised
    <2>3. CASE \/ InsertUser(r) \/ InsertDefault(r) \/ GetMe(r) \/ DeleteUser(r)
               \/ CascadeToCollection(r) \/ ExportUser(r) \/ ExportCollections(r)
      BY <2>3 DEF InsertUser, InsertDefault, GetMe, DeleteUser, CascadeToCollection,
                  ExportUser, ExportCollections, Reply, Continue, Promised
    <2> QED BY <1>4, <2>1, <2>2, <2>3 DEF UserStep
  <1>5. CASE CollectionStep(r)
    <2>1. CASE CommitCollection(r)
      <3>1. u \in UserID /\ c \in CltID
        BY <1>2, <2>1 DEF CommitCollection, Pc, CltPc
      <3>2. UserExists(u) /\ ~CltExists(c) /\ Cardinality(Owned(u)) < CollectionQuota
        BY <1>1, <2>1
        DEF CommitCollection, IParts, RowsOK, AccountRowsOK, UserLockPc, CltPending
      <3> QED BY <2>1, <3>1, <3>2, CommitNewCollection DEF CommitCollection, Promised
    <2>2. CASE UpdateCollection(r)
      <3>1. c \in CltID
        BY <1>2, <2>2 DEF UpdateCollection, CltPc
      <3>2. ASSUME NEW name \in Name \cup {None}, Owns(u, c), UpdateCollectionRow(c, name)
            PROVE  Promised
        BY <1>1, <3>1, <3>2, CommitRename DEF TypeOK, Owns, Promised
      <3> QED BY <2>2, <3>2 DEF UpdateCollection, Reply, Promised
    <2>3. CASE DeleteCollection(r)
      <3>1. c \in CltID /\ ~IsDefault(c)
        BY <1>1, <1>2, <2>3 DEF DeleteCollection, CltPc, IParts, RowsOK, AccountRowsOK
      <3>2. ASSUME Owns(u, c), DeleteCollectionRow(c) PROVE Promised
        BY <3>1, <3>2, CommitDeleteCollection DEF Owns, Promised
      <3> QED BY <2>3, <3>2 DEF DeleteCollection, Reply, Promised
    <2>4. CASE \/ LockUser(r) \/ CountCollections(r) \/ InsertCollection(r)
               \/ ListCollections(r) \/ GetCollection(r) \/ ReadCollection(r)
      BY <2>4 DEF LockUser, CountCollections, InsertCollection, ListCollections,
                  GetCollection, ReadCollection, Reply, Continue, Promised
    <2> QED BY <1>5, <2>1, <2>2, <2>3, <2>4 DEF CollectionStep
  <1>6. CASE ColorStep(r)
    <2>1. CASE CommitColor(r)
      <3>1. c \in CltID /\ rq[r].hex \in Hex
        BY <1>1, <2>1 DEF CommitColor, TypeOK, FieldsOK, CltPc
      <3>2. CltExists(c) /\ rq[r].hex \notin colors[c] /\ Cardinality(colors[c]) < ColorQuota
        BY <1>1, <2>1
        DEF CommitColor, IParts, RowsOK, AccountRowsOK, ColorRowsOK, CltLockPc
      <3> QED BY <2>1, <3>1, <3>2, CommitColors DEF CommitColor, Promised
    <2>2. CASE DeleteColor(r)
      <3>1. c \in CltID
        BY <1>2, <2>2 DEF DeleteColor, CltPc
      <3>2. ASSUME NEW hex \in Hex, hex \in colors[c], DeleteColorRow(c, hex) PROVE Promised
        BY <3>1, <3>2, CommitColors DEF Promised
      <3> QED BY <2>2, <3>2 DEF DeleteColor, Reply, Promised
    <2>3. CASE DeleteAllColors(r)
      BY <1>2, <2>3, CommitColors DEF DeleteAllColors, CltPc, Promised
    <2>4. CASE \/ LockCollection(r) \/ CountColors(r) \/ HasColor(r) \/ InsertColor(r)
               \/ ResolveCollection(r) \/ ListColors(r)
      BY <2>4 DEF LockCollection, CountColors, HasColor, InsertColor, ResolveCollection,
                  ListColors, Reply, Continue, Promised
    <2> QED BY <1>6, <2>1, <2>2, <2>3, <2>4 DEF ColorStep
  <1> QED BY <1>3, <1>4, <1>5, <1>6 DEF Progress

LEMMA StepPromised == IInv /\ [Next]_vars => [API!Next]_(API!tables)
  <1> SUFFICES ASSUME IInv, [Next]_vars PROVE Promised
    BY DEF Promised, tables, API!tables
  <1>1. ASSUME NEW r \in Req, Receive(r) PROVE Promised
    BY <1>1 DEF Receive, StartSignUp, FindUser, RefuseLogin, Unauthorized, Authenticate,
                Reply, Promised
  <1>2. ASSUME NEW r \in Req, Progress(r) PROVE Promised
    BY <1>2, ProgressPromised
  <1>3. ASSUME NEW r \in Req, Abort(r) PROVE Promised
    BY <1>3 DEF Abort, Reply, Promised
  <1>4. ASSUME NEW t \in Token, ExpireToken(t) PROVE Promised
    BY <1>4, CommitToken DEF ExpireToken, Promised
  <1>5. CASE Crash \/ UNCHANGED vars
    BY <1>5 DEF Crash, vars, tables, Promised
  <1> QED BY <1>1, <1>2, <1>3, <1>4, <1>5 DEF Next

\* Whatever the interleaving, failures, crashes and expirations, what happens to
\* the stored data is a sequence of the atomic operations of WavelenAPI, each
\* allowed by the state it is applied to.
THEOREM Refinement == Spec => ImplementsAPI
  <1>1. Init => API!EmptyTables
    BY DEF Init, EmptyTables, API!EmptyTables
  <1> QED BY <1>1, StepPromised, Invariance, PTL DEF Spec, ImplementsAPI, API!Spec

-----------------------------------------------------------------------------
(* What a step may never do. *)

\* Of the atomic operations only DeleteAccount takes a default collection.
LEMMA PromiseKeepsDefault ==
  ASSUME TypeOK, Promised, NEW c \in CltID, IsDefault(c), ~IsDefault(c)'
  PROVE  users'[collections[c].owner] = None
  <1>1. TablesOK
    BY DEF TypeOK
  <1>2. ASSUME NEW u \in UserID, API!DeleteAccount(u) PROVE users'[collections[c].owner] = None
    BY <1>1, <1>2 DEF API!DeleteAccount, API!DeleteUserRow, API!Owns, API!CltExists,
                      IsDefault, CltExists, TablesOK
  <1>3. ASSUME NEW u \in UserID, NEW d \in CltID,
               \/ \E nick \in Nick : API!SignUp(u, nick, d)
               \/ \E name \in Name : API!CreateCollection(d, u, name)
        PROVE  FALSE
    <2>1. d # c
      BY <1>3 DEF API!SignUp, API!CreateCollection, API!CltExists, IsDefault, CltExists
    <2>2. collections'[c] = collections[c]
      BY <1>1, <1>3, <2>1 DEF API!SignUp, API!CreateCollection, API!InsertUserRows,
                              API!InsertCollectionRow, TablesOK
    <2> QED BY <2>2 DEF IsDefault, CltExists
  <1>4. ASSUME NEW d \in CltID,
               API!DeleteCollection(d) \/ \E name \in Name : API!RenameCollection(d, name)
        PROVE  FALSE
    <2>1. CASE API!DeleteCollection(d)
      <3>1. d # c
        BY <2>1 DEF API!DeleteCollection, API!IsDefault, API!CltExists, IsDefault, CltExists
      <3> QED BY <1>1, <2>1, <3>1 DEF API!DeleteCollection, API!DeleteCollectionRow,
                                     IsDefault, CltExists, TablesOK
    <2>2. ASSUME NEW name \in Name, API!RenameCollection(d, name) PROVE FALSE
      <3>1. collections[c] \in Collection
        BY <1>1 DEF TablesOK, IsDefault, CltExists
      <3>2. collections' = [collections EXCEPT ![d].name = IF name = None THEN @ ELSE name]
        BY <2>2 DEF API!RenameCollection, API!UpdateCollectionRow
      <3>3. collections'[c] # None
        <4>1. CASE c # d
          BY <1>1, <3>2, <4>1 DEF TablesOK, IsDefault, CltExists
        <4>2. CASE c = d
          <5>1. collections'[c] \in Collection
            BY <1>1, <3>1, <3>2, <4>2 DEF TablesOK, Collection
          <5> QED BY <5>1, NoneAssumption
        <4> QED BY <4>1, <4>2
      <3>4. collections'[c].isDefault = collections[c].isDefault
        BY <1>1, <3>1, <3>2 DEF TablesOK, Collection
      <3> QED BY <3>3, <3>4 DEF IsDefault, CltExists
    <2> QED BY <1>4, <2>1, <2>2
  <1>5. CASE API!TokenNext \/ API!ColorNext \/ UNCHANGED tables
    <2>1. collections' = collections
      BY <1>5 DEF API!TokenNext, API!ColorNext, API!Logout, API!Expire, API!Login,
         API!DeleteTokenRow, API!ExpireTokenRow, API!InsertTokenRow, API!AddColor,
         API!DeleteColor, API!DeleteAllColors, API!InsertColorRow, API!DeleteColorRow,
         API!DeleteColorRows, tables
    <2> QED BY <2>1 DEF IsDefault, CltExists
  <1> QED BY <1>2, <1>3, <1>4, <1>5 DEF Promised, API!Next, API!UserNext, API!CollectionNext

\* A default collection goes only together with its account: DeleteCollection
\* may look at is_default before the statement that deletes, because no row ever
\* becomes a default one in between.
THEOREM DefaultGoesWithAccount == Spec => DefaultKept
  <1>1. IInv /\ [Next]_vars =>
          [\A c \in CltID :
             IsDefault(c) /\ ~IsDefault(c)' => users'[collections[c].owner] = None]_vars
    <2> SUFFICES ASSUME IInv, [Next]_vars, NEW c \in CltID, IsDefault(c), ~IsDefault(c)'
                 PROVE  users'[collections[c].owner] = None
      OBVIOUS
    <2>1. Promised
      BY StepPromised DEF Promised, tables, API!tables
    <2> QED BY <2>1, PromiseKeepsDefault DEF IInv
  <1> QED BY <1>1, Invariance, PTL DEF Spec, DefaultKept

LEMMA WritesNothing ==
  ASSUME NEW r \in Req, Receive(r) \/ Abort(r)
  PROVE  UNCHANGED tables
  <1>1. CASE Receive(r)
    BY <1>1 DEF Receive, StartSignUp, FindUser, RefuseLogin, Unauthorized, Authenticate, Reply
  <1>2. CASE Abort(r)
    BY <1>2 DEF Abort, Reply
  <1> QED BY <1>1, <1>2

\* What a request writes to a collection that exists is the collection of its
\* own user: resolved before, it is still that user's or gone.
LEMMA WritesItsOwn ==
  ASSUME IInv, NEW r \in Req, Progress(r), NEW c \in CltID, CltExists(c),
         collections'[c] # collections[c] \/ colors'[c] # colors[c]
  PROVE  rq[r].user = collections[c].owner /\ rq[r].pc # "done" /\ rq'[r].pc = "done"
  <1>1. TypeOK /\ TablesOK /\ IParts
    BY Parts DEF IInv, TypeOK
  <1>2. ~UNCHANGED tables
    BY DEF tables
  <1>3. rq[r].pc \in CltPc => rq[r].clt \in CltID
    BY <1>1 DEF TypeOK, FieldsOK
  <1>4. ASSUME rq' = [rq EXCEPT ![r] = NoRequest] PROVE rq'[r].pc = "done"
    BY <1>1, <1>4 DEF TypeOK, NoRequest
  <1>5. CASE AuthStep(r)
    BY <1>1, <1>2, <1>5 DEF AuthStep, InsertToken, DeleteToken, Reply, InsertTokenRow,
                            DeleteTokenRow
  <1>6. CASE UserStep(r)
    <2>1. CASE CommitUser(r)
      <3>1. rq[r].clt # c
        BY <1>1, <2>1 DEF CommitUser, IParts, RowsOK, AccountRowsOK, CltPending
      <3> QED BY <1>1, <2>1, <3>1 DEF CommitUser, InsertUserRows, TablesOK
    <2>2. CASE CommitDeleteUser(r)
      <3>1. Owns(rq[r].user, c)
        BY <1>1, <2>2 DEF CommitDeleteUser, DeleteUserRow, TablesOK
      <3> QED BY <1>4, <2>2, <3>1 DEF CommitDeleteUser, Committed, Owns
    <2>3. CASE \/ InsertUser(r) \/ InsertDefault(r) \/ GetMe(r) \/ DeleteUser(r)
               \/ CascadeToCollection(r) \/ ExportUser(r) \/ ExportCollections(r)
      BY <1>2, <2>3 DEF InsertUser, InsertDefault, GetMe, DeleteUser, CascadeToCollection,
                        ExportUser, ExportCollections, Reply, Continue
    <2> QED BY <1>6, <2>1, <2>2, <2>3 DEF UserStep
  <1>7. CASE CollectionStep(r)
    <2>1. CASE CommitCollection(r)
      <3>1. rq[r].clt # c
        BY <1>1, <2>1 DEF CommitCollection, IParts, RowsOK, AccountRowsOK, CltPending
      <3> QED BY <1>1, <2>1, <3>1 DEF CommitCollection, InsertCollectionRow, TablesOK
    <2>2. ASSUME \/ UpdateCollection(r) /\ Owns(rq[r].user, rq[r].clt)
                 \/ DeleteCollection(r) /\ Owns(rq[r].user, rq[r].clt)
          PROVE  rq[r].user = collections[c].owner /\ rq[r].pc # "done" /\ rq'[r].pc = "done"
      <3>1. /\ rq[r].pc \in {"updateClt", "deleteClt"}
            /\ Reply(r, 404) \/ \E status \in {200, 204} : Committed(r, status)
            /\ \/ UNCHANGED tables
               \/ \E name \in Name \cup {None} : UpdateCollectionRow(rq[r].clt, name)
               \/ DeleteCollectionRow(rq[r].clt)
        BY <2>2 DEF UpdateCollection, DeleteCollection, Reply
      <3>2. rq[r].clt = c
        <4>1. CASE DeleteCollectionRow(rq[r].clt)
          BY <1>1, <4>1 DEF DeleteCollectionRow, TablesOK
        <4>2. ASSUME NEW name \in Name \cup {None}, UpdateCollectionRow(rq[r].clt, name),
                     rq[r].clt # c
              PROVE  FALSE
          BY <1>1, <4>2 DEF UpdateCollectionRow, TablesOK
        <4> QED BY <1>2, <3>1, <4>1, <4>2
      <3>3. rq' = [rq EXCEPT ![r] = NoRequest]
        BY <3>1 DEF Reply, Committed
      <3> QED BY <1>4, <2>2, <3>1, <3>2, <3>3 DEF Owns
    <2>3. CASE UpdateCollection(r) \/ DeleteCollection(r)
      BY <1>2, <2>2, <2>3 DEF UpdateCollection, DeleteCollection, Reply
    <2>4. CASE \/ LockUser(r) \/ CountCollections(r) \/ InsertCollection(r)
               \/ ListCollections(r) \/ GetCollection(r) \/ ReadCollection(r)
      BY <1>2, <2>4 DEF LockUser, CountCollections, InsertCollection, ListCollections,
                        GetCollection, ReadCollection, Reply, Continue
    <2> QED BY <1>7, <2>1, <2>3, <2>4 DEF CollectionStep
  <1>8. CASE ColorStep(r)
    <2>1. ASSUME CommitColor(r) \/ DeleteColor(r) \/ DeleteAllColors(r)
          PROVE  rq[r].user = collections[c].owner /\ rq[r].pc # "done" /\ rq'[r].pc = "done"
      <3>1. /\ rq[r].pc \in {"commitColor", "deleteColor", "deleteAllColors"}
            /\ \/ UNCHANGED tables
               \/ InsertColorRow(rq[r].clt, rq[r].hex)
               \/ \E hex \in Hex : DeleteColorRow(rq[r].clt, hex)
               \/ DeleteColorRows(rq[r].clt)
            /\ rq' = [rq EXCEPT ![r] = NoRequest]
        BY <2>1 DEF CommitColor, DeleteColor, DeleteAllColors, Reply, Committed
      <3>2. rq[r].clt = c
        BY <1>1, <1>2, <3>1 DEF InsertColorRow, DeleteColorRow, DeleteColorRows, TablesOK
      <3>3. Owns(rq[r].user, c)
        BY <1>1, <3>1, <3>2 DEF IParts, RowsOK, AccountRowsOK, ResolvedPc, CltLockPc
      <3> QED BY <1>4, <3>1, <3>3 DEF Owns
    <2>2. CASE \/ LockCollection(r) \/ CountColors(r) \/ HasColor(r) \/ InsertColor(r)
               \/ ResolveCollection(r) \/ ListColors(r)
      BY <1>2, <2>2 DEF LockCollection, CountColors, HasColor, InsertColor,
                        ResolveCollection, ListColors, Reply, Continue
    <2> QED BY <1>8, <2>1, <2>2 DEF ColorStep
  <1> QED BY <1>5, <1>6, <1>7, <1>8 DEF Progress

\* Only requests of its owner change a collection or its colours, although
\* AddColor, DeleteColor and DeleteAllColors write by the collection's id alone.
THEOREM OnlyOwnersWrite == Spec => OnlyTheOwnerWrites
  <1>1. IInv /\ [Next]_vars =>
          [\A c \in CltID :
             CltExists(c) /\ (collections'[c] # collections[c] \/ colors'[c] # colors[c]) =>
               \E r \in Req : /\ rq[r].user = collections[c].owner
                              /\ rq[r].pc # "done"
                              /\ rq'[r].pc = "done"]_vars
    <2> SUFFICES ASSUME IInv, [Next]_vars, NEW c \in CltID, CltExists(c),
                        collections'[c] # collections[c] \/ colors'[c] # colors[c]
                 PROVE  \E r \in Req : /\ rq[r].user = collections[c].owner
                                       /\ rq[r].pc # "done"
                                       /\ rq'[r].pc = "done"
      OBVIOUS
    <2>1. ASSUME NEW r \in Req, Receive(r) \/ Abort(r) PROVE UNCHANGED tables
      BY <2>1, WritesNothing
    <2>2. ASSUME NEW t \in Token, ExpireToken(t) PROVE UNCHANGED <<collections, colors>>
      BY <2>2 DEF ExpireToken, ExpireTokenRow
    <2>3. PICK r \in Req : Progress(r)
      BY <2>1, <2>2 DEF Next, Crash, vars, tables
    <2> QED BY <2>3, WritesItsOwn
  <1> QED BY <1>1, Invariance, PTL DEF Spec, OnlyTheOwnerWrites

-----------------------------------------------------------------------------
(* What an answer means. *)

\* A request for AddColor, and one for DeleteMe, is at a statement of that
\* operation: the status it is answered with tells which statement ended it.
AddColorPc == {"lockClt"} \cup CltLockPc
DeleteMePc == {"deleteUser", "cascade"}

OpTied == \A r \in Req : rq[r].pc # "done" =>
            /\ rq[r].op = "AddColor" => rq[r].pc \in AddColorPc
            /\ rq[r].op = "DeleteMe" => rq[r].pc \in DeleteMePc

\* What a statement does to the request that makes it: end it, or keep its
\* operation and stay within that operation's statements.
StaysTied(r) ==
  /\ \A q \in Req \ {r} : rq'[q] = rq[q]
  /\ rq'[r].pc # "done" =>
       /\ rq'[r].op = rq[r].op
       /\ rq[r].pc # "done"
       /\ rq[r].pc \in AddColorPc => rq'[r].pc \in AddColorPc
       /\ rq[r].pc \in DeleteMePc => rq'[r].pc \in DeleteMePc

\* Ended, or moved to a statement pc.
Moved(r, pc) ==
  /\ \A q \in Req \ {r} : rq'[q] = rq[q]
  /\ \/ rq'[r].pc = "done"
     \/ rq'[r].pc = pc /\ rq'[r].op = rq[r].op

LEMMA Moves ==
  ASSUME TypeOK, NEW r \in Req, NEW pc
  PROVE  /\ \A s : Reply(r, s) \/ Committed(r, s) => Moved(r, pc)
         /\ rq' = [rq EXCEPT ![r].pc = pc] => Moved(r, pc)
         /\ \A u : rq' = [rq EXCEPT ![r].pc = pc, ![r].user = u] => Moved(r, pc)
         /\ \A c : rq' = [rq EXCEPT ![r].pc = pc, ![r].clt = c] => Moved(r, pc)
         /\ \A hex : rq' = [rq EXCEPT ![r].pc = pc, ![r].hex = hex] => Moved(r, pc)
  <1>1. rq \in [Req -> Request]
    BY DEF TypeOK
  <1>2. ASSUME rq' = [rq EXCEPT ![r] = NoRequest] PROVE Moved(r, pc)
    <2>1. rq'[r] = NoRequest /\ \A q \in Req \ {r} : rq'[q] = rq[q]
      BY <1>1, <1>2
    <2>2. NoRequest.pc = "done"
      BY DEF NoRequest
    <2> QED BY <2>1, <2>2 DEF Moved
  <1>3. \A s : Reply(r, s) \/ Committed(r, s) => Moved(r, pc)
    BY <1>2 DEF Reply, Committed
  <1>4. rq' = [rq EXCEPT ![r].pc = pc] => Moved(r, pc)
    BY <1>1 DEF Request, Moved
  <1>5. \A u : rq' = [rq EXCEPT ![r].pc = pc, ![r].user = u] => Moved(r, pc)
    BY <1>1 DEF Request, Moved
  <1>6. \A c : rq' = [rq EXCEPT ![r].pc = pc, ![r].clt = c] => Moved(r, pc)
    BY <1>1 DEF Request, Moved
  <1>7. \A hex : rq' = [rq EXCEPT ![r].pc = pc, ![r].hex = hex] => Moved(r, pc)
    BY <1>1 DEF Request, Moved
  <1> QED BY <1>3, <1>4, <1>5, <1>6, <1>7

LEMMA ProgressTied ==
  ASSUME TypeOK, NEW r \in Req, Progress(r)
  PROVE  StaysTied(r)
  <1>1. ASSUME NEW pc, Moved(r, pc), rq[r].pc # "done",
               rq[r].pc \in AddColorPc => pc \in AddColorPc,
               rq[r].pc \in DeleteMePc => pc \in DeleteMePc
        PROVE  StaysTied(r)
    BY <1>1 DEF Moved, StaysTied
  <1>2. ASSUME NEW s, Reply(r, s) \/ Committed(r, s) PROVE StaysTied(r)
    BY <1>2, Moves DEF Moved, StaysTied
  <1>3. CASE AuthStep(r)
    BY <1>2, <1>3 DEF AuthStep, InsertToken, DeleteToken
  <1>4. CASE UserStep(r)
    <2>1. CASE InsertUser(r) \/ InsertDefault(r)
      <3>1. /\ rq[r].pc \in {"insertUser", "insertDefault"}
            /\ \E pc : Moved(r, pc)
        BY <2>1, Moves DEF InsertUser, InsertDefault
      <3> QED BY <1>1, <3>1 DEF AddColorPc, CltLockPc, DeleteMePc
    <2>2. CASE DeleteUser(r)
      <3>1. rq[r].pc = "deleteUser" /\ Moved(r, "cascade")
        BY <2>2, Moves DEF DeleteUser
      <3> QED BY <1>1, <3>1 DEF AddColorPc, CltLockPc, DeleteMePc
    <2>3. CASE CascadeToCollection(r)
      BY <2>3 DEF CascadeToCollection, StaysTied
    <2>4. CASE ExportUser(r)
      <3>1. rq[r].pc = "exportUser" /\ Moved(r, "exportClts")
        BY <2>4, Moves DEF ExportUser, Continue
      <3> QED BY <1>1, <3>1 DEF AddColorPc, CltLockPc, DeleteMePc
    <2>5. CASE CommitUser(r) \/ GetMe(r) \/ CommitDeleteUser(r) \/ ExportCollections(r)
      BY <1>2, <2>5 DEF CommitUser, GetMe, CommitDeleteUser, ExportCollections
    <2> QED BY <1>4, <2>1, <2>2, <2>3, <2>4, <2>5 DEF UserStep
  <1>5. CASE CollectionStep(r)
    <2>1. CASE LockUser(r) \/ CountCollections(r) \/ InsertCollection(r) \/ ReadCollection(r)
      <3>1. /\ rq[r].pc \in {"lockUser", "countClts", "insertClt", "readClt"}
            /\ \E pc : Moved(r, pc)
        BY <2>1, Moves DEF LockUser, CountCollections, InsertCollection, ReadCollection,
                           Continue
      <3> QED BY <1>1, <3>1 DEF AddColorPc, CltLockPc, DeleteMePc
    <2>2. CASE \/ CommitCollection(r) \/ ListCollections(r) \/ GetCollection(r)
               \/ UpdateCollection(r) \/ DeleteCollection(r)
      BY <1>2, <2>2 DEF CommitCollection, ListCollections, GetCollection, UpdateCollection,
                        DeleteCollection
    <2> QED BY <1>5, <2>1, <2>2 DEF CollectionStep
  <1>6. CASE ColorStep(r)
    <2>1. CASE LockCollection(r) \/ CountColors(r) \/ InsertColor(r)
      <3>1. /\ rq[r].pc \in AddColorPc
            /\ \E pc \in AddColorPc : Moved(r, pc)
        <4>1. CASE LockCollection(r)
          BY <4>1, Moves DEF LockCollection, AddColorPc, CltLockPc
        <4>2. CASE CountColors(r)
          BY <4>2, Moves DEF CountColors, Continue, AddColorPc, CltLockPc
        <4>3. CASE InsertColor(r)
          BY <4>3, Moves DEF InsertColor, AddColorPc, CltLockPc
        <4> QED BY <2>1, <4>1, <4>2, <4>3
      <3> QED BY <1>1, <3>1 DEF AddColorPc, CltLockPc, DeleteMePc
    <2>2. CASE ResolveCollection(r)
      <3>1. /\ rq[r].pc \in {"resolveDelete", "resolveDeleteAll", "resolveList"}
            /\ \E pc : Moved(r, pc)
        BY <2>2, Moves DEF ResolveCollection, AfterResolve, Continue
      <3> QED BY <1>1, <3>1 DEF AddColorPc, CltLockPc, DeleteMePc
    <2>3. CASE \/ HasColor(r) \/ CommitColor(r) \/ DeleteColor(r) \/ DeleteAllColors(r)
               \/ ListColors(r)
      BY <1>2, <2>3 DEF HasColor, CommitColor, DeleteColor, DeleteAllColors, ListColors
    <2> QED BY <1>6, <2>1, <2>2, <2>3 DEF ColorStep
  <1> QED BY <1>3, <1>4, <1>5, <1>6 DEF Progress

LEMMA TiedStep == TypeOK /\ OpTied /\ [Next]_vars => OpTied'
  <1> SUFFICES ASSUME TypeOK, OpTied, [Next]_vars PROVE OpTied'
    OBVIOUS
  <1>1. rq \in [Req -> Request]
    BY DEF TypeOK
  <1>2. ASSUME NEW r \in Req, rq' = [rq EXCEPT ![r] = NoRequest] PROVE OpTied'
    BY <1>1, <1>2 DEF OpTied, NoRequest
  <1>3. CASE \E r \in Req : Receive(r)
    <2>1. PICK r \in Req : Receive(r)
      BY <1>3
    <2>2. CASE RefuseLogin(r) \/ Unauthorized(r)
      BY <1>2, <2>2 DEF RefuseLogin, Unauthorized, Reply
    <2>3. ASSUME NEW x, rq' = [rq EXCEPT ![r] = x],
                 x.op = "AddColor" => x.pc \in AddColorPc,
                 x.op = "DeleteMe" => x.pc \in DeleteMePc
          PROVE  OpTied'
      BY <1>1, <2>3 DEF OpTied
    <2>4. CASE StartSignUp(r)
      <3>1. PICK nick \in Nick : rq' = [rq EXCEPT ![r] = [NoRequest EXCEPT
                                   !.pc = "insertUser", !.op = "SignUp", !.nick = nick]]
        BY <2>4, Zenon DEF StartSignUp
      <3> DEFINE x == [NoRequest EXCEPT !.pc = "insertUser", !.op = "SignUp", !.nick = nick]
      <3>2. x.op = "SignUp"
        BY DEF NoRequest
      <3> QED BY <2>3, <3>1, <3>2
    <2>5. CASE FindUser(r)
      <3>1. PICK u \in UserID : rq' = [rq EXCEPT ![r] = [NoRequest EXCEPT
                                  !.pc = "insertToken", !.op = "Login", !.user = u]]
        BY <2>5, Zenon DEF FindUser
      <3> DEFINE x == [NoRequest EXCEPT !.pc = "insertToken", !.op = "Login", !.user = u]
      <3>2. x.op = "Login"
        BY DEF NoRequest
      <3> QED BY <2>3, <3>1, <3>2
    <2>6. ASSUME NEW op \in AuthedOp, Authenticate(r, op) PROVE OpTied'
      <3> DEFINE x(u, c, t) == [NoRequest EXCEPT !.pc = Route[op], !.op = op,
                                                 !.user = u, !.clt = c, !.tok = t]
      <3>1. ASSUME NEW u, NEW c, NEW t, rq' = [rq EXCEPT ![r] = x(u, c, t)]
            PROVE  OpTied'
        <4>1. x(u, c, t).op = op /\ x(u, c, t).pc = Route[op]
          BY DEF NoRequest
        <4>2. /\ op = "AddColor" => Route[op] \in AddColorPc
              /\ op = "DeleteMe" => Route[op] \in DeleteMePc
          BY DEF Route, AddColorPc, DeleteMePc
        <4> HIDE DEF x
        <4> QED BY <2>3, <3>1, <4>1, <4>2
      <3>2. PICK t \in Token, c \in CltID \cup {None} :
              rq' = [rq EXCEPT ![r] = x(tokens[t].user, c, IF op = "Logout" THEN t ELSE None)]
        BY <2>6, Zenon DEF Authenticate
      <3> QED BY <3>1, <3>2, Zenon
    <2> QED BY <2>1, <2>2, <2>4, <2>5, <2>6 DEF Receive
  <1>4. ASSUME NEW r \in Req, Progress(r) PROVE OpTied'
    BY <1>4, ProgressTied DEF OpTied, StaysTied
  <1>5. ASSUME NEW r \in Req, Abort(r) PROVE OpTied'
    BY <1>2, <1>5 DEF Abort, Reply
  <1>6. CASE Crash
    BY <1>6 DEF Crash, OpTied, NoRequest
  <1>7. CASE UNCHANGED vars \/ \E t \in Token : ExpireToken(t)
    BY <1>7 DEF vars, ExpireToken, OpTied
  <1> QED BY <1>3, <1>4, <1>5, <1>6, <1>7 DEF Next

LEMMA Tied == Spec => []OpTied
  <1>1. Init => OpTied
    BY DEF Init, OpTied, NoRequest
  <1> QED BY <1>1, TiedStep, TypeCorrect, PTL DEF Spec

\* Only the COMMIT of the row answers 201 to AddColor, and only the COMMIT of the
\* cascade answers 204 to DeleteMe.
LEMMA AnsweredBy ==
  ASSUME OpTied, Next, NEW r \in Req, NEW op, NEW status, Answers(r, op, status)
  PROVE  /\ op = "AddColor" /\ status = 201 => CommitColor(r)
         /\ op = "DeleteMe" /\ status = 204 => CommitDeleteUser(r)
  <1>1. rq[r].op = op /\ answer' = [req |-> r, status |-> status]
    BY DEF Answers
  <1> SUFFICES ASSUME \/ op = "AddColor" /\ status = 201
                      \/ op = "DeleteMe" /\ status = 204
               PROVE  /\ op = "AddColor" => CommitColor(r)
                      /\ op = "DeleteMe" => CommitDeleteUser(r)
    OBVIOUS
  <1>2. answer' # None
    BY <1>1, ReqAssumption DEF Answer, Status
  <1>3. ASSUME NEW q, NEW s, Reply(q, s) \/ Committed(q, s)
        PROVE  q = r /\ s = status
    <2>1. PICK x \in {s, 500} : answer' = [req |-> q, status |-> x]
      BY <1>3 DEF Reply, Committed
    <2>2. q = r /\ x = status
      BY <1>1, <2>1
    <2> QED BY <2>2
  <1>4. \E q \in Req : Progress(q)
    <2>1. ASSUME NEW q \in Req, Receive(q) PROVE FALSE
      <3>1. answer' = None \/ Reply(q, 401)
        BY <2>1, Zenon DEF Receive, StartSignUp, FindUser, RefuseLogin, Unauthorized,
                           Authenticate
      <3> QED BY <1>2, <1>3, <3>1
    <2>2. ASSUME NEW q \in Req, Abort(q) PROVE FALSE
      BY <1>1, <2>2 DEF Abort, Reply
    <2> QED BY <1>2, <2>1, <2>2 DEF Next, ExpireToken, Crash
  <1>5. PICK q \in Req : Progress(q)
    BY <1>4
  <1>6. rq[r].pc \in AddColorPc \cup DeleteMePc \/ rq[r].pc = "done"
    BY <1>1 DEF OpTied
  <1>7. CASE AuthStep(q)
    BY <1>1, <1>2, <1>3, <1>6, <1>7 DEF AuthStep, InsertToken, DeleteToken, AddColorPc,
                                        CltLockPc, DeleteMePc
  <1>8. CASE UserStep(q)
    <2>1. CASE CommitDeleteUser(q)
      BY <1>1, <1>3, <2>1 DEF CommitDeleteUser, OpTied, AddColorPc, CltLockPc
    <2>2. CASE DeleteUser(q)
      BY <1>2, <1>3, <2>2 DEF DeleteUser
    <2>3. CASE \/ InsertUser(q) \/ InsertDefault(q) \/ CommitUser(q) \/ GetMe(q)
               \/ CascadeToCollection(q) \/ ExportUser(q) \/ ExportCollections(q)
      BY <1>2, <1>3, <1>6, <2>3
      DEF InsertUser, InsertDefault, CommitUser, GetMe, CascadeToCollection, ExportUser,
          ExportCollections, Continue, AddColorPc, CltLockPc, DeleteMePc
    <2> QED BY <1>8, <2>1, <2>2, <2>3 DEF UserStep
  <1>9. CASE CollectionStep(q)
    BY <1>2, <1>3, <1>6, <1>9
    DEF CollectionStep, LockUser, CountCollections, InsertCollection, CommitCollection,
        ListCollections, GetCollection, UpdateCollection, ReadCollection, DeleteCollection,
        Continue, AddColorPc, CltLockPc, DeleteMePc
  <1>10. CASE ColorStep(q)
    <2>1. CASE CommitColor(q)
      BY <1>1, <1>3, <2>1 DEF CommitColor, OpTied, DeleteMePc
    <2>2. CASE LockCollection(q) \/ CountColors(q) \/ HasColor(q) \/ InsertColor(q)
      BY <1>2, <1>3, <2>2 DEF LockCollection, CountColors, HasColor, InsertColor, Continue
    <2>3. CASE ResolveCollection(q) \/ DeleteColor(q) \/ DeleteAllColors(q) \/ ListColors(q)
      BY <1>2, <1>3, <1>6, <2>3
      DEF ResolveCollection, AfterResolve, DeleteColor, DeleteAllColors, ListColors, Continue,
          AddColorPc, CltLockPc, DeleteMePc
    <2> QED BY <1>10, <2>1, <2>2, <2>3 DEF ColorStep
  <1> QED BY <1>5, <1>7, <1>8, <1>9, <1>10 DEF Progress

\* Of concurrent adds of one colour exactly one is answered 201: what the INSERT
\* found missing under the collection's lock is still missing at COMMIT.
THEOREM CreatedOnce == Spec => CreatedIsNew
  <1>1. IInv /\ OpTied /\ [Next]_vars =>
          [\A r \in Req :
             Answers(r, "AddColor", 201) =>
               \E hex \in Hex : /\ hex \notin colors[rq[r].clt]
                                /\ colors'[rq[r].clt] = colors[rq[r].clt] \cup {hex}]_vars
    <2> SUFFICES ASSUME IInv, OpTied, Next, NEW r \in Req, Answers(r, "AddColor", 201)
                 PROVE  \E hex \in Hex : /\ hex \notin colors[rq[r].clt]
                                         /\ colors'[rq[r].clt] = colors[rq[r].clt] \cup {hex}
      OBVIOUS
    <2>1. CommitColor(r)
      BY AnsweredBy
    <2>2. rq[r].hex \in Hex /\ rq[r].clt \in CltID /\ colors \in [CltID -> SUBSET Hex]
      BY <2>1 DEF CommitColor, IInv, TypeOK, TablesOK, FieldsOK, CltPc
    <2>3. rq[r].hex \notin colors[rq[r].clt]
      BY <2>1 DEF CommitColor, IInv, ResolvedStillTrue
    <2>4. colors' = [colors EXCEPT ![rq[r].clt] = @ \cup {rq[r].hex}]
      BY <2>1 DEF CommitColor, InsertColorRow
    <2> QED BY <2>2, <2>3, <2>4
  <1> QED BY <1>1, Invariance, Tied, PTL DEF Spec, CreatedIsNew

\* Once the deletion of an account is answered nothing of it is left: the answer
\* is given by the COMMIT of the cascade, which takes what was created meanwhile.
THEOREM DeletionIsComplete == Spec => DeletedIsGone
  <1>1. IInv /\ OpTied /\ [Next]_vars =>
          [\A r \in Req, u \in UserID :
             Answers(r, "DeleteMe", 204) /\ rq[r].user = u =>
               /\ ~UserExists(u)'
               /\ \A t \in Token : tokens'[t] # None => tokens'[t].user # u
               /\ \A c \in CltID : ~Owns(u, c)']_vars
    <2> SUFFICES ASSUME IInv, OpTied, Next, NEW r \in Req, Answers(r, "DeleteMe", 204)
                 PROVE  \A u \in UserID : rq[r].user = u =>
                          /\ ~UserExists(u)'
                          /\ \A t \in Token : tokens'[t] # None => tokens'[t].user # u
                          /\ \A c \in CltID : ~Owns(u, c)'
      OBVIOUS
    <2>1. DeleteUserRow(rq[r].user)
      BY AnsweredBy DEF CommitDeleteUser
    <2>2. TablesOK
      BY DEF IInv, TypeOK
    <2> QED BY <2>1, <2>2 DEF DeleteUserRow, TablesOK, UserExists, Owns, CltExists
  <1> QED BY <1>1, Invariance, Tied, PTL DEF Spec, DeletedIsGone

-----------------------------------------------------------------------------
(* The atomic API by itself. *)

LEMMA APIConditions ==
  /\ \A u \in UserID : API!UserExists(u) <=> UserExists(u)
  /\ \A c \in CltID : API!CltExists(c) <=> CltExists(c)
  /\ \A nick \in Nick : API!NickTaken(nick) <=> NickTaken(nick)
  /\ \A u \in UserID : API!Owned(u) = Owned(u)
  BY DEF API!UserExists, API!CltExists, API!NickTaken, API!Owned, API!Owns,
         UserExists, CltExists, NickTaken, Owned, Owns

LEMMA APIStep == TablesInv /\ [API!Next]_(API!tables) => TablesInv'
  <1> SUFFICES ASSUME TablesInv, [API!Next]_(API!tables) PROVE TablesInv'
    OBVIOUS
  <1>1. CASE API!UserNext
    <2>1. ASSUME NEW u \in UserID, API!DeleteAccount(u) PROVE TablesInv'
      <3>1. UserExists(u) /\ DeleteUserRow(u)
        BY <2>1, APIConditions DEF API!DeleteAccount, API!DeleteUserRow, DeleteUserRow,
                                   API!Owns, Owns, API!CltExists, CltExists
      <3> QED BY <3>1, DeleteUserInv
    <2>2. ASSUME NEW u \in UserID, NEW nick \in Nick, NEW c \in CltID, API!SignUp(u, nick, c)
          PROVE  TablesInv'
      <3>1. /\ ~UserExists(u) /\ ~NickTaken(nick) /\ ~CltExists(c)
            /\ InsertUserRows(u, nick, c)
        BY <2>2, APIConditions DEF API!SignUp, API!InsertUserRows, InsertUserRows
      <3> QED BY <3>1, InsertUserInv
    <2> QED BY <1>1, <2>1, <2>2 DEF API!UserNext
  <1>2. CASE API!TokenNext
    <2>1. ASSUME NEW t \in Token, API!Logout(t) \/ API!Expire(t) PROVE TablesInv'
      <3>1. DeleteTokenRow(t) \/ (TokenValid(t) /\ ExpireTokenRow(t))
        BY <2>1 DEF API!Logout, API!Expire, API!DeleteTokenRow, DeleteTokenRow,
                    API!ExpireTokenRow, ExpireTokenRow, API!TokenValid, TokenValid
      <3> QED BY <3>1, TokenRowsInv
    <2>2. ASSUME NEW t \in Token, NEW u \in UserID, API!Login(t, u) PROVE TablesInv'
      <3>1. UserExists(u) /\ InsertTokenRow(t, u)
        BY <2>2, APIConditions DEF API!Login, API!InsertTokenRow, InsertTokenRow
      <3> QED BY <3>1, TokenRowsInv
    <2> QED BY <1>2, <2>1, <2>2 DEF API!TokenNext
  <1>3. CASE API!CollectionNext
    <2>1. ASSUME NEW c \in CltID, API!DeleteCollection(c) PROVE TablesInv'
      <3>1. CltExists(c) /\ ~IsDefault(c) /\ DeleteCollectionRow(c)
        BY <2>1, APIConditions DEF API!DeleteCollection, API!DeleteCollectionRow,
           DeleteCollectionRow, API!IsDefault, IsDefault, API!CltExists, CltExists
      <3> QED BY <3>1, DeleteCollectionInv
    <2>2. ASSUME NEW c \in CltID, NEW name \in Name, API!RenameCollection(c, name)
          PROVE  TablesInv'
      <3>1. CltExists(c) /\ UpdateCollectionRow(c, name)
        BY <2>2, APIConditions DEF API!RenameCollection, API!UpdateCollectionRow,
           UpdateCollectionRow
      <3> QED BY <3>1, UpdateCollectionInv
    <2>3. ASSUME NEW c \in CltID, NEW u \in UserID, NEW name \in Name,
                 API!CreateCollection(c, u, name)
          PROVE  TablesInv'
      <3>1. /\ UserExists(u) /\ ~CltExists(c)
            /\ Cardinality(Owned(u)) < CollectionQuota
            /\ InsertCollectionRow(c, u, name)
        BY <2>3, APIConditions, SameCardinality DEF API!CreateCollection,
           API!InsertCollectionRow, InsertCollectionRow
      <3> QED BY <3>1, InsertCollectionInv
    <2> QED BY <1>3, <2>1, <2>2, <2>3 DEF API!CollectionNext
  <1>4. CASE API!ColorNext
    <2>1. ASSUME NEW c \in CltID, API!DeleteAllColors(c) PROVE TablesInv'
      <3>1. DeleteColorRows(c)
        BY <2>1 DEF API!DeleteAllColors, API!DeleteColorRows, DeleteColorRows
      <3> QED BY <3>1, ColorRowsInv
    <2>2. ASSUME NEW c \in CltID, NEW hex \in Hex, API!AddColor(c, hex) PROVE TablesInv'
      <3>1. /\ CltExists(c) /\ hex \notin colors[c]
            /\ Cardinality(colors[c]) < ColorQuota
            /\ InsertColorRow(c, hex)
        BY <2>2, APIConditions, SameCardinality DEF API!AddColor, API!InsertColorRow,
           InsertColorRow
      <3> QED BY <3>1, ColorRowsInv
    <2>3. ASSUME NEW c \in CltID, NEW hex \in Hex, API!DeleteColor(c, hex) PROVE TablesInv'
      <3>1. DeleteColorRow(c, hex)
        BY <2>3 DEF API!DeleteColor, API!DeleteColorRow, DeleteColorRow
      <3> QED BY <3>1, ColorRowsInv
    <2> QED BY <1>4, <2>1, <2>2, <2>3 DEF API!ColorNext
  <1>5. CASE UNCHANGED tables
    <2>1. TablesOK' /\ ReferentialIntegrity' /\ ColorsWithinQuota'
      BY <1>5 DEF TablesInv, TablesOK, ReferentialIntegrity, ColorsWithinQuota, tables,
                  UserExists, CltExists
    <2> QED BY <1>5, <2>1, AccountsKept DEF TablesInv, tables
  <1> QED BY <1>1, <1>2, <1>3, <1>4, <1>5 DEF API!Next, API!tables, tables

\* The conditions of the atomic operations are enough: every invariant of the
\* tables follows from them.
THEOREM APIConsistent == API!Spec => []TablesInv
  <1>1. API!EmptyTables => TablesInv
    BY EmptyTablesInv DEF EmptyTables, API!EmptyTables
  <1> QED BY <1>1, APIStep, PTL DEF API!Spec
=============================================================================
