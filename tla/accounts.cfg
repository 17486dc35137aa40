SPECIFICATION Spec
CONSTANTS
  None = None
  UserID = {u1, u2}
  CltID = {c1, c2, c3}
  Token = {t1, t2}
  Nick = {n1, n2}
  Name = {main, other}
  MainName = main
  Hex = {h1}
  Req = {r1, r2}
  ColorQuota = 1
  CollectionQuota = 2
  Enabled = {"SignUp", "Login", "DeleteMe", "Export", "ListCollections",
             "CreateCollection", "UpdateCollection", "DeleteCollection",
             "AddColor", "DeleteColor", "DeleteAllColors"}
SYMMETRY Identifiers
INVARIANTS
  NicknamesUnique
  OneDefaultCollection
  ReferentialIntegrity
  CollectionsWithinQuota
PROPERTIES
  OnlyTheOwnerWrites
  DeletedIsGone
  DefaultKept
