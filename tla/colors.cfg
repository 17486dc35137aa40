SPECIFICATION FairSpec
CONSTANTS
  None = None
  UserID = {u1}
  CltID = {c1, c2}
  Token = {t1}
  Nick = {n1}
  Name = {main}
  MainName = main
  Hex = {h1, h2, h3}
  Req = {r1, r2}
  ColorQuota = 2
  CollectionQuota = 2
  Enabled = {"SignUp", "Login", "Logout", "GetMe", "DeleteMe", "CreateCollection",
             "GetCollection", "DeleteCollection", "AddColor", "DeleteColor",
             "DeleteAllColors", "ListColors"}
INVARIANTS
  ColorsWithinQuota
  RoomLeft
  LocksHeld
PROPERTIES
  CreatedIsNew
  ImplementsAPI
  EveryRequestAnswered
