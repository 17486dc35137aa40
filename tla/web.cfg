SPECIFICATION Spec
CONSTANTS
  None = None
  Task = {t1, t2, t3}
  Loader = {q1, q2}
  Token = {k1}
  Account = {a1}
  CltCount = 2
SYMMETRY Interchangeable
INVARIANTS
  MoreOffWhileLoading
  ActiveInList
  OneListingShown
  GridIsSelected
