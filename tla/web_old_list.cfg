SPECIFICATION Spec
CONSTANTS
  None = None
  Task = {t1, t2}
  Loader = {q1, q2}
  Token = {k1, k2}
  Account = {a1, a2}
  CltCount = 2
SYMMETRY Interchangeable
INVARIANT ListOfThisAccount
