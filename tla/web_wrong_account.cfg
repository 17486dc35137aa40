SPECIFICATION Spec
CONSTANTS
  None = None
  Task = {t1, t2}
  Loader = {q1}
  Token = {k1, k2}
  Account = {a1, a2}
  CltCount = 1
SYMMETRY Interchangeable
PROPERTY DeletesNamedAccount
