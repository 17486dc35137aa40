SPECIFICATION Spec
CONSTANTS
  None = None
  Task = {t1, t2}
  Loader = {q1}
  Token = {k1}
  Account = {a1}
  CltCount = 2
SYMMETRY Interchangeable
INVARIANT DeletesWhatIsShown
