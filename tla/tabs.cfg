SPECIFICATION Spec
CONSTANTS
  None = None
  Edit = {E1, E2, E3}
  MaxId = 3
  MaxVer = 1
INVARIANTS
  ActiveIsATab
  TabsSettle
  EditIsOfActive
SYMMETRY MCSymmetry
