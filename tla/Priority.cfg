SPECIFICATION Spec
CONSTANTS
  Users = {u1}
  Calls = {c1, c2}
  Configs <- AllConfigs
  Loads = {0, 90}
  P50s = {0, 6}
  MaxTime = 2
SYMMETRY Symmetry
INVARIANTS TypeOK WithinHull
