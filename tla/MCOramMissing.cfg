SPECIFICATION Spec
CONSTANTS
  Keys = {k1, k2, k3}
  Vals = {v1}
  JustKeys = {k3}
  None = None
  LEVELMAX = 4
  ENTRYMAXNUM = 1
  VALMAXNUM = 1
  STASHMAXSIZE = 1
  RETMAXNUM = 3
  HEAPBLOCKS = 100
  MaxPairs = 3
INVARIANTS MissingOnlyIfOrphan
SYMMETRY KeySymmetry
CHECK_DEADLOCK FALSE
