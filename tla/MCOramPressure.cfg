SPECIFICATION Spec
CONSTANTS
  Keys = {k1, k2, k3, k4}
  Vals = {v1}
  JustKeys = {}
  None = None
  LEVELMAX = 4
  ENTRYMAXNUM = 1
  VALMAXNUM = 1
  STASHMAXSIZE = 3
  RETMAXNUM = 3
  HEAPBLOCKS = 100
  MaxPairs = 4
INVARIANTS EntryConservation StashHasRoom
PROPERTIES OverwriteOnlyAfterResize
SYMMETRY KeySymmetry
CHECK_DEADLOCK FALSE
