SPECIFICATION Spec
CONSTANTS
  Keys = {k1, k2}
  Vals = {v1}
  JustKeys = {k1, k2}
  None = None
  LEVELMAX = 2
  ENTRYMAXNUM = 1
  VALMAXNUM = 2
  STASHMAXSIZE = 3
  RETMAXNUM = 2
  HEAPBLOCKS = 100
  MaxPairs = 3
  INTBITS = 3


SYMMETRY KeySymmetry
CHECK_DEADLOCK FALSE
INVARIANT ReadsLatest
