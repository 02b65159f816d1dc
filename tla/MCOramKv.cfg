SPECIFICATION Spec
CONSTANTS
  Keys = {k1, k2}
  Vals = {v1, v2}
  JustKeys = {}
  None = None
  LEVELMAX = 3
  ENTRYMAXNUM = 1
  VALMAXNUM = 2
  STASHMAXSIZE = 8
  RETMAXNUM = 3
  HEAPBLOCKS = 100
  MaxPairs = 2
PROPERTIES ImplementsKv
SYMMETRY KvSymmetry
CHECK_DEADLOCK FALSE
