SPECIFICATION Spec
CONSTANTS
  Keys = {k1, k2}
  Vals = {v1}
  JustKeys = {}
  None = None
  LEVELMAX = 5
  ENTRYMAXNUM = 1
  VALMAXNUM = 1
  STASHMAXSIZE = 8
  RETMAXNUM = 9
  HEAPBLOCKS = 4
  MaxPairs = 5
INVARIANTS WritesFindHeap
CHECK_DEADLOCK FALSE
