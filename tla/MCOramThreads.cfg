SPECIFICATION Spec
CONSTANTS
  LEVELMAX = 2
  Keys = {k1}
  Vals = {v1}
  JustKeys = {}
  None = None
  ENTRYMAXNUM = 2
  VALMAXNUM = 1
  STASHMAXSIZE = 8
  RETMAXNUM = 4
  HEAPBLOCKS = 8
  MaxPairs = 2
INVARIANTS EntryFoundByBoth
CHECK_DEADLOCK FALSE
