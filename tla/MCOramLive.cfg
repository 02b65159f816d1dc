SPECIFICATION FairSpec
CONSTANTS
  Keys = {k1}
  Vals = {v1}
  JustKeys = {}
  None = None
  LEVELMAX = 4
  ENTRYMAXNUM = 1
  VALMAXNUM = 2
  STASHMAXSIZE = 3
  RETMAXNUM = 6
  HEAPBLOCKS = 100
  MaxPairs = 3
INVARIANTS EntryFound GroupsFillInOrder
PROPERTIES CallsEnd RunawayGrowth
CHECK_DEADLOCK FALSE
