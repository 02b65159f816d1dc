SPECIFICATION SpecR
CONSTANTS
  Keys = {k1, k2}
  Vals = {v1}
  JustKeys = {}
  None = None
  LEVELMAX = 3
  ENTRYMAXNUM = 1
  VALMAXNUM = 2
  STASHMAXSIZE = 8
  RETMAXNUM = 3
  HEAPBLOCKS = 100
  MaxPairs = 3
INVARIANTS TypeOK LostConservation PathInvariant FlagsAreLeaves GroupsFillInOrder LoadFactor FreshTree MissingOnlyIfLost
SYMMETRY KeySymmetry
CHECK_DEADLOCK FALSE
