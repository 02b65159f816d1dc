SPECIFICATION Spec
CONSTANTS
  LEVELMAX = 3
  Entries = {e1, e2}
  Nowhere = Nowhere
  LEVEL = 3
  TreeLevels = {2, 4}
  StartCounts <- MCStartCounts
  EntryNum = 2
  MaxEntries = 1
  MaxStack = 4
SYMMETRY EntrySymmetry
INVARIANTS PlacedDeepest LeftOnlyIfNoBlock DroppedOnlyIfFull
CHECK_DEADLOCK FALSE
