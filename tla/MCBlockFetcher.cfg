SPECIFICATION Spec
CONSTANTS
  Txs <- ThreeBlocks
  NaN = NaN
  MaxHeight = 3
  MaxRuns = 2
INVARIANTS TypeOK GapsAccounted EachOncePerRun HeightAskedOnce
PROPERTIES RunEnds
CHECK_DEADLOCK FALSE
