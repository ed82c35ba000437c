CONSTANTS
  TypeSizes = {1, 2, 4, 8}
  RingCounts = {1, 2, 3, 4}
  RankCounts = {1, 2, 3, 4}
  BuffSizes = {4194304, 1048576, 1000000}
  GlobalMem = {TRUE, FALSE}
  ReduceCounts <- MC_ReduceCounts
  TileCounts <- MC_TileCounts
SPECIFICATION Spec
INVARIANTS ChunksCoverCount RingBuffersFit
CHECK_DEADLOCK FALSE
