\* Counts within INT_MAX of a chunk's worth of the largest int.
CONSTANTS
  TypeSizes = {4}
  RingCounts = {1}
  BuffSizes = {4194304}
  GlobalMem = {FALSE}
  Counts <- MC_LargeCounts
SPECIFICATION Spec
INVARIANT ChunksCoverCount
CHECK_DEADLOCK FALSE
