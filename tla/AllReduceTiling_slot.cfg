\* A ring buffer of 1000000 bytes (NCCL_BUFFSIZE is not a power of two) and
\* float data: sliceSize 125000 is not a multiple of THREADS = 512.
CONSTANTS
  TypeSizes = {4}
  RingCounts = {1}
  RankCounts = {2}
  BuffSizes = {1000000}
  Counts <- MC_TwoStrides
SPECIFICATION Spec
INVARIANT TilesFitSlot
CHECK_DEADLOCK FALSE
