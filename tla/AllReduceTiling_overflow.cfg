\* Counts at the top of the int range: does the gridOffset loop cover the
\* data once and end?
CONSTANTS
  TypeSizes = {1}
  RingCounts = {1}
  RankCounts = {2}
  BuffSizes = {4194304}
  Counts <- MC_LargeCounts
SPECIFICATION Spec
INVARIANT TilesCoverData
CHECK_DEADLOCK FALSE
