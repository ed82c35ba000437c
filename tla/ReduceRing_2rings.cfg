CONSTANTS
  Ranks <- MC_Ranks
  RingNext <- MC_RingNext
  NRings = 2
  NumChunks = 3
  NumSubchunks = 2
  MaxOps = 2
  RootChoices <- MC_ChangingRoot
SPECIFICATION Spec
INVARIANTS TypeOK ReduceResultCorrect OutputCompleteOnReturn
PROPERTIES AllCallsComplete
