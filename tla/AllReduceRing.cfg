\* Four ranks, two gridOffset iterations, two consecutive calls, the code's
\* NUM_SUBSTEPS = NUM_BUFCHUNKS = 2, two adjacent direct edges.
CONSTANTS
  N = 4
  NIter = 2
  MaxOps = 2
  Direct <- MC_MixedDirect
  NumSubsteps = 2
  NumBufChunks = 2
SPECIFICATION Spec
INVARIANTS TypeOK AllReduceCorrect NoMixedData DoneNeverAheadOfReady OutputOnlyFinal DirectPointerCurrent
PROPERTIES AllCallsComplete ImplementsCalls
