\* Three threads, inputs below, at and across multiples of the window.
CONSTANTS
  B = 3
  Inputs <- MC_Inputs
SPECIFICATION Spec
INVARIANTS TypeOK CrcMatchesReference TableReadyWhenRead KernelCrcMatchesHost
