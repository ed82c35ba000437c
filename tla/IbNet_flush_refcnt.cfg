CONSTANTS
  MaxRequests = 2
  Reqs = {0, 1, 2, 3}
  SendBufs <- MC_OneRegion
  RecvBufs <- MC_OneRegion
  RegAlign = 2
  RecvTypes = {"cuda"}
  GpuFlush = TRUE
  NMsgs = 2
  GrowBy = 4
SPECIFICATION Spec
INVARIANTS RefcntMatches
