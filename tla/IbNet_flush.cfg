CONSTANTS
  MaxRequests = 2
  Reqs = {0, 1, 2, 3}
  SendBufs <- MC_OneRegion
  RecvBufs <- MC_OneRegion
  RegAlign = 2
  RecvTypes = {"host", "cuda"}
  GpuFlush = TRUE
  NMsgs = 3
  GrowBy = 4
SPECIFICATION Spec
INVARIANTS WrAccounting FifoMatchesReceives
PROPERTIES AllMessagesComplete
