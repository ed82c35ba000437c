CONSTANTS
  MaxRequests = 2
  Reqs = {0, 1, 2, 3}
  SendBufs <- MC_OneRegion
  RecvBufs <- MC_Overlapping
  RegAlign = 2
  RecvTypes = {"host"}
  GpuFlush = FALSE
  NMsgs = 2
  GrowBy = 4
SPECIFICATION Spec
INVARIANTS MrRegisteredWhileOutstanding
