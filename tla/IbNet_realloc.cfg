\* The pool step scaled like MAX_REQUESTS (32 of 64 -> 1 of 2): does a request
\* in use survive ncclIbGetRequest growing the pool a second time?
CONSTANTS
  MaxRequests = 2
  Reqs = {0, 1, 2, 3}
  SendBufs <- MC_OneRegion
  RecvBufs <- MC_TwoRegions
  RegAlign = 2
  RecvTypes = {"host"}
  GpuFlush = FALSE
  NMsgs = 3
  GrowBy = 1
SPECIFICATION Spec
INVARIANTS HeldRequestsLive
