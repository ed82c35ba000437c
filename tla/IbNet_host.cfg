CONSTANTS
  MaxRequests = 2
  Reqs = {0, 1, 2, 3}
  SendBufs <- MC_OneRegion
  RecvBufs <- MC_TwoRegions
  RegAlign = 2
  RecvTypes = {"host"}
  GpuFlush = FALSE
  NMsgs = 3
  GrowBy = 4   \* larger than the scaled 32: the pool grows once, from 0
SPECIFICATION Spec
INVARIANTS TypeOK WrAccounting FifoMatchesReceives QpsReadyForTraffic RefcntMatches HeldRequestsLive MrRegisteredWhileOutstanding CloseFindsIdle
PROPERTIES AllMessagesComplete
