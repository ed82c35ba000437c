\* No failures, one ncclIbSupport and one ncclIbDevices: does ncclIbDevices
\* write its scores inside the array it allocated?
CONSTANTS
  Threads = {t1, t2}
  NoOwner = NoOwner
  Usable <- MC_TwoHcas
  Failing = {}
  MaxIbDevs = 16
SPECIFICATION Spec
INVARIANT ScoresInBounds
