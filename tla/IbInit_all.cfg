\* Three threads racing into initDevices; every call inside it may fail.
\* A failure that returns with ncclIbLock held leaves the other threads
\* blocked for good, so the system may stop.
CONSTANTS
  Threads = {t1, t2, t3}
  NoOwner = NoOwner
  Usable <- MC_TwoHcas
  Failing <- MC_AllFailures
  MaxIbDevs = 16
SYMMETRY Perms
SPECIFICATION Spec
INVARIANTS TypeOK DevicesScannedOnce
CHECK_DEADLOCK FALSE
