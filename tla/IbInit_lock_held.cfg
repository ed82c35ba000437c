\* Failures that make initDevices return early: is ncclIbLock released? (Kept
\* to reproduce LockReleasedOnReturn; it has no run of its own.)
CONSTANTS
  Threads = {t1, t2}
  NoOwner = NoOwner
  Usable <- MC_TwoHcas
  Failing <- MC_ReturnFailures
  MaxIbDevs = 16
SPECIFICATION Spec
INVARIANT LockReleasedOnReturn
