\* No failures: does every caller see the whole device table? (Kept to
\* reproduce CallersSeeAllDevices; the init_scores run shows the same race.)
CONSTANTS
  Threads = {t1, t2}
  NoOwner = NoOwner
  Usable <- MC_TwoHcas
  Failing = {}
  MaxIbDevs = 16
SPECIFICATION Spec
INVARIANT CallersSeeAllDevices
