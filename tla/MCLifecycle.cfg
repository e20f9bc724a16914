CONSTANTS
  Pages = {p1}
  Threads = {t1, t2}
  NumCpus = 2
  MaxGone = 1
  MaxLoads = 2
  Env = {"reclaim", "locked", "unhooked", "oom", "bad", "nopte"}
SPECIFICATION Spec
SYMMETRY Symmetry
INVARIANTS TypeOK OnlyLeaksRemain NoUseAfterTeardown NoDataLost
PROPERTY SigbusOnlyToLosers
CHECK_DEADLOCK FALSE
