CONSTANTS
  s1 = s1  c1 = c1
  Mms = {m1}
  Scanners <- MCScanners
  Writers <- MCWriters
  Work = Work  DWork = DWork
  Workers <- MCWorkers
  Unloader = rmmod
  None = None
  MaxUsers = 5
  MaxRegs = 2
  Env = {"unload", "late"}
SPECIFICATION FairSpec
CHECK_DEADLOCK FALSE
INVARIANTS TypeOK UsersCover NoDanglingOps
PROPERTY Registered
