CONSTANTS
  t1 = t1  t2 = t2  m1 = m1  m2 = m2
  Mms = {m1}
  Addrs = {1, 2}
  BenchKeys = {9}
  Threads = {t1}
  MmOf <- OneMm
  Compressors = {c1}
  Testers = {x1}
  Unloader = rmmod
  Pages = {p1, p2, p3}
  Handles = {h1, h2, h3}
  Data = {d1, d2}
  Junk = Junk  Free = Free  None = None
  MaxPool = 1
  ZapCap = 2
  Env = {"discard", "exit", "stock"}
SPECIFICATION Spec
SYMMETRY PoolSymmetry
CHECK_DEADLOCK FALSE
INVARIANTS Lossless
