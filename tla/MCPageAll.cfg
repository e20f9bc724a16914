CONSTANTS
  t1 = t1  t2 = t2  m1 = m1  m2 = m2
  Mms = {m1}
  Addrs = {1}
  BenchKeys = {}
  Threads = {t1, t2}
  MmOf <- Shared
  Compressors = {c1, c2}
  Testers = {}
  Unloader = rmmod
  Pages = {p1, p2, p3}
  Handles = {h1, h2}
  Data = {d1}
  Junk = Junk  Free = Free  None = None
  MaxPool = 1
  ZapCap = 2
  Env = {"async", "discard", "exit", "pressure", "unload", "nolock", "stock"}
SPECIFICATION Spec
SYMMETRY Symmetry
CHECK_DEADLOCK FALSE
INVARIANTS TypeOK RssExact RefsCoverUsers
