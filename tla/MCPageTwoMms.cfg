CONSTANTS
  t1 = t1  t2 = t2  m1 = m1  m2 = m2
  Mms = {m1, m2}
  Addrs = {1}
  BenchKeys = {}
  Threads = {t1, t2}
  MmOf <- TwoMms
  Compressors = {c1}
  Testers = {}
  Unloader = rmmod
  Pages = {p1, p2}
  Handles = {h1, h2}
  Data = {d1}
  Junk = Junk  Free = Free  None = None
  MaxPool = 0
  ZapCap = 2
  Env = {}
SPECIFICATION Spec
CHECK_DEADLOCK FALSE
INVARIANTS EntryPerMm
