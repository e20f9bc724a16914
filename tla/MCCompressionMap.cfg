CONSTANTS
  Threads = {t1, t2, t3}
  NumKeys = 2
  Objs = {o1, o2, o3}
  MaxDrain = 2
  None = None
SPECIFICATION Spec
SYMMETRY Symmetry
INVARIANTS TypeOK SlotsSound LockedReadSafe EntriesCounted
PROPERTY ImplementsAtomicMap
