CONSTANTS
  Calls = {c1, c2}
  N = 2
SPECIFICATION FairSpec
INVARIANTS TypeOK RemainingExact NoLostWakeup ItemsPinned NoWorkAfterExit
PROPERTY CallsReturn
