CONSTANTS
  Pids = {1, 2, 3}
  Gc = gc  Toggle = toggle  Reader = reader
  None = None
  MaxEntries = 2
  MaxAllocs = 3
  Env = {"oom"}
SPECIFICATION FairSpec
CHECK_DEADLOCK FALSE
INVARIANTS TypeOK CountExact NoUseAfterFree NoLeak
PROPERTY DeadCollected
