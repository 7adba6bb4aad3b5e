CONSTANTS
  Futures = {1, 2}
  Pids = 1
  TooManyRestarts = 1
  MaxOps = 4
SPECIFICATION FairSpec
INVARIANTS TypeOK OneResult NoOrphans StatusIsTrue FreedAtRest
PROPERTIES Released RestartEnds
CHECK_DEADLOCK FALSE
