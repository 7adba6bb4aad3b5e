SPECIFICATION FairSpec
CONSTANTS
  Starts = {0, 1, 2}
  Faults = {"link", "crash", "part"}
  MaxFaults = 1
  MaxId = 4
INVARIANTS TypeOK NoHole ReadyIsComplete
PROPERTIES CatchesUpUnlessStale
CHECK_DEADLOCK FALSE
