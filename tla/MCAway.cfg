CONSTANTS
  Nodes = {1, 2, 3}
  Askers = {1, 2, 3}
  Fragile = {}
  Starting = {}
  Busy = {}
  BlockTime = 3
  SoonTimer = 2
  SleepBase = 1
  SleepStep = 4
SPECIFICATION Spec
INVARIANTS TypeOK SomeNodeReady
CHECK_DEADLOCK FALSE
