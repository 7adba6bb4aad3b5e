CONSTANTS
  Nodes = {1, 2, 3}
  Founders = {1, 2}
  Entry = {2}
  Leavers = {1, 3}
  Mortals = {1, 2}
  TaskIds = {2, 4}
  Quiet = {4}
  Futures = {}
  Faults = {}
  MaxFaults = 0
  MaxTime = 2
  MaxLog = 3
SPECIFICATION Spec
INVARIANTS ResultIsThere
CHECK_DEADLOCK FALSE
