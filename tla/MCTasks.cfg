CONSTANTS
  Nodes = {1, 2, 3}
  Founders = {1, 2}
  Entry = {2}
  Leavers = {1}
  Mortals = {1, 2}
  TaskIds = {2, 4}
  Quiet = {4}
  Futures = {4}
  Faults = {"crash", "change", "late", "add", "del"}
  MaxFaults = 1
  MaxTime = 2
  MaxLog = 3
SPECIFICATION Spec
INVARIANTS TypeOK NotOverlooked MarksEnd RunsOnce
PROPERTIES NeverEarly
CHECK_DEADLOCK FALSE
