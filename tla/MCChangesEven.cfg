CONSTANTS
  op1 = op1
  op2 = op2
  op3 = op3
  Nodes = {1, 2, 3, 4}
  Ops = {op1, op2}
  Home <- HomeApart
  Faults = {}
  Fragile = {}
  MaxId = 4
SPECIFICATION Spec
INVARIANT OneChangePerId
PROPERTY ImplementsLog
CHECK_DEADLOCK FALSE
