CONSTANTS
  op1 = op1
  op2 = op2
  op3 = op3
  Nodes = {1, 2, 3}
  Ops = {op1, op2}
  Home <- HomeApart
  Faults = {}
  Fragile = {{1, 2}, {1, 3}, {2, 3}}
  MaxId = 3
SPECIFICATION Spec
INVARIANTS OneChangePerId
CHECK_DEADLOCK FALSE
