CONSTANTS
  op1 = op1
  op2 = op2
  op3 = op3
  Nodes = {1, 2, 3}
  Ops = {op1, op2}
  Home <- HomeApart
  Faults = {}
  Fragile = {}
  MaxId = 5
SPECIFICATION FairSpec
INVARIANT TypeOK
PROPERTIES Answered Converges
CHECK_DEADLOCK FALSE
