CONSTANTS
  op1 = op1
  op2 = op2
  op3 = op3
  Nodes = {1, 2, 3}
  Ops = {op1, op2}
  Home <- HomeApart
  Faults = {"kill", "gap"}
  Fragile = {{1, 2}, {2, 3}}
  MaxId = 3
SPECIFICATION Spec
INVARIANTS IdsInOrder OneIdPerChange NoDoubleVote RepliesAreTrue
CHECK_DEADLOCK FALSE
