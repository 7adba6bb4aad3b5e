CONSTANTS
  Nodes = {1, 2, 3}
  Askers = {2}
  Fragile = {{2, 3}}
  Starting = {3}
  Busy = {2}
  BlockTime = 3
  SoonTimer = 2
  SleepBase = 1
  SleepStep = 3
SPECIFICATION FairSpec
PROPERTY ComesBack
CHECK_DEADLOCK FALSE
