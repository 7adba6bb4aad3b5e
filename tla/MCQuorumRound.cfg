CONSTANTS
  N = 6
  MinReachable = 3
SPECIFICATION Spec
INVARIANTS TypeOK FreedWhenIdle CalledOnce WinIsJustified
PROPERTIES LoseIsHopeless Decided
CHECK_DEADLOCK FALSE
