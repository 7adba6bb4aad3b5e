CONSTANTS
  Threshold = 2
  CrashAt <- Steps
  DiskFails = {"store", "rename", "archive"}
  MaxId = 6
  MaxHarmId = 4
SPECIFICATION Spec
INVARIANTS TypeOK ArchiveConsistent AnnouncedIsSafe RecoversNoHole StopLosesNothing SyncIsComplete
CHECK_DEADLOCK FALSE
