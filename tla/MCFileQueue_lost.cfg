SPECIFICATION Spec
CONSTANTS
  Threads = {t1, t2}
  MaxFileSize = 4
  MaxPush = 3
  MaxCrashes = 1
  MaxStops = 0
  MaxFaults = 0
INVARIANTS
  RecoveredAfterCrash
