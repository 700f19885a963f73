SPECIFICATION LiveSpec
CONSTANTS
  Threads = {t1, t2}
  MaxFileSize = 2
  MaxPush = 3
  MaxCrashes = 1
  MaxStops = 1
  MaxFaults = 1
INVARIANTS
  TypeOK
  AcceptedIsKept
  HandledInOrderOnce
PROPERTIES
  QueueGoesOn
