SPECIFICATION LiveSpec
CONSTANTS
  PoolThreads = {p1, p2, p3}
  Created = {p1}
  Items = {i1, i2, i3}
  ListSizeMax = 1
  NoItem = NoItem
  Tasks = {1, 2}
  Delays = {0, 1, 2}
  MaxClock = 4
  MaxSchedules = 3
  NoTask = NoTask
  ReuseRunning = FALSE
INVARIANTS TypeOK OneLeader PoolSafe TimerSafe
PROPERTIES CancelledNotStarted WorkIsDone
CHECK_DEADLOCK FALSE
