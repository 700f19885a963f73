SPECIFICATION Spec
CONSTANTS
  PoolThreads = {p1, p2}
  Created = {p1}
  Items = {i1}
  ListSizeMax = 1
  NoItem = NoItem
  Tasks = {1}
  Delays = {1, 2}
  MaxClock = 5
  MaxSchedules = 2
  NoTask = NoTask
  ReuseRunning = TRUE
PROPERTIES CancelledNotStarted
CHECK_DEADLOCK FALSE
