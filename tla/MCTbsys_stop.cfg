SPECIFICATION LiveSpec
CONSTANTS
  MonThreads = {m1}
  MaxDepth = 2
  MaxNotify = 2
  Users = {u1}
  RwThreads = {r1}
  MaxGuards = 2
  Launches = {l1, l2}
  CommandLines <- Arguments
  MaxSignals = 1
  Pool = {w1}
  Written = {d1}
  LogThreads = {g1}
  Settings <- LogSettings
  MaxLines = 1
  MaxSeconds = 1
  MaxFd = 5
  ConfigFiles <- Files
  MaxLoads = 1
  MaxEntries = 2
  MaxTime = 2
  MaxSets = 1
  Values <- BufferValues
  Junk = {2}
  MaxSize = 1
  MaxLive = 1
  Bytes = {32, 37, 43, 44, 50, 66, 97, 200}
  MaxLen = 1
  MaxPath = 1
  MaxRoom = 2
  Makers = {d1}
  Orders <- DirOrders
  Trees <- DirTrees
  Pids <- PidNumbers
PROPERTY StopStops
CHECK_DEADLOCK FALSE
