SPECIFICATION LiveSpec
CONSTANTS
  MonThreads = {m1, m2, m3}
  MaxDepth = 2
  MaxNotify = 2
  Users = {u1, u2}
  RwThreads = {r1, r2}
  MaxGuards = 2
  Launches = {l1, l2}
  CommandLines <- Arguments
  MaxSignals = 1
  Pool = {w1, w2}
  Written = {d1, d2, d3}
  LogThreads = {g1, g2}
  Settings <- LogSettings
  MaxLines = 3
  MaxSeconds = 3
  MaxFd = 4
  ConfigFiles <- Files
  MaxLoads = 2
  MaxEntries = 3
  MaxTime = 3
  MaxSets = 1
  Values <- BufferValues
  Junk = {2}
  MaxSize = 4
  MaxLive = 2
  Bytes = {32, 37, 43, 44, 50, 66, 97, 200}
  MaxLen = 4
  MaxPath = 6
  MaxRoom = 5
  Makers = {d1, d2}
  Orders <- DirOrders
  Trees <- DirTrees
  Pids <- PidNumbers
INVARIANTS TypeOK LocksSafe SharedSafe ServiceSafe QueueThreadSafe  ProfilerSafe ProgramSafe
PROPERTIES ShutdownEnds QueueIsServed
CHECK_DEADLOCK FALSE
