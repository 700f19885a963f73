SPECIFICATION LiveSpec
CONSTANTS
  ConnectTimeout = 1
  MaxTcpClock = 3
  MaxPacket = 4
  Unknown = {4}
  Unencodable = {3}
  InitialSize = 1
  ShrinkSize = 2
  ReadWriteSize = 3
  NetSize = 3
  MaxReads = 1
  BatchSize = 2
  MaxBreaks = 1
  ClusterSize = 3
  MaxClusters = 1
  IdSpace = 4
  Callers = {t1, t2}
  ServerIds = {s1, s2}
  Conns = {c1, c2, c3}
  QueuedPackets = {1, 2, 3}
  Requests <- HttpRequests
  MaxRequests = 2
  MaxPiece = 3
  HeaderNames = {"Connection", "Content-Type", "X"}
  MaxHeaders = 2
INVARIANTS TypeOK TcpSafe StreamSafe RequestsAreCut ListsSafe ManagerSafe
PROPERTIES BrokenIsClosed QueueIsSequence
CHECK_DEADLOCK FALSE
