SPECIFICATION ReadingPeerSpec
CONSTANTS
  Requests = {r1, r2}
  NonBlocking = {r1}
  QueueLimit = 1
  ReconnectLimit = 0
INVARIANTS
  TypeOK
  NothingForgotten
PROPERTIES
  AnsweredExactlyOnce
  BlockedReturns
CHECK_DEADLOCK FALSE
