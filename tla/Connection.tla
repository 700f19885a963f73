----------------------------- MODULE Connection -----------------------------
(***************************************************************************)
(* tbnet::Connection and TCPConnection on the client side: the way of a    *)
(* packet from postPacket through the output queue, the socket and the     *)
(* channel pool to its handler, for an auto-reconnect connection.          *)
(*                                                                         *)
(* Three kinds of threads meet here. Posting threads push on _outputQueue  *)
(* and may wait on _outputCond; the read/write thread writes, reads and    *)
(* closes; the timeout thread answers what is late. A request is known by  *)
(* its channel: each post takes a channel id that no other request in the  *)
(* pool has (the counter behind the ids is left out). Every action is one  *)
(* critical section of _outputCond or of the pool's mutex.                 *)
(***************************************************************************)
EXTENDS Naturals, Sequences, FiniteSets

CONSTANTS
  Requests,       \* one call of postPacket each, by a thread of its own
  NonBlocking,    \* the requests posted with noblocking = true
  QueueLimit,     \* _queueLimit
  ReconnectLimit  \* a closed connection with more packets queued refuses (10)

ASSUME ConnectionAssumption ==
  /\ NonBlocking \subseteq Requests
  /\ QueueLimit \in Nat \ {0}
  /\ ReconnectLimit \in Nat

Threads == {"rw", "timeout"}

VARIABLES
  conn,         \* _state of the component
  writeOn,      \* EPOLLOUT is asked for
  outputQueue, myQueue,   \* _outputQueue, _myQueue
  outbuf,       \* encoded in _output, not yet written
  wire,         \* requests the server has and will answer
  replies,      \* replies that can be read from the socket
  useList,      \* the pool's _useList, oldest first
  useMap,       \* the requests whose id is in _useMap
  armed,        \* channels given their expire time by setExpireTime
  late,         \* requests whose expire time has passed
  queueTotal,   \* _queueTotalSize
  pc,           \* per request: its postPacket
  woken,        \* waiting posters that a broadcast has woken
  rwPc, queueSize, offered,    \* locals of the read/write thread
  ctPc, ctList, ctPackets,     \* locals of checkTimeout, per thread
  calls         \* how often a request's handler was called

queues   == <<outputQueue, myQueue>>
pool     == <<useList, useMap, armed>>
wireVars == <<wire, replies>>
posters  == <<pc, woken>>
rwVars   == <<rwPc, queueSize, offered>>
ctVars   == <<ctPc, ctList, ctPackets>>
vars == <<conn, writeOn, queues, outbuf, wireVars, pool, late, queueTotal,
          posters, rwVars, ctVars, calls>>

TypeOK ==
  /\ conn \in {"CONNECTING", "CONNECTED", "CLOSED"}
  /\ writeOn \in BOOLEAN
  /\ outputQueue \in Seq(Requests) /\ myQueue \in Seq(Requests)
  /\ outbuf \in Seq(Requests)
  /\ wire \subseteq Requests /\ replies \subseteq Requests
  /\ useList \in Seq(Requests) /\ useMap \subseteq Requests
  /\ armed \subseteq Requests /\ late \subseteq Requests
  /\ queueTotal \in 0..(2 * Cardinality(Requests))
  /\ pc \in [Requests -> {"idle", "limit", "alloc", "push", "count", "waiting",
                          "accepted", "refused"}]
  /\ woken \subseteq Requests
  /\ rwPc \in {"idle", "write", "writeEnd", "writeNotify", "callback", "closing"}
  /\ queueSize \in Nat
  /\ offered \subseteq Requests
  /\ ctPc \in [Threads -> {"idle", "channels", "callChannels", "packets",
                           "callPackets", "notify", "done"}]
  /\ ctList \in [Threads -> Seq(Requests)]
  /\ ctPackets \in [Threads -> Seq(Requests)]
  /\ calls \in [Requests -> Nat]

Init ==
  /\ conn = "CONNECTED" /\ writeOn = TRUE
  /\ outputQueue = <<>> /\ myQueue = <<>> /\ outbuf = <<>>
  /\ wire = {} /\ replies = {}
  /\ useList = <<>> /\ useMap = {} /\ armed = {} /\ late = {}
  /\ queueTotal = 0
  /\ pc = [r \in Requests |-> "idle"] /\ woken = {}
  /\ rwPc = "idle" /\ queueSize = 0 /\ offered = {}
  /\ ctPc = [t \in Threads |-> IF t = "rw" THEN "idle" ELSE "channels"]
  /\ ctList = [t \in Threads |-> <<>>]
  /\ ctPackets = [t \in Threads |-> <<>>]
  /\ calls = [r \in Requests |-> 0]

-----------------------------------------------------------------------------

elements(s) == {s[i] : i \in 1..Len(s)}

\* The longest prefix of s that lies in S.
prefixIn(s, S) ==
  LET n == CHOOSE k \in 0..Len(s) :
             /\ \A i \in 1..k : s[i] \in S
             /\ k = Len(s) \/ s[k + 1] \notin S
  IN SubSeq(s, 1, n)

without(s, p) == SubSeq(s, Len(p) + 1, Len(s))

\* s without r, which is in it once at most.
unlink(s, r) ==
  LET n == CHOOSE i \in 1..Len(s) : s[i] = r
  IN IF r \in elements(s) THEN SubSeq(s, 1, n - 1) \o SubSeq(s, n + 1, Len(s)) ELSE s

isConnectState == conn \in {"CONNECTED", "CONNECTING"}

\* Seeded fault: += for =.
recountAdds(size) == queueTotal' = queueTotal + size + Cardinality(useMap)
\* Seeded fault: the total never falls.
recountHigh(size) ==
  LET total == size + Cardinality(useMap)
  IN queueTotal' = IF total > queueTotal THEN total ELSE queueTotal
\* _queueTotalSize = size + _channelPool.getUseListCount()
recount(size) == queueTotal' = size + Cardinality(useMap)

waitingPosters == {r \in Requests : pc[r] = "waiting"}

\* Called with the mutex of _outputCond: broadcast if there is room again.
notifyPosters(size) ==
  IF queueTotal > QueueLimit
    THEN /\ recount(size)
         /\ woken' = IF queueTotal' <= QueueLimit
                       THEN woken \cup waitingPosters ELSE woken
    ELSE UNCHANGED <<queueTotal, woken>>

callHandler(r) == calls' = [calls EXCEPT ![r] = @ + 1]

-----------------------------------------------------------------------------
(* postPacket *)

goto(r, label) == pc' = [pc EXCEPT ![r] = label]

\* The connection is up, or init() is called to connect again, which returns true
\* even if the connect is refused at once: the packet waits for the next one.
postConnect(r) ==
  /\ pc[r] = "idle"
  /\ \/ /\ isConnectState
        /\ goto(r, "limit")
        /\ UNCHANGED <<conn, writeOn>>
     \/ /\ ~isConnectState /\ Len(outputQueue) > ReconnectLimit
        /\ goto(r, "refused")
        /\ UNCHANGED <<conn, writeOn>>
     \/ /\ ~isConnectState /\ Len(outputQueue) <= ReconnectLimit
        /\ goto(r, "limit")
        /\ \/ conn' \in {"CONNECTED", "CONNECTING"} /\ writeOn' = TRUE
           \/ UNCHANGED <<conn, writeOn>>
  /\ UNCHANGED <<queues, outbuf, wireVars, pool, late, queueTotal, woken,
                 rwVars, ctVars, calls>>

postLimit(r) ==
  /\ pc[r] = "limit"
  /\ recount(Len(outputQueue) + Len(myQueue))
  /\ goto(r, IF r \in NonBlocking /\ queueTotal' >= QueueLimit
               THEN "refused" ELSE "alloc")
  /\ UNCHANGED <<conn, writeOn, queues, outbuf, wireVars, pool, late, woken,
                 rwVars, ctVars, calls>>

\* Seeded fault: a new channel starts with its packet's expire time.
unarmedNot(r) == armed' = armed \cup {r}
\* _expireTime = TBNET_MAX_TIME + 1: not even disconnect() times it out.
unarmed(r) == UNCHANGED armed

\* allocChannel: at the end of the use list, in the map.
postAlloc(r) ==
  /\ pc[r] = "alloc"
  /\ useList' = Append(useList, r)
  /\ useMap' = useMap \cup {r}
  /\ unarmed(r)
  /\ goto(r, "push")
  /\ UNCHANGED <<conn, writeOn, queues, outbuf, wireVars, late, queueTotal,
                 woken, rwVars, ctVars, calls>>

asksToWrite == Len(outputQueue') = 1

postPush(r) ==
  /\ pc[r] = "push"
  /\ outputQueue' = Append(outputQueue, r)
  /\ writeOn' = (writeOn \/ asksToWrite)
  /\ goto(r, "count")
  /\ UNCHANGED <<conn, myQueue, outbuf, wireVars, pool, late, queueTotal, woken,
                 rwVars, ctVars, calls>>

postCount(r) ==
  /\ pc[r] = "count"
  /\ recount(Len(outputQueue) + Len(myQueue))
  /\ goto(r, IF r \notin NonBlocking /\ queueTotal' > QueueLimit
               THEN "waiting" ELSE "accepted")
  /\ UNCHANGED <<conn, writeOn, queues, outbuf, wireVars, pool, late, woken,
                 rwVars, ctVars, calls>>

\* wait(1000) returns true: a broadcast came.
waitSignalled(r) ==
  /\ pc[r] = "waiting" /\ r \in woken
  /\ woken' = woken \ {r}
  /\ goto(r, IF queueTotal > QueueLimit THEN "waiting" ELSE "accepted")
  /\ UNCHANGED <<conn, writeOn, queues, outbuf, wireVars, pool, late,
                 queueTotal, rwVars, ctVars, calls>>

\* wait(1000) returns false: a second has gone by.
waitTimedOut(r) ==
  /\ pc[r] = "waiting" /\ r \notin woken
  /\ IF isConnectState
       THEN /\ recount(Len(outputQueue) + Len(myQueue))
            /\ goto(r, IF queueTotal' > QueueLimit THEN "waiting" ELSE "accepted")
       ELSE /\ goto(r, "accepted")
            /\ UNCHANGED queueTotal
  /\ UNCHANGED <<conn, writeOn, queues, outbuf, wireVars, pool, late, woken,
                 rwVars, ctVars, calls>>

-----------------------------------------------------------------------------
(* checkTimeout: the timeout thread's, with the time it is, and the one of  *)
(* disconnect() in the read/write thread, with TBNET_MAX_TIME               *)

expiredFor(t) == IF t = "rw" THEN Requests ELSE late

ctGoto(t, label) == ctPc' = [ctPc EXCEPT ![t] = label]

\* Seeded fault: channels that time out stay in the map.
unmapNot(list) == UNCHANGED useMap
unmap(list) == useMap' = useMap \ elements(list)

\* getTimeoutList of the pool: the prefix of the use list that has expired.
takeChannels(t) ==
  /\ ctPc[t] = "channels"
  /\ LET list == prefixIn(useList, armed \cap expiredFor(t))
     IN /\ ctList' = [ctList EXCEPT ![t] = list]
        /\ useList' = without(useList, list)
        /\ unmap(list)
        /\ ctGoto(t, IF list = <<>> THEN "packets" ELSE "callChannels")
  /\ UNCHANGED <<conn, writeOn, queues, outbuf, wireVars, armed, late,
                 queueTotal, posters, rwVars, ctPackets, calls>>

\* A handler gets the TimeoutPacket; after the last one appendFreeList.
callChannel(t) ==
  /\ ctPc[t] = "callChannels"
  /\ callHandler(Head(ctList[t]))
  /\ ctList' = [ctList EXCEPT ![t] = Tail(@)]
  /\ ctGoto(t, IF ctList'[t] = <<>> THEN "packets" ELSE "callChannels")
  /\ UNCHANGED <<conn, writeOn, queues, outbuf, wireVars, pool, late,
                 queueTotal, posters, rwVars, ctPackets>>

\* getTimeoutList of the output queue, under _outputCond.
takePackets(t) ==
  /\ ctPc[t] = "packets"
  /\ LET list == prefixIn(outputQueue, expiredFor(t))
     IN /\ ctPackets' = [ctPackets EXCEPT ![t] = list]
        /\ outputQueue' = without(outputQueue, list)
        /\ ctGoto(t, IF list = <<>> THEN "notify" ELSE "callPackets")
  /\ UNCHANGED <<conn, writeOn, myQueue, outbuf, wireVars, pool, late,
                 queueTotal, posters, rwVars, ctList, calls>>

\* freeChannel finds the channel by its id, and takes it off the use list.
freeChannel(r) ==
  /\ useMap' = useMap \ {r}
  /\ useList' = IF r \in useMap THEN unlink(useList, r) ELSE useList
  /\ UNCHANGED armed

callPacket(t) ==
  /\ ctPc[t] = "callPackets"
  /\ callHandler(Head(ctPackets[t]))
  /\ freeChannel(Head(ctPackets[t]))
  /\ ctPackets' = [ctPackets EXCEPT ![t] = Tail(@)]
  /\ ctGoto(t, IF ctPackets'[t] = <<>> THEN "notify" ELSE "callPackets")
  /\ UNCHANGED <<conn, writeOn, queues, outbuf, wireVars, late, queueTotal,
                 posters, rwVars, ctList>>

checkNotify(t) ==
  /\ ctPc[t] = "notify"
  /\ notifyPosters(Len(outputQueue) + Len(myQueue))
  /\ ctGoto(t, IF t = "rw" THEN "done" ELSE "channels")
  /\ UNCHANGED <<conn, writeOn, queues, outbuf, wireVars, pool, late, pc,
                 rwVars, ctList, ctPackets, calls>>

-----------------------------------------------------------------------------
(* The read/write thread *)

\* writeData: move the output queue to _myQueue, or stop asking to write.
writeMove ==
  /\ rwPc = "idle" /\ conn = "CONNECTED" /\ writeOn
  /\ myQueue' = myQueue \o outputQueue
  /\ outputQueue' = <<>>
  /\ IF myQueue' = <<>> /\ outbuf = <<>>
       THEN writeOn' = FALSE /\ UNCHANGED rwPc
       ELSE rwPc' = "write" /\ UNCHANGED writeOn
  /\ UNCHANGED <<conn, outbuf, wireVars, pool, late, queueTotal, posters,
                 queueSize, offered, ctVars, calls>>

\* encode and setExpireTime of one packet.
encode ==
  /\ rwPc = "write" /\ myQueue # <<>>
  /\ outbuf' = Append(outbuf, Head(myQueue))
  /\ armed' = armed \cup {Head(myQueue)}
  /\ myQueue' = Tail(myQueue)
  /\ UNCHANGED <<conn, writeOn, outputQueue, wireVars, useList, useMap, late,
                 queueTotal, posters, rwVars, ctVars, calls>>

\* One _socket->write: all of the buffer, or only a part (or an error).
writeSocket ==
  /\ rwPc = "write" /\ (outbuf # <<>> \/ myQueue = <<>>)
  /\ \E n \in 0..Len(outbuf) :
       /\ wire' = wire \cup elements(SubSeq(outbuf, 1, n))
       /\ outbuf' = SubSeq(outbuf, n + 1, Len(outbuf))
  /\ \/ outbuf' = <<>> /\ myQueue # <<>> /\ UNCHANGED rwPc
     \/ rwPc' = "writeEnd"
  /\ UNCHANGED <<conn, writeOn, queues, replies, pool, late, queueTotal,
                 posters, queueSize, offered, ctVars, calls>>

\* Seeded fault: what was queued during the write is not looked at.
leftToWriteMine == Len(myQueue) + (IF outbuf = <<>> THEN 0 ELSE 1)
leftToWrite == Len(outputQueue) + Len(myQueue) + (IF outbuf = <<>> THEN 0 ELSE 1)

writeEnd ==
  /\ rwPc = "writeEnd"
  /\ queueSize' = leftToWrite
  /\ writeOn' = (writeOn /\ queueSize' # 0)
  /\ rwPc' = "writeNotify"
  /\ UNCHANGED <<conn, queues, outbuf, wireVars, pool, late, queueTotal,
                 posters, offered, ctVars, calls>>

writeNotify ==
  /\ rwPc = "writeNotify"
  /\ notifyPosters(queueSize)
  /\ rwPc' = "idle" /\ queueSize' = 0
  /\ UNCHANGED <<conn, writeOn, queues, outbuf, wireVars, pool, late, pc,
                 offered, ctVars, calls>>

\* handleWriteEvent of a connecting socket: clearOutputBuffer on success; on
\* failure the component closes itself and nothing is disconnected.
writeConnecting ==
  /\ rwPc = "idle" /\ conn = "CONNECTING"
  /\ \/ conn' = "CONNECTED" /\ writeOn' = TRUE /\ outbuf' = <<>>
     \/ conn' = "CLOSED" /\ UNCHANGED <<writeOn, outbuf>>
  /\ UNCHANGED <<queues, wireVars, pool, late, queueTotal, posters, rwVars,
                 ctVars, calls>>

\* handlePacket: offerChannel detaches the channel; a reply that finds none,
\* because the request was timed out, is drained.
readReply(r) ==
  /\ rwPc = "idle" /\ conn = "CONNECTED"
  /\ r \in replies
  /\ replies' = replies \ {r}
  /\ IF r \in useMap
       THEN /\ useMap' = useMap \ {r}
            /\ useList' = unlink(useList, r)
            /\ offered' = {r}
            /\ rwPc' = "callback"
       ELSE UNCHANGED <<useMap, useList, offered, rwPc>>
  /\ UNCHANGED <<conn, writeOn, queues, outbuf, wire, armed, late, queueTotal,
                 posters, queueSize, ctVars, calls>>

\* The handler gets the decoded packet or the BadPacket; then appendChannel.
callback ==
  /\ rwPc = "callback"
  /\ \E r \in offered : callHandler(r)
  /\ offered' = {}
  /\ rwPc' = "idle"
  /\ UNCHANGED <<conn, writeOn, queues, outbuf, wireVars, pool, late,
                 queueTotal, posters, queueSize, ctVars>>

\* Seeded fault: packets caught in _myQueue are left there.
moveBackNot == UNCHANGED queues
\* disconnect: _myQueue.moveTo(&_outputQueue)
moveBack == outputQueue' = outputQueue \o myQueue /\ myQueue' = <<>>

\* An error, the peer's FIN or a broken stream: close() calls disconnect().
close ==
  /\ rwPc = "idle" /\ isConnectState
  /\ moveBack
  /\ rwPc' = "closing"
  /\ ctGoto("rw", "channels")
  /\ UNCHANGED <<conn, writeOn, outbuf, wireVars, pool, late, queueTotal,
                 posters, queueSize, offered, ctList, ctPackets, calls>>

\* The DisconnPacket is handed out, the socket closed. _output keeps its bytes.
closed ==
  /\ rwPc = "closing" /\ ctPc["rw"] = "done"
  /\ conn' = "CLOSED"
  /\ wire' = {} /\ replies' = {}
  /\ ctGoto("rw", "idle")
  /\ rwPc' = "idle"
  /\ UNCHANGED <<writeOn, queues, outbuf, pool, late, queueTotal, posters,
                 queueSize, offered, ctList, ctPackets, calls>>

-----------------------------------------------------------------------------
(* The server and the clock *)

serverReplies(r) ==
  /\ r \in wire
  /\ wire' = wire \ {r}
  /\ replies' = replies \cup {r}
  /\ UNCHANGED <<conn, writeOn, queues, outbuf, pool, late, queueTotal, posters,
                 rwVars, ctVars, calls>>

\* The request's _queueTimeout has passed. Packets were given their expire
\* times by different threads and by a wall clock: any order is possible. Once
\* the handler is called the request is gone, late or not.
expire(r) ==
  /\ pc[r] \notin {"idle", "limit", "refused"}
  /\ r \notin late /\ calls[r] = 0
  /\ late' = late \cup {r}
  /\ UNCHANGED <<conn, writeOn, queues, outbuf, wireVars, pool, queueTotal,
                 posters, rwVars, ctVars, calls>>

-----------------------------------------------------------------------------

Post(r) == \/ postConnect(r) \/ postLimit(r) \/ postAlloc(r) \/ postPush(r)
           \/ postCount(r) \/ waitSignalled(r) \/ waitTimedOut(r)

CheckTimeout(t) == \/ takeChannels(t) \/ callChannel(t)
                   \/ takePackets(t) \/ callPacket(t) \/ checkNotify(t)

TimeoutThread == CheckTimeout("timeout")

Write == writeMove \/ encode \/ writeSocket \/ writeEnd \/ writeNotify

Finish == callback \/ CheckTimeout("rw") \/ closed

ReadWriteThread == Write \/ writeConnecting \/ (\E r \in Requests : readReply(r))
                   \/ close \/ Finish

Next ==
  \/ \E r \in Requests : Post(r) \/ serverReplies(r) \/ expire(r)
  \/ ReadWriteThread \/ TimeoutThread

Spec == Init /\ [][Next]_vars

\* Every thread runs and time passes; the server and the peer promise nothing.
LiveSpec ==
  /\ Spec
  /\ \A r \in Requests :
       /\ WF_vars(postLimit(r) \/ postAlloc(r) \/ postPush(r) \/ postCount(r))
       /\ WF_vars(waitSignalled(r) \/ waitTimedOut(r))
       /\ WF_vars(expire(r))
  /\ WF_vars(Write) /\ WF_vars(writeConnecting) /\ WF_vars(Finish)
  /\ WF_vars(TimeoutThread)

\* The peer goes on reading, so that a socket with bytes to write takes some.
PeerReads == SF_vars(writeSocket /\ outbuf' # outbuf)

ReadingPeerSpec == LiveSpec /\ PeerReads

-----------------------------------------------------------------------------
(* Properties *)

phaseOf(r) ==
  CASE pc[r] \in {"idle", "limit", "alloc"} -> "idle"
    [] pc[r] = "refused" -> "refused"
    [] OTHER -> "accepted"

Abstract == INSTANCE RequestReply
              WITH phase <- [r \in Requests |-> phaseOf(r)], calls <- calls

\* Whatever the interleaving of reply, timeout and disconnect, the handler of
\* an accepted packet is called at most once, and of a refused one never.
AnsweredAtMostOnce == Abstract!Spec

\* Every packet that postPacket accepts is answered in the end.
AnsweredExactlyOnce == Abstract!LiveSpec

\* getUseListCount(), "the length of the used list", is the size of the map:
\* the two agree whenever the pool's mutex is free.
UseMapIsUseList ==
  useMap = elements(useList) /\ Cardinality(useMap) = Len(useList)

\* No packet is forgotten: while the socket is connected and nobody is in the
\* middle of writing, what is queued has asked for EPOLLOUT.
QueuedAsksToWrite ==
  conn = "CONNECTED" /\ rwPc = "idle"
    /\ (outputQueue # <<>> \/ myQueue # <<>> \/ outbuf # <<>>) => writeOn

\* A packet still in a queue has an unarmed channel, so only one of the two
\* getTimeoutLists, of the pool and of the queue, can answer it.
QueuedIsUnarmed ==
  \A r \in elements(outputQueue) \cup elements(myQueue) :
    r \in useMap /\ r \notin armed

\* A closed connection may stay closed for ever, so nothing may be stranded in
\* it: what was pushed and not answered is in the output queue or has an armed
\* channel, where a timeout finds it, or is being answered now.
beingAnswered(r) ==
  r \in offered \cup UNION {elements(ctList[t]) \cup elements(ctPackets[t]) :
                             t \in Threads}

ClosedIsWatched ==
  conn = "CLOSED" =>
    \A r \in Requests : pc[r] \in {"count", "waiting", "accepted"} =>
      \/ calls[r] > 0 \/ beingAnswered(r)
      \/ r \in elements(outputQueue) \/ r \in armed \cap useMap

\* What was accepted is, at every moment, where the writing thread or one of the two
\* timeouts will find it, and with one of these only.
NothingForgotten == UseMapIsUseList /\ QueuedAsksToWrite /\ QueuedIsUnarmed /\ ClosedIsWatched

\* A blocked poster does not wait for ever, even if broadcasts are missed.
BlockedReturns == \A r \in Requests : pc[r] = "waiting" ~> pc[r] = "accepted"

=============================================================================
