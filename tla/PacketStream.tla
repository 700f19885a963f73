---------------------------- MODULE PacketStream ----------------------------
(***************************************************************************)
(* The byte stream of a connection, in one direction: writeData encodes    *)
(* packets into _output and writes it to the socket piece by piece;        *)
(* readData reads what has come into _input and cuts it into packets with  *)
(* DefaultPacketStreamer. Both buffers are DataBuffers.                    *)
(*                                                                         *)
(* The connection may break. A server makes new connection objects, a      *)
(* client goes on with the old one: its buffers, _gotHeader and            *)
(* _packetHeader survive. The reader is a client or a server, with or      *)
(* without batches of packets.                                             *)
(***************************************************************************)
EXTENDS Naturals, Sequences

CONSTANTS
  MaxPacket,       \* packets 1, 2, ...; packet k carries k - 1 units of content
  Unknown,         \* packets with a pcode that the factory of the reader does not know
  Unencodable,     \* packets whose encode() fails after it has written something
  InitialSize, ShrinkSize,
  ReadWriteSize,   \* READ_WRITE_SIZE
  NetSize,         \* bound of what is on the way
  MaxReads,        \* the 10 further reads of one readData
  BatchSize,       \* the 15 packets of a batch
  MaxBreaks        \* bound of the broken connections

ASSUME PacketStreamAssumption ==
  /\ MaxPacket \in Nat /\ Unknown \subseteq 1..MaxPacket /\ Unencodable \subseteq 1..MaxPacket
  /\ {InitialSize, ShrinkSize, ReadWriteSize, NetSize, BatchSize} \subseteq Nat \ {0}
  /\ MaxReads \in Nat /\ MaxBreaks \in Nat

B == INSTANCE DataBuffer

VARIABLES
  streamUp, breaks,       \* the connection; how often it broke
  posted, encoded,        \* packets posted, and taken by encode()
  outBuf, net, inBuf,     \* _output of the writer, the wire, _input of the reader
  gotHeader, header,      \* _gotHeader, _packetHeader
  streamPc, readCnt, full,
  inputQueue, handled,    \* _inputQueue; what the handler was called with
  broken, cutOff,         \* the stream was out of step; a break left data in _input
  reader                  \* "client", "server" or "batch"

writerVars == <<posted, encoded, outBuf>>
readerVars == <<inBuf, gotHeader, header, streamPc, readCnt, full, inputQueue, handled, broken>>
linkVars == <<streamUp, breaks, cutOff, reader>>
streamVars == <<writerVars, net, readerVars, linkVars>>

HeaderLen == 2   \* the four ints of a header as two units; the second is _dataLen
Units == [p : 1..MaxPacket, i : 1..HeaderLen + MaxPacket, n : 0..MaxPacket]
unit(k, i, n) == [p |-> k, i |-> i, n |-> n]
NoHeader == [p |-> 0, len |-> 0]

StreamTypeOK ==
  /\ B!isBuffer(outBuf) /\ B!isBuffer(inBuf)
  /\ \A j \in 1..Len(inBuf.data) : inBuf.data[j] \in Units
  /\ encoded \in 0..posted /\ posted \in 0..MaxPacket /\ Len(net) <= NetSize
  /\ {streamUp, gotHeader, full, broken, cutOff} \subseteq BOOLEAN
  /\ streamPc \in {"idle", "read", "parse", "more", "finish", "lost", "closed"}
  /\ header.len \in 0..MaxPacket /\ readCnt \in 0..MaxReads /\ breaks \in 0..MaxBreaks
  /\ Len(inputQueue) < BatchSize

StreamInit ==
  /\ streamUp = TRUE /\ breaks = 0 /\ posted = 0 /\ encoded = 0
  /\ outBuf = B!noBuffer /\ net = <<>> /\ inBuf = B!noBuffer
  /\ gotHeader = FALSE /\ header = NoHeader /\ streamPc = "idle" /\ readCnt = 0
  /\ full = FALSE /\ inputQueue = <<>> /\ handled = <<>> /\ broken = FALSE
  /\ cutOff = FALSE /\ reader \in {"client", "server", "batch"}

-----------------------------------------------------------------------------
(* The writer *)

contentOf(k) == [j \in 1..k - 1 |-> unit(k, HeaderLen + 1 + j, 0)]
isString(k) == k % 2 = 1

\* Packet::encode: a string or a vector; half of it when it fails.
encodeBody(b, k) ==
  IF k \in Unencodable THEN B!writeInt(b, unit(k, HeaderLen + 1, k - 1))
  ELSE IF isString(k) THEN B!writeString(b, unit(k, HeaderLen + 1, k - 1), contentOf(k))
  ELSE B!writeVector(b, unit(k, HeaderLen + 1, k - 1), contentOf(k))

\* The body length that goes into the header, which starts after oldLen units.
\* Seeded fault: the length counts the header.
filledLenAll(b, oldLen) == B!dataLen(b) - oldLen
filledLen(b, oldLen) == B!dataLen(b) - oldLen - HeaderLen

encode(b, k) ==
  LET headed == B!writeInt(B!writeInt(b, unit(k, 1, 0)), unit(k, 2, 0))
      done == encodeBody(headed, k)
      oldLen == B!dataLen(b)
  IN IF k \in Unencodable THEN B!stripData(done, B!dataLen(done) - oldLen)
     ELSE B!fillInt(done, oldLen + HeaderLen, filledLen(done, oldLen))

postStream ==
  /\ streamUp /\ posted < MaxPacket /\ posted' = posted + 1
  /\ UNCHANGED <<encoded, outBuf, net, readerVars, linkVars>>

\* TCPConnection::writeData, one packet ...
encodeNext ==
  /\ streamUp /\ encoded < posted /\ B!dataLen(outBuf) < ReadWriteSize
  /\ encoded' = encoded + 1 /\ outBuf' = encode(outBuf, encoded + 1)
  /\ UNCHANGED <<posted, net, readerVars, linkVars>>

\* ... and one write() of it; the buffer is shrunk when the loop ends.
writeSome ==
  /\ streamUp
  /\ \E n \in 1..B!dataLen(outBuf) :
       /\ Len(net) + n <= NetSize
       /\ net' = net \o SubSeq(outBuf.data, 1, n)
       /\ outBuf' \in {B!drainData(outBuf, n), B!shrink(B!drainData(outBuf, n))}
  /\ UNCHANGED <<posted, encoded, readerVars, linkVars>>

-----------------------------------------------------------------------------
(* The connection *)

breakLink ==
  /\ streamUp /\ breaks < MaxBreaks
  /\ streamUp' = FALSE /\ breaks' = breaks + 1
  /\ net' \in {net, <<>>}
  /\ UNCHANGED <<writerVars, readerVars, cutOff, reader>>

\* What the writer did not bring out is given up by its disconnect(). A reading
\* client keeps its connection object.
reconnectStream ==
  /\ streamPc = "closed"
  /\ streamUp' = TRUE /\ net' = <<>> /\ streamPc' = "idle"
  /\ encoded' = posted /\ outBuf' = B!noBuffer
  /\ IF reader = "client"
     THEN /\ cutOff' = (cutOff \/ gotHeader \/ inBuf.data # <<>>)
          /\ UNCHANGED <<inBuf, gotHeader, header>>
     ELSE /\ inBuf' = B!noBuffer /\ gotHeader' = FALSE /\ header' = NoHeader
          /\ UNCHANGED cutOff
  /\ UNCHANGED <<posted, readCnt, full, inputQueue, handled, broken, breaks, reader>>

-----------------------------------------------------------------------------
(* The reader: TCPConnection::readData *)

startRead ==
  /\ streamPc = "idle" /\ (net # <<>> \/ ~streamUp)
  /\ inBuf' = B!ensureFree(inBuf, ReadWriteSize)
  /\ readCnt' = 0 /\ streamPc' = "read"
  /\ UNCHANGED <<writerVars, net, gotHeader, header, full, inputQueue, handled, broken,
                 linkVars>>

least(m, n) == IF m < n THEN m ELSE n

\* read() returns 0 at the end of the stream, and for a buffer without room.
readSocket ==
  /\ streamPc = "read"
  /\ LET n == least(Len(net), B!freeLen(inBuf))
     IN /\ inBuf' = B!pourData(inBuf, SubSeq(net, 1, n))
        /\ net' = B!drop(net, n)
        /\ full' = (B!freeLen(inBuf) = n)
        /\ streamPc' = CASE n > 0 -> "parse"
                         [] n = 0 /\ streamUp /\ net = <<>> -> "finish"
                         [] OTHER -> "lost"
  /\ UNCHANGED <<writerVars, gotHeader, header, readCnt, inputQueue, handled, broken,
                 linkVars>>

\* DefaultPacketStreamer::getPacketInfo: the flag tells a header from other data.
getPacketInfo ==
  /\ streamPc = "parse" /\ ~gotHeader /\ B!dataLen(inBuf) >= HeaderLen
  /\ gotHeader' = (inBuf.data[1].i = 1)
  /\ header' = [p |-> inBuf.data[1].p, len |-> inBuf.data[2].n]
  /\ inBuf' = B!advance(inBuf, HeaderLen)
  /\ IF inBuf.data[1].i = 1 THEN UNCHANGED <<streamPc, broken>>
     ELSE streamPc' = "lost" /\ broken' = TRUE
  /\ UNCHANGED <<writerVars, net, readCnt, full, inputQueue, handled, linkVars>>

\* Whether there is all of a packet to be handled.
\* Seeded fault: the last unit is not waited for.
isCompleteButOne == gotHeader /\ B!dataLen(inBuf) + 1 >= header.len
isComplete == gotHeader /\ B!dataLen(inBuf) >= header.len

\* DefaultPacketStreamer::decode, and Packet::decode for the packets that it knows.
bodySize(k) ==
  IF inBuf.data = <<>> THEN 0
  ELSE IF isString(k) THEN B!stringSize(inBuf) ELSE B!vectorSize(inBuf)
decoded(k) ==
  IF bodySize(k) = k /\ SubSeq(inBuf.data, 2, k) = contentOf(k) THEN "ok" ELSE "corrupt"

\* What a batch leaves in _inputQueue, and hands over.
delivered(q) == IF Len(q) >= BatchSize THEN q ELSE <<>>
leftOver(q) == IF Len(q) >= BatchSize THEN <<>> ELSE q

handle(what) ==
  IF reader = "batch" /\ what.how # "bad"
  THEN /\ inputQueue' = leftOver(Append(inputQueue, what))
       /\ handled' = handled \o delivered(Append(inputQueue, what))
  ELSE handled' = Append(handled, what) /\ UNCHANGED inputQueue

\* Connection::handlePacket. A client that has no channel for the packet any more
\* throws it away; what cannot be decoded is handled as BadPacket.
handlePacket ==
  /\ streamPc = "parse" /\ isComplete
  /\ LET k == header.p
     IN \/ /\ k \notin Unknown
           /\ inBuf' = B!advance(inBuf, least(bodySize(k), B!dataLen(inBuf)))
           /\ handle([p |-> k, how |-> decoded(k)])
        \/ /\ k \in Unknown /\ inBuf' = B!drainData(inBuf, header.len)
           /\ handle([p |-> k, how |-> "bad"])
        \/ /\ reader = "client" /\ inBuf' = B!drainData(inBuf, header.len)
           /\ handled' = Append(handled, [p |-> k, how |-> "dropped"])
           /\ UNCHANGED inputQueue
  /\ gotHeader' = FALSE /\ header' = [header EXCEPT !.len = 0]
  /\ UNCHANGED <<writerVars, net, streamPc, readCnt, full, broken, linkVars>>

parseEnd ==
  /\ streamPc = "parse" /\ ~isComplete /\ (gotHeader \/ B!dataLen(inBuf) < HeaderLen)
  /\ streamPc' = IF ~full \/ readCnt >= MaxReads THEN "finish" ELSE "more"
  /\ UNCHANGED <<writerVars, net, inBuf, gotHeader, header, readCnt, full, inputQueue, handled,
                 broken, linkVars>>

\* The buffer was filled to the end: there may be more.
readMore ==
  /\ streamPc = "more"
  /\ inBuf' = B!ensureFree(inBuf, IF header.len > B!dataLen(inBuf) + ReadWriteSize
                                  THEN header.len - B!dataLen(inBuf) ELSE ReadWriteSize)
  /\ readCnt' = readCnt + 1 /\ streamPc' = "read"
  /\ UNCHANGED <<writerVars, net, gotHeader, header, full, inputQueue, handled, broken,
                 linkVars>>

\* What is handed over at the end of readData.
\* Seeded fault: only a full batch is.
batchEndFull(q) == delivered(q)
batchEnd(q) == q

readEnd ==
  /\ streamPc \in {"finish", "lost"}
  /\ handled' = handled \o batchEnd(inputQueue) /\ inputQueue' = <<>>
  /\ inBuf' = B!shrink(inBuf)
  /\ streamPc' = IF streamPc = "finish" THEN "idle" ELSE "closed"
  /\ streamUp' = (streamUp /\ streamPc = "finish")
  /\ UNCHANGED <<writerVars, net, gotHeader, header, readCnt, full, broken, breaks, cutOff,
                 reader>>

-----------------------------------------------------------------------------

writerStep == encodeNext \/ writeSome

readerStep ==
  startRead \/ readSocket \/ getPacketInfo \/ handlePacket \/ parseEnd \/ readMore \/ readEnd

StreamNext == writerStep \/ readerStep \/ postStream \/ breakLink \/ reconnectStream

-----------------------------------------------------------------------------

\* Packets are handled in the order of their posting, each at most once and with
\* its own content, and the stream never gets out of step, however the bytes are
\* cut up; only a BadPacket may overtake a batch. That is so until a connection breaks
\* while a client holds a part of a packet: close() does not clear _input and
\* _gotHeader (tcpcomponent.cpp:117).
HandledIntact ==
  ~cutOff =>
    /\ ~broken
    /\ \A j \in 1..Len(handled) : handled[j].how # "corrupt"
    /\ \A j \in 1..Len(handled) : \A l \in 1..j - 1 :
         /\ handled[l].p # handled[j].p
         /\ (reader = "batch" /\ "bad" \in {handled[l].how, handled[j].how})
            \/ handled[l].p < handled[j].p

\* The reader never asks the socket for nothing: read() into a full buffer returns
\* 0, which readData takes for the end of the stream.
ReadsHaveRoom == streamPc = "read" => B!freeLen(inBuf) > 0

\* While the connection holds, nothing is left behind: when the writer has written
\* all and the reader waits for an event, every packet that could be encoded was
\* handled, for nothing on the wire would make epoll call readData again.
NothingLeftBehind ==
  streamUp /\ breaks = 0 /\ encoded = posted /\ outBuf.data = <<>> /\ net = <<>>
  /\ streamPc = "idle"
  => \A k \in 1..posted \ Unencodable : \E j \in 1..Len(handled) : handled[j].p = k
=============================================================================
