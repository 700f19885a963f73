-------------------------------- MODULE Tbnet --------------------------------
(***************************************************************************)
(* The components of tbnet below and beside Transport and Connection, side *)
(* by side: a behaviour is one of the component named by part and leaves   *)
(* the others in their initial states. They meet in Transport and          *)
(* Connection, which model their callers.                                  *)
(***************************************************************************)
EXTENDS TCPComponent, PacketStream, HttpStream, ChannelPool, ConnectionManager, PacketQueue

VARIABLE part

vars == <<tcpVars, streamVars, httpVars, channelVars, managerVars, queueVars, part>>

Parts == {"tcp", "stream", "http", "channel", "manager", "queue"}

TypeOK ==
  /\ part \in Parts
  /\ TcpTypeOK /\ StreamTypeOK /\ HttpTypeOK /\ ChannelTypeOK /\ ManagerTypeOK /\ QueueTypeOK

\* The initial states that part does not use are one of each.
Init ==
  /\ part \in Parts
  /\ TcpInit /\ StreamInit /\ HttpInit /\ ChannelInit /\ ManagerInit /\ QueueInit
  /\ part # "tcp" => scene = [exclusive |-> TRUE, atOnce |-> TRUE, accepted |-> TRUE]
  /\ part # "stream" => reader = "client"
  /\ part # "queue" => isLate = {}

only(p) ==
  /\ part = p /\ UNCHANGED part
  /\ p # "tcp" => UNCHANGED tcpVars
  /\ p # "stream" => UNCHANGED streamVars
  /\ p # "http" => UNCHANGED httpVars
  /\ p # "channel" => UNCHANGED channelVars
  /\ p # "manager" => UNCHANGED managerVars
  /\ p # "queue" => UNCHANGED queueVars

Next ==
  \/ only("tcp") /\ TcpNext
  \/ only("stream") /\ StreamNext
  \/ only("http") /\ HttpNext
  \/ only("channel") /\ ChannelNext
  \/ only("manager") /\ ManagerNext
  \/ only("queue") /\ QueueNext

\* The threads inside a component go on; the owner need not post, the peer and the
\* time need not move.
TcpFairness ==
  /\ WF_tcpVars(part = "tcp" /\ ownerStep /\ UNCHANGED scene)
  /\ WF_tcpVars(part = "tcp" /\ loopStep /\ UNCHANGED scene)
  /\ WF_tcpVars(part = "tcp" /\ timeoutStep /\ UNCHANGED scene)

Spec == Init /\ [][Next]_vars
LiveSpec == Spec /\ TcpFairness

\* What tcpcomponent.cpp promises of _state, _socket and _output.
TcpSafe == OpenIsWatched /\ StartsClean

\* What channelpool.cpp promises of its lists and its map, and packetqueue.cpp of the
\* ends of its list.
ListsSafe == InOnePlace /\ MapIsUseList /\ QueueEndsMeet

\* What connectionmanager.cpp promises of its map.
ManagerSafe == MapIsOpenConnections /\ CleanupLeavesOnlyTheEarly

\* What readData and writeData promise of the packets on a stream of bytes, and
\* databuffer.h of the room that they find; and what httpresponsepacket.cpp promises of the
\* response that is written.
StreamSafe == HandledIntact /\ NothingLeftBehind /\ ReadsHaveRoom /\ ResponseIsFramed
=============================================================================
