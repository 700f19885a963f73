----------------------------- MODULE TbnetProofs -----------------------------
(***************************************************************************)
(* Proofs about the components of tbnet beside Transport and Connection:   *)
(* the map of ConnectionManager, for any threads, servers and connections, *)
(* the state and the descriptor of a TCPComponent, for any time, the       *)
(* linked queues of packets as sequences, for any packets, the linked      *)
(* lists of a ChannelPool, for any clusters and ids, the packets on a      *)
(* stream of bytes, for any sizes, and the types of all of them.           *)
(***************************************************************************)
EXTENDS Tbnet, FunctionTheorems, FiniteSetTheorems, SequenceTheorems, WellFoundedInduction, TLAPS

-----------------------------------------------------------------------------
(* ConnectionManager *)

tested == {t \in Callers : mgrPc[t] = "tested"}

\* The map finds the open connections, each under one server.
Mapped ==
  /\ \A s \in DOMAIN connectMap : connState[connectMap[s]] = "open"
  /\ \A c \in Conns : connState[c] = "open" => \E s \in DOMAIN connectMap : connectMap[s] = c
  /\ \A s, u \in DOMAIN connectMap : connectMap[s] = connectMap[u] => s = u

\* Whoever is past the test of _status when it is off was so when it was set, and uses up
\* its right to enter a connection by entering one.
EarlyOnly ==
  /\ status # "on" => tested \subseteq inside
  /\ status = "clean" => /\ IsFiniteSet(DOMAIN connectMap)
                         /\ Cardinality(DOMAIN connectMap) + Cardinality(tested) <= Cardinality(inside)

ManagerInv == ManagerTypeOK /\ Mapped /\ EarlyOnly

LEMMA ManagerStarts == ManagerInit => ManagerInv
<1> SUFFICES ASSUME ManagerInit PROVE ManagerInv
  OBVIOUS
<1>1. DOMAIN connectMap = {}
  BY DEF ManagerInit
<1>2. noCall \in Call
  BY ConnectionManagerAssumption DEF noCall, Call
<1>3. ManagerTypeOK
  BY <1>1, <1>2 DEF ManagerInit, ManagerTypeOK
<1>4. Mapped
  BY <1>1 DEF ManagerInit, Mapped
<1> QED
  BY <1>3, <1>4 DEF ManagerInit, ManagerInv, EarlyOnly

\* The threads that are past the test are finitely many.
LEMMA TestedCounted ==
  /\ IsFiniteSet(tested) /\ Cardinality(tested) \in Nat
  /\ ManagerTypeOK => IsFiniteSet(inside) /\ Cardinality(inside) \in Nat
<1>1. IsFiniteSet(Callers) /\ tested \subseteq Callers
  BY ConnectionManagerAssumption DEF tested
<1>2. IsFiniteSet(tested)
  BY <1>1, FS_Subset
<1>3. ManagerTypeOK => IsFiniteSet(inside)
  BY <1>1, FS_Subset DEF ManagerTypeOK
<1> QED
  BY <1>2, <1>3, FS_CardinalityType

\* A thread goes on from the test, or elsewhere, and nothing else happens to the map.
LEMMA EarlyStays ==
  ASSUME ManagerInv, UNCHANGED <<connectMap, status, inside>>,
         \A t \in Callers : mgrPc'[t] = "tested" /\ mgrPc[t] # "tested" => status = "on"
  PROVE  EarlyOnly'
<1>1. status # "on" => tested' \subseteq tested
  BY DEF tested
<1>2. status # "on" => Cardinality(tested') <= Cardinality(tested) /\ Cardinality(tested') \in Nat
  BY <1>1, TestedCounted, FS_Subset, FS_CardinalityType
<1>3. status = "clean" => Cardinality(DOMAIN connectMap) \in Nat
  BY FS_CardinalityType DEF ManagerInv, EarlyOnly
<1>4. ManagerTypeOK
  BY DEF ManagerInv
<1>5. status = "clean" => Cardinality(DOMAIN connectMap) + Cardinality(tested') <= Cardinality(inside)
  BY <1>2, <1>3, <1>4, TestedCounted DEF ManagerInv, EarlyOnly
<1> QED
  BY <1>1, <1>5 DEF ManagerInv, EarlyOnly

LEMMA ManagerStep ==
  ASSUME ManagerInv, ManagerNext
  PROVE  ManagerInv'
<1> USE DEF ManagerInv
<1>0. ManagerTypeOK /\ noCall \in Call
  BY ConnectionManagerAssumption DEF noCall, Call
<1>1. CASE cleanupFlag
  <2>1. ManagerTypeOK' /\ Mapped'
    BY <1>1 DEF cleanupFlag, ManagerTypeOK, Mapped
  <2>2. EarlyOnly'
    BY <1>1 DEF cleanupFlag, EarlyOnly, tested
  <2> QED
    BY <2>1, <2>2
<1>2. CASE cleanupAll
  <2>1. DOMAIN connectMap' = {}
    BY <1>2 DEF cleanupAll
  <2>2. \A c \in Conns : connState'[c] # "open" /\ connState'[c] \in {"none", "open", "released"}
    BY <1>2 DEF cleanupAll, releasedConns, Mapped, ManagerTypeOK
  <2>3. connState' \in [Conns -> {"none", "open", "released"}]
    BY <1>2, <2>2 DEF cleanupAll, releasedConns
  <2>4. ManagerTypeOK'
    BY <1>2, <2>1, <2>3 DEF cleanupAll, ManagerTypeOK
  <2>5. Mapped'
    BY <2>1, <2>2 DEF Mapped
  <2>6. tested' = tested /\ tested \subseteq inside
    BY <1>2 DEF cleanupAll, tested, EarlyOnly
  <2>7. Cardinality(tested) <= Cardinality(inside)
    BY <2>6, TestedCounted, FS_Subset
  <2>8. IsFiniteSet(DOMAIN connectMap') /\ Cardinality(DOMAIN connectMap') = 0
    BY <2>1, FS_EmptySet
  <2>9. inside' = inside /\ Cardinality(tested) \in Nat /\ Cardinality(inside) \in Nat
    BY <1>2, TestedCounted DEF cleanupAll
  <2>10. EarlyOnly'
    BY <2>6, <2>7, <2>8, <2>9 DEF EarlyOnly
  <2> QED
    BY <2>4, <2>5, <2>10
<1>3. ASSUME NEW t \in Callers, testStatus(t)
      PROVE  ManagerInv'
  <2>1. PICK s \in ServerIds, n \in {0, 1, 3} :
          call' = [call EXCEPT ![t] = [noCall EXCEPT !.server = s, !.todo = n]]
    BY <1>3 DEF testStatus
  <2>2. [noCall EXCEPT !.server = s, !.todo = n] \in Call
    <3>1. n \in 0..3
      OBVIOUS
    <3>2. \A c \in Call : [c EXCEPT !.server = s, !.todo = n] \in Call
      BY <3>1 DEF Call
    <3> QED
      BY <1>0, <3>2
  <2>3. ManagerTypeOK'
    BY <1>0, <1>3, <2>1, <2>2 DEF testStatus, ManagerTypeOK
  <2>4. Mapped'
    BY <1>3 DEF testStatus, Mapped
  <2>5. EarlyOnly'
    BY <1>3, EarlyStays DEF testStatus
  <2> QED
    BY <2>3, <2>4, <2>5
<1>4. ASSUME NEW t \in Callers, findConnection(t)
      PROVE  ManagerInv'
  <2>1. connectMap[call[t].server] \in Conns
    BY <1>0, <1>4 DEF findConnection, ManagerTypeOK
  <2>2. [call[t] EXCEPT !.conn = connectMap[call[t].server]] \in Call
    BY <1>0, <2>1 DEF ManagerTypeOK, Call
  <2>3. ManagerTypeOK'
    BY <1>0, <1>4, <2>2 DEF findConnection, obtains, ManagerTypeOK
  <2>4. Mapped'
    BY <1>4 DEF findConnection, Mapped
  <2>5. EarlyOnly'
    BY <1>0, <1>4, EarlyStays DEF findConnection, obtains, ManagerTypeOK
  <2> QED
    BY <2>3, <2>4, <2>5
<1>5. ASSUME NEW t \in Callers, makeConnection(t)
      PROVE  ManagerInv'
  <2> DEFINE s == call[t].server
  <2>1. PICK c \in Conns : /\ connState[c] = "none" /\ connState' = [connState EXCEPT ![c] = "open"]
                           /\ connectMap' = entered(s, c) /\ obtains(t, c)
    BY <1>5 DEF makeConnection
  <2>2. s \in ServerIds /\ s \notin DOMAIN connectMap /\ mgrPc[t] = "tested"
    BY <1>0, <1>5 DEF makeConnection, ManagerTypeOK, Call
  <2> HIDE DEF s
  <2>3. /\ DOMAIN connectMap' = DOMAIN connectMap \cup {s}
        /\ \A x \in DOMAIN connectMap' : connectMap'[x] = IF x = s THEN c ELSE connectMap[x]
    BY <2>1 DEF entered
  <2>4. [call[t] EXCEPT !.conn = c] \in Call
    BY <1>0 DEF ManagerTypeOK, Call
  <2>5. \A x \in DOMAIN connectMap : connectMap[x] \in Conns /\ connectMap[x] # c
    BY <1>0, <2>1 DEF ManagerTypeOK, Mapped
  <2>6. \A d \in Conns : connState'[d] = IF d = c THEN "open" ELSE connState[d]
    BY <1>0, <2>1 DEF ManagerTypeOK
  <2>7. ManagerTypeOK'
    <3>1. /\ DOMAIN connectMap' \subseteq ServerIds
          /\ \A x \in DOMAIN connectMap' : connectMap'[x] \in Conns
      BY <1>0, <2>2, <2>3, <2>5 DEF ManagerTypeOK
    <3>2. call' \in [Callers -> Call] /\ mgrPc' \in [Callers -> {"idle", "tested", "holds"}]
      BY <1>0, <2>1, <2>4 DEF ManagerTypeOK, obtains
    <3>3. connState' \in [Conns -> {"none", "open", "released"}]
      BY <1>0, <2>1 DEF ManagerTypeOK
    <3> QED
      BY <1>0, <1>5, <3>1, <3>2, <3>3 DEF makeConnection, ManagerTypeOK
  <2>8. Mapped'
    <3>1. \A x \in DOMAIN connectMap' : connState'[connectMap'[x]] = "open"
      BY <2>3, <2>5, <2>6 DEF Mapped
    <3>2. \A d \in Conns : connState'[d] = "open" => \E x \in DOMAIN connectMap' : connectMap'[x] = d
      <4> SUFFICES ASSUME NEW d \in Conns, connState'[d] = "open"
                   PROVE  \E x \in DOMAIN connectMap' : connectMap'[x] = d
        OBVIOUS
      <4>1. CASE d = c
        BY <4>1, <2>3
      <4>2. CASE d # c
        <5>1. PICK x \in DOMAIN connectMap : connectMap[x] = d
          BY <4>2, <2>6 DEF Mapped
        <5> QED
          BY <5>1, <2>2, <2>3
      <4> QED
        BY <4>1, <4>2
    <3>3. \A x, u \in DOMAIN connectMap' : connectMap'[x] = connectMap'[u] => x = u
      BY <2>2, <2>3, <2>5 DEF Mapped
    <3> QED
      BY <3>1, <3>2, <3>3 DEF Mapped
  <2>9. EarlyOnly'
    <3>1. tested' = tested \ {t} /\ t \in tested
      BY <1>0, <2>1, <2>2 DEF obtains, tested, ManagerTypeOK
    <3>2. status' = status /\ inside' = inside
      BY <1>5 DEF makeConnection
    <3>3. CASE status = "clean"
      <4>1. Cardinality(tested') = Cardinality(tested) - 1 /\ Cardinality(tested) \in Nat
        BY <3>1, TestedCounted, FS_RemoveElement
      <4>2. IsFiniteSet(DOMAIN connectMap)
        BY <3>3 DEF EarlyOnly
      <4>3. /\ IsFiniteSet(DOMAIN connectMap')
            /\ Cardinality(DOMAIN connectMap') = Cardinality(DOMAIN connectMap) + 1
            /\ Cardinality(DOMAIN connectMap) \in Nat
        BY <4>2, <2>2, <2>3, FS_AddElement, FS_CardinalityType
      <4>4. Cardinality(DOMAIN connectMap) + Cardinality(tested) <= Cardinality(inside)
        BY <3>3 DEF EarlyOnly
      <4>5. Cardinality(DOMAIN connectMap') + Cardinality(tested') <= Cardinality(inside)
        BY <4>1, <4>3, <4>4, <1>0, TestedCounted
      <4> QED
        BY <3>1, <3>2, <3>3, <4>3, <4>5 DEF EarlyOnly
    <3>4. CASE status # "clean"
      BY <3>1, <3>2, <3>4 DEF EarlyOnly
    <3> QED
      BY <3>3, <3>4
  <2> QED
    BY <2>7, <2>8, <2>9
<1>6. ASSUME NEW t \in Callers, connectRefused(t) \/ useConnection(t)
      PROVE  ManagerInv'
  <2>1. UNCHANGED <<connectMap, status, connState, inside>> /\ returns(t)
    BY <1>6 DEF connectRefused, useConnection
  <2>2. ManagerTypeOK'
    BY <1>0, <2>1 DEF returns, ManagerTypeOK
  <2>3. EarlyOnly'
    BY <1>0, <2>1, EarlyStays DEF returns, ManagerTypeOK
  <2> QED
    BY <2>1, <2>2, <2>3 DEF Mapped
<1>7. ASSUME NEW t \in Callers, setOne(t)
      PROVE  ManagerInv'
  <2>1. [call[t] EXCEPT !.todo = @ - 1] \in Call
    BY <1>0, <1>7 DEF setOne, ManagerTypeOK, Call
  <2>2. ManagerTypeOK'
    BY <1>0, <1>7, <2>1 DEF setOne, ManagerTypeOK
  <2>3. EarlyOnly'
    BY <1>7, EarlyStays DEF setOne
  <2> QED
    BY <1>7, <2>2, <2>3 DEF setOne, Mapped
<1>8. ASSUME NEW t \in Callers, NEW s \in ServerIds, disconnectServer(t, s)
      PROVE  ManagerInv'
  <2>1. s \in DOMAIN connectMap
    BY <1>8 DEF disconnectServer
  <2>2. /\ DOMAIN connectMap' = DOMAIN connectMap \ {s}
        /\ \A x \in DOMAIN connectMap' : connectMap'[x] = connectMap[x]
    BY <1>8 DEF disconnectServer, erased
  <2>3. \A d \in Conns : connState'[d] = IF d = connectMap[s] THEN "released" ELSE connState[d]
    BY <1>8 DEF disconnectServer, releasedConns
  <2>4. connState' \in [Conns -> {"none", "open", "released"}]
    BY <1>0, <1>8 DEF disconnectServer, releasedConns, ManagerTypeOK
  <2>5. ManagerTypeOK'
    BY <1>0, <1>8, <2>2, <2>4 DEF disconnectServer, ManagerTypeOK
  <2>6. Mapped'
    BY <1>0, <2>1, <2>2, <2>3 DEF Mapped, ManagerTypeOK
  <2>7. EarlyOnly'
    <3>1. UNCHANGED <<status, inside, mgrPc>> /\ tested' = tested
      BY <1>8 DEF disconnectServer, tested
    <3>2. CASE status = "clean"
      <4>1. IsFiniteSet(DOMAIN connectMap)
        BY <3>2 DEF EarlyOnly
      <4>2. /\ IsFiniteSet(DOMAIN connectMap') /\ Cardinality(DOMAIN connectMap) \in Nat
            /\ Cardinality(DOMAIN connectMap') = Cardinality(DOMAIN connectMap) - 1
        BY <4>1, <2>1, <2>2, FS_RemoveElement, FS_CardinalityType
      <4>3. Cardinality(DOMAIN connectMap) + Cardinality(tested) <= Cardinality(inside)
        BY <3>2 DEF EarlyOnly
      <4>4. Cardinality(DOMAIN connectMap') + Cardinality(tested) <= Cardinality(inside)
        BY <4>2, <4>3, <1>0, TestedCounted
      <4> QED
        BY <3>1, <3>2, <4>2, <4>4 DEF EarlyOnly
    <3>3. CASE status # "clean"
      BY <3>1, <3>3 DEF EarlyOnly
    <3> QED
      BY <3>2, <3>3
  <2> QED
    BY <2>5, <2>6, <2>7
<1> QED
  BY <1>1, <1>2, <1>3, <1>4, <1>5, <1>6, <1>7, <1>8 DEF ManagerNext

LEMMA ManagerKept ==
  ASSUME ManagerInv, [Next]_vars
  PROVE  ManagerInv'
<1>1. CASE ManagerNext
  BY <1>1, ManagerStep
<1>2. CASE UNCHANGED managerVars
  BY <1>2 DEF managerVars, ManagerInv, ManagerTypeOK, Mapped, EarlyOnly, tested
<1>3. ManagerNext \/ UNCHANGED managerVars
  BY DEF Next, only, vars
<1> QED
  BY <1>1, <1>2, <1>3

\* The map of a ConnectionManager finds all the connections that are open, whichever threads
\* ask for them and release them, and after cleanup() nobody leaves one behind but a call
\* that had read _status before (src/tbnet/src/connectionmanager.cpp:40-113).
THEOREM ManagerIsSafe == Spec => []ManagerSafe
<1>1. Init => ManagerInv
  BY ManagerStarts DEF Init
<1>2. ManagerInv /\ [Next]_vars => ManagerInv'
  BY ManagerKept
<1>3. ManagerInv => ManagerSafe
  <2> SUFFICES ASSUME ManagerInv PROVE ManagerSafe
    OBVIOUS
  <2>1. {connectMap[s] : s \in DOMAIN connectMap} = {c \in Conns : connState[c] = "open"}
    BY DEF ManagerInv, ManagerTypeOK, Mapped
  <2>2. MapIsOpenConnections
    BY <2>1 DEF ManagerInv, Mapped, MapIsOpenConnections
  <2>3. CleanupLeavesOnlyTheEarly
    <3> SUFFICES ASSUME status = "clean" PROVE Cardinality(DOMAIN connectMap) <= Cardinality(inside)
      BY DEF CleanupLeavesOnlyTheEarly
    <3>1. /\ IsFiniteSet(DOMAIN connectMap)
          /\ Cardinality(DOMAIN connectMap) + Cardinality(tested) <= Cardinality(inside)
      BY DEF ManagerInv, EarlyOnly
    <3>2. Cardinality(DOMAIN connectMap) \in Nat /\ Cardinality(tested) \in Nat /\ Cardinality(inside) \in Nat
      BY <3>1, TestedCounted, FS_CardinalityType DEF ManagerInv
    <3> QED
      BY <3>1, <3>2
  <2> QED
    BY <2>2, <2>3 DEF ManagerSafe
<1> QED
  BY <1>1, <1>2, <1>3, PTL DEF Spec
-----------------------------------------------------------------------------
(* TCPComponent *)

\* Where the owner is inside init(), that is socketConnect() and its callers.
Connecting == {"init", "test", "connect", "register", "connected", "progress", "registerLate", "refused", "closed"}

isDescriptor(s) ==
  /\ s \in [open : BOOLEAN, link : Links, watched : BOOLEAN, out : BOOLEAN]
  /\ (~s.open => s = NoSocket) /\ (s.out => s.watched)

\* The types of the other variables.
Typed ==
  /\ tcpState \in ConnectStates \cup {"unconnected", "closed"}
  /\ startConnectTime \in 0..MaxTcpClock /\ tcpClock \in 1..MaxTcpClock
  /\ autoReconn \in BOOLEAN /\ attached \in BOOLEAN /\ listed \in BOOLEAN
  /\ ownerPc \in Connecting \cup {"list", "attach", "idle", "gone"}
  /\ loopPc \in {"poll", "read", "write", "established", "failed", "close", "closing", "closed"}
  /\ timeoutPc \in {"check", "late", "shutdown"}
  /\ event \in [error : BOOLEAN, read : BOOLEAN, write : BOOLEAN]
  /\ output \in {"empty", "rest", "stale"}
  /\ scene \in [exclusive : BOOLEAN, atOnce : BOOLEAN, accepted : BOOLEAN]

\* Before the component is attached no event reaches the read/write thread.
Unattached ==
  /\ ~attached => ~sock.watched /\ loopPc = "poll" /\ output = "empty"
  /\ ownerPc \in {"list", "attach"} => ~attached
  /\ ownerPc = "idle" => attached

Shape == Typed /\ isDescriptor(sock) /\ Unattached

\* A connection that says it is connected has the rest of an old packet only while somebody
\* is closing it.
Cleared ==
  ~scene.atOnce =>
    /\ ownerPc \in {"register", "connected"} => ~attached
    /\ loopPc = "established" => output = "empty"
    /\ output = "stale" /\ tcpState = "connected" =>
         loopPc = "closed" \/ (ownerPc = "closed" /\ ~sock.open)

\* While the owner is inside init() the state is a closed one until the descriptor is
\* watched; afterwards only the read/write thread unwatches it, on the way to close it.
Watched ==
  scene.exclusive =>
    /\ attached /\ ownerPc \in Connecting => loopPc = "poll" /\ timeoutPc = "check"
    /\ ownerPc \in Connecting \ {"registerLate"} => tcpState \notin ConnectStates
    /\ ownerPc \in {"register", "connected", "progress", "registerLate"} => sock.open
    /\ ownerPc = "connected" /\ attached => sock.watched
    /\ attached /\ ownerPc \in {"idle", "gone"} /\ tcpState \in ConnectStates
         => sock.watched \/ loopPc \in {"closing", "closed", "failed"}
    /\ loopPc = "established" => sock.watched
    /\ ~attached /\ tcpState \in ConnectStates => sock.open

TcpInv == Shape /\ Cleared /\ Watched

LEMMA TcpStarts == TcpInit => TcpInv
<1> SUFFICES ASSUME TcpInit PROVE TcpInv
  OBVIOUS
<1>1. 0 \in 0..MaxTcpClock /\ 1 \in 1..MaxTcpClock
  BY TCPComponentAssumption
<1>2. CASE acceptedInit
  <2>1. sock = [open |-> TRUE, link |-> "established", watched |-> TRUE, out |-> FALSE]
    BY <1>2 DEF acceptedInit, addEvent, setOptions, checkSocketHandle, NoSocket
  <2>2. isDescriptor(sock)
    BY <2>1 DEF isDescriptor, Links
  <2>3. autoReconn \in BOOLEAN /\ attached \in BOOLEAN /\ listed \in BOOLEAN
    BY <1>2 DEF acceptedInit
  <2>4. Typed
    BY <1>1, <1>2, <2>3 DEF TcpInit, acceptedInit, NoEvent, Typed, Connecting, ConnectStates
  <2>5. Unattached /\ Cleared
    BY <1>2 DEF TcpInit, acceptedInit, Unattached, Cleared
  <2>6. sock.watched /\ attached = TRUE
    <3>1. attached = TRUE
      BY <1>2 DEF acceptedInit
    <3> QED
      BY <2>1, <3>1
  <2>7. Watched
    BY <1>2, <2>6 DEF TcpInit, acceptedInit, Watched, Connecting
  <2> QED
    BY <2>2, <2>4, <2>5, <2>7 DEF TcpInv, Shape
<1>3. ASSUME NEW auto \in BOOLEAN, clientInit(auto)
      PROVE  TcpInv
  <2>1. isDescriptor(NoSocket) /\ sock = NoSocket /\ ~NoSocket.watched
    BY <1>3 DEF clientInit, isDescriptor, NoSocket, Links
  <2>2. autoReconn \in BOOLEAN /\ attached \in BOOLEAN /\ listed \in BOOLEAN
    BY <1>3 DEF clientInit
  <2>3. Typed
    BY <1>1, <1>3, <2>2 DEF TcpInit, clientInit, NoEvent, Typed, Connecting, ConnectStates
  <2> QED
    BY <1>3, <2>1, <2>3 DEF TcpInit, clientInit, TcpInv, Shape, Unattached, Cleared, Watched, Connecting, ConnectStates
<1> QED
  BY <1>2, <1>3 DEF TcpInit

\* The calls on a descriptor keep it one.
LEMMA DescriptorsKept ==
  ASSUME NEW s, isDescriptor(s)
  PROVE  /\ isDescriptor(NoSocket) /\ isDescriptor(removeEvent(s)) /\ isDescriptor(setEvent(s, TRUE))
         /\ isDescriptor(setEvent(s, FALSE)) /\ isDescriptor(addEvent(s, TRUE))
<1>1. isDescriptor(NoSocket)
  BY DEF isDescriptor, NoSocket, Links
<1>2. removeEvent(s) \in [open : BOOLEAN, link : Links, watched : BOOLEAN, out : BOOLEAN]
  BY DEF isDescriptor, removeEvent
<1>3. isDescriptor(removeEvent(s))
  <2>1. CASE s.open
    BY <2>1, <1>2 DEF isDescriptor, removeEvent
  <2>2. CASE ~s.open
    <3>1. s = NoSocket
      BY <2>2 DEF isDescriptor
    <3>2. s.watched = FALSE /\ s.out = FALSE
      BY <3>1 DEF NoSocket
    <3>3. [s EXCEPT !.watched = FALSE] = s
      BY <3>2 DEF isDescriptor
    <3>4. removeEvent(s) = s
      BY <3>2, <3>3 DEF removeEvent, isDescriptor
    <3> QED
      BY <3>4
  <2> QED
    BY <2>1, <2>2
<1>4. ASSUME NEW b \in BOOLEAN
      PROVE  isDescriptor(setEvent(s, b)) /\ isDescriptor(addEvent(s, b))
  <2>1. s.watched => s.open
    BY DEF isDescriptor, NoSocket
  <2>2. CASE s.watched
    BY <2>1, <2>2 DEF isDescriptor, setEvent, addEvent
  <2>3. CASE ~s.watched
    BY <2>3 DEF isDescriptor, setEvent, addEvent
  <2> QED
    BY <2>2, <2>3
<1> QED
  BY <1>1, <1>3, <1>4

LEMMA ShapeKept ==
  ASSUME Shape, TcpNext
  PROVE  Shape'
<1>0. UNCHANGED scene
  BY DEF TcpNext
<1>1. CASE post
  <2>1. Typed'
    BY <1>0, <1>1 DEF post, mayReconnect, ownerGoes, Shape, Typed, Connecting, ConnectStates, tcpShared
  <2>2. isDescriptor(sock')
    BY <1>1 DEF post, mayReconnect, ownerGoes, Shape, isDescriptor, Links, NoSocket, tcpShared
  <2>3. Unattached'
    BY <1>1 DEF post, mayReconnect, ownerGoes, Shape, Unattached, isDescriptor, NoSocket, tcpShared
  <2> QED
    BY <2>1, <2>2, <2>3 DEF Shape
<1>2. CASE postOpen
  <2>1. Typed'
    BY <1>0, <1>2 DEF postOpen, setEvent, Shape, Typed, Connecting, ConnectStates, tcpShared
  <2>2. isDescriptor(sock')
    BY <1>2, DescriptorsKept DEF postOpen, Shape, tcpShared
  <2>3. Unattached'
    BY <1>2 DEF postOpen, setEvent, Shape, Unattached, isDescriptor, NoSocket, tcpShared
  <2> QED
    BY <2>1, <2>2, <2>3 DEF Shape
<1>3. CASE initOptions
  <2>1. Typed'
    BY <1>0, <1>3 DEF initOptions, ownerGoes, setOptions, setSoBlocking, checkSocketHandle, Shape, Typed, Connecting, ConnectStates, tcpShared
  <2>2. isDescriptor(sock')
    BY <1>3 DEF initOptions, ownerGoes, setOptions, setSoBlocking, checkSocketHandle, Shape, isDescriptor, Links, NoSocket, tcpShared
  <2>3. Unattached'
    BY <1>3 DEF initOptions, ownerGoes, setOptions, setSoBlocking, checkSocketHandle, Shape, Unattached, isDescriptor, NoSocket, tcpShared
  <2> QED
    BY <2>1, <2>2, <2>3 DEF Shape
<1>4. CASE testState
  <2>1. Typed'
    BY <1>0, <1>4 DEF testState, ownerGoes, afterInit, Shape, Typed, Connecting, ConnectStates, tcpShared
  <2>2. isDescriptor(sock')
    BY <1>4 DEF testState, ownerGoes, afterInit, Shape, isDescriptor, Links, NoSocket, tcpShared
  <2>3. Unattached'
    BY <1>4 DEF testState, ownerGoes, afterInit, Shape, Unattached, isDescriptor, NoSocket, tcpShared
  <2> QED
    BY <2>1, <2>2, <2>3 DEF Shape
<1>5. CASE callConnect
  <2>1. Typed'
    BY <1>0, <1>5 DEF callConnect, connectSocket, checkSocketHandle, Shape, Typed, Connecting, ConnectStates, tcpShared
  <2>2. isDescriptor(sock')
    BY <1>5 DEF callConnect, connectSocket, checkSocketHandle, Shape, isDescriptor, Links, NoSocket, tcpShared
  <2>3. Unattached'
    BY <1>5 DEF callConnect, connectSocket, checkSocketHandle, Shape, Unattached, isDescriptor, NoSocket, tcpShared
  <2> QED
    BY <2>1, <2>2, <2>3 DEF Shape
<1>6. CASE register
  <2>1. Typed'
    BY <1>0, <1>6 DEF register, ownerGoes, afterInit, addEvent, Shape, Typed, Connecting, ConnectStates, tcpShared
  <2>2. isDescriptor(sock')
    BY <1>6 DEF register, ownerGoes, afterInit, addEvent, Shape, isDescriptor, Links, NoSocket, tcpShared
  <2>3. Unattached'
    BY <1>6 DEF register, ownerGoes, afterInit, addEvent, Shape, Unattached, isDescriptor, NoSocket, tcpShared
  <2> QED
    BY <2>1, <2>2, <2>3 DEF Shape
<1>7. CASE setConnected
  <2>1. Typed'
    BY <1>0, <1>7 DEF setConnected, ownerGoes, afterInit, Shape, Typed, Connecting, ConnectStates, tcpShared
  <2>2. isDescriptor(sock')
    BY <1>7 DEF setConnected, ownerGoes, afterInit, Shape, isDescriptor, Links, NoSocket, tcpShared
  <2>3. Unattached'
    BY <1>7 DEF setConnected, ownerGoes, afterInit, Shape, Unattached, isDescriptor, NoSocket, tcpShared
  <2> QED
    BY <2>1, <2>2, <2>3 DEF Shape
<1>8. CASE setConnecting
  <2>1. Typed'
    BY <1>0, <1>8 DEF setConnecting, ownerGoes, Shape, Typed, Connecting, ConnectStates, tcpShared
  <2>2. isDescriptor(sock')
    BY <1>8 DEF setConnecting, ownerGoes, Shape, isDescriptor, Links, NoSocket, tcpShared
  <2>3. Unattached'
    BY <1>8 DEF setConnecting, ownerGoes, Shape, Unattached, isDescriptor, NoSocket, tcpShared
  <2> QED
    BY <2>1, <2>2, <2>3 DEF Shape
<1>9. CASE giveUp
  <2>1. Typed'
    BY <1>0, <1>9 DEF giveUp, ownerGoes, closeSocket, outlived, afterInit, Shape, Typed, Connecting, ConnectStates, tcpShared
  <2>2. isDescriptor(sock')
    BY <1>9, DescriptorsKept DEF giveUp, ownerGoes, closeSocket, Shape, tcpShared
  <2>3. Unattached'
    BY <1>9 DEF giveUp, ownerGoes, closeSocket, outlived, afterInit, Shape, Unattached, isDescriptor, NoSocket, tcpShared
  <2> QED
    BY <2>1, <2>2, <2>3 DEF Shape
<1>10. CASE addToTransport
  <2>0. autoReconn' \in BOOLEAN /\ attached' \in BOOLEAN /\ listed' \in BOOLEAN
    BY <1>10 DEF addToTransport, ownerGoes, Shape, Typed, tcpShared
  <2>1. Typed'
    BY <1>0, <1>10, <2>0 DEF addToTransport, ownerGoes, addEvent, Shape, Typed, Connecting, ConnectStates, tcpShared
  <2>2. isDescriptor(sock')
    BY <1>10, DescriptorsKept DEF addToTransport, ownerGoes, Shape, tcpShared
  <2>3. Unattached'
    BY <1>10 DEF addToTransport, ownerGoes, addEvent, Shape, Unattached, isDescriptor, NoSocket, tcpShared
  <2> QED
    BY <2>1, <2>2, <2>3 DEF Shape
<1>11. CASE disconnectTcp
  <2>0. autoReconn' \in BOOLEAN /\ attached' \in BOOLEAN /\ listed' \in BOOLEAN
    BY <1>11 DEF disconnectTcp, ownerGoes, Shape, Typed
  <2>1. Typed'
    BY <1>0, <1>11, <2>0 DEF disconnectTcp, ownerGoes, shutdownSocket, Shape, Typed, Connecting, ConnectStates, tcpShared
  <2>2. isDescriptor(sock')
    BY <1>11 DEF disconnectTcp, ownerGoes, shutdownSocket, Shape, isDescriptor, Links, NoSocket, tcpShared
  <2>3. Unattached'
    BY <1>11 DEF disconnectTcp, ownerGoes, shutdownSocket, Shape, Unattached, isDescriptor, NoSocket, tcpShared
  <2> QED
    BY <2>1, <2>2, <2>3 DEF Shape
<1>12. CASE peerSteps
  <2>1. Typed'
    BY <1>0, <1>12 DEF peerSteps, Shape, Typed, Connecting, ConnectStates, tcpShared
  <2>2. isDescriptor(sock')
    BY <1>12 DEF peerSteps, Shape, isDescriptor, Links, NoSocket, tcpShared
  <2>3. Unattached'
    BY <1>12 DEF peerSteps, Shape, Unattached, isDescriptor, NoSocket, tcpShared
  <2> QED
    BY <2>1, <2>2, <2>3 DEF Shape
<1>13. CASE tickTcp
  <2>1. Typed'
    BY <1>0, <1>13, TCPComponentAssumption DEF tickTcp, Shape, Typed, Connecting, ConnectStates, tcpShared
  <2>2. isDescriptor(sock')
    BY <1>13 DEF tickTcp, Shape, isDescriptor, Links, NoSocket, tcpShared
  <2>3. Unattached'
    BY <1>13 DEF tickTcp, Shape, Unattached, isDescriptor, NoSocket, tcpShared
  <2> QED
    BY <2>1, <2>2, <2>3 DEF Shape
<1>14. CASE pollEvent
  <2>1. Typed'
    BY <1>0, <1>14 DEF pollEvent, tcpEvents, firstHandler, Shape, Typed, Connecting, ConnectStates, tcpShared
  <2>2. isDescriptor(sock')
    BY <1>14 DEF pollEvent, tcpEvents, firstHandler, Shape, isDescriptor, Links, NoSocket, tcpShared
  <2>3. Unattached'
    BY <1>14 DEF pollEvent, tcpEvents, firstHandler, Shape, Unattached, isDescriptor, NoSocket, tcpShared
  <2> QED
    BY <2>1, <2>2, <2>3 DEF Shape
<1>15. CASE handleReadEvent
  <2>1. Typed'
    BY <1>0, <1>15 DEF handleReadEvent, afterRead, Shape, Typed, Connecting, ConnectStates, tcpShared
  <2>2. isDescriptor(sock')
    BY <1>15 DEF handleReadEvent, afterRead, Shape, isDescriptor, Links, NoSocket, tcpShared
  <2>3. Unattached'
    BY <1>15 DEF handleReadEvent, afterRead, Shape, Unattached, isDescriptor, NoSocket, tcpShared
  <2> QED
    BY <2>1, <2>2, <2>3 DEF Shape
<1>16. CASE handleWriteEvent
  <2>1. Typed'
    BY <1>0, <1>16 DEF handleWriteEvent, loopGoes, setEvent, Shape, Typed, Connecting, ConnectStates, tcpShared
  <2>2. isDescriptor(sock')
    BY <1>16, DescriptorsKept DEF handleWriteEvent, loopGoes, Shape, tcpShared
  <2>3. Unattached'
    BY <1>16 DEF handleWriteEvent, loopGoes, setEvent, Shape, Unattached, isDescriptor, NoSocket, tcpShared
  <2> QED
    BY <2>1, <2>2, <2>3 DEF Shape
<1>17. CASE handleConnectEvent
  <2>1. Typed'
    BY <1>0, <1>17 DEF handleConnectEvent, getSoError, setEvent, closeSocket, removeEvent, clearedOutput, outlived, Shape, Typed, Connecting, ConnectStates, tcpShared
  <2>2. isDescriptor(sock')
    BY <1>17 DEF handleConnectEvent, getSoError, setEvent, closeSocket, removeEvent, clearedOutput, outlived, Shape, isDescriptor, Links, NoSocket, tcpShared
  <2>3. Unattached'
    BY <1>17 DEF handleConnectEvent, getSoError, setEvent, closeSocket, removeEvent, clearedOutput, outlived, Shape, Unattached, isDescriptor, NoSocket, tcpShared
  <2> QED
    BY <2>1, <2>2, <2>3 DEF Shape
<1>18. CASE connectAnswered
  <2>1. Typed'
    BY <1>0, <1>18 DEF connectAnswered, loopGoes, answeredState, Shape, Typed, Connecting, ConnectStates, tcpShared
  <2>2. isDescriptor(sock')
    BY <1>18 DEF connectAnswered, loopGoes, answeredState, Shape, isDescriptor, Links, NoSocket, tcpShared
  <2>3. Unattached'
    BY <1>18 DEF connectAnswered, loopGoes, answeredState, Shape, Unattached, isDescriptor, NoSocket, tcpShared
  <2> QED
    BY <2>1, <2>2, <2>3 DEF Shape
<1>19. CASE handleNothing
  <2>1. Typed'
    BY <1>0, <1>19 DEF handleNothing, loopGoes, Shape, Typed, Connecting, ConnectStates, tcpShared
  <2>2. isDescriptor(sock')
    BY <1>19 DEF handleNothing, loopGoes, Shape, isDescriptor, Links, NoSocket, tcpShared
  <2>3. Unattached'
    BY <1>19 DEF handleNothing, loopGoes, Shape, Unattached, isDescriptor, NoSocket, tcpShared
  <2> QED
    BY <2>1, <2>2, <2>3 DEF Shape
<1>20. CASE closeComponent
  <2>1. Typed'
    BY <1>0, <1>20 DEF closeComponent, loopGoes, removeEvent, closeSocket, outlived, Shape, Typed, Connecting, ConnectStates, tcpShared
  <2>2. isDescriptor(sock')
    BY <1>20, DescriptorsKept DEF closeComponent, loopGoes, closeSocket, Shape, tcpShared
  <2>3. Unattached'
    BY <1>20 DEF closeComponent, loopGoes, removeEvent, closeSocket, outlived, Shape, Unattached, isDescriptor, NoSocket, tcpShared
  <2> QED
    BY <2>1, <2>2, <2>3 DEF Shape
<1>21. CASE closeLate
  <2>1. Typed'
    BY <1>0, <1>21 DEF closeLate, checkConnect, Shape, Typed, Connecting, ConnectStates, tcpShared
  <2>2. isDescriptor(sock')
    BY <1>21 DEF closeLate, checkConnect, Shape, isDescriptor, Links, NoSocket, tcpShared
  <2>3. Unattached'
    BY <1>21 DEF closeLate, checkConnect, Shape, Unattached, isDescriptor, NoSocket, tcpShared
  <2> QED
    BY <2>1, <2>2, <2>3 DEF Shape
<1>22. CASE shutdownLate
  <2>1. Typed'
    BY <1>0, <1>22 DEF shutdownLate, shutdownSocket, Shape, Typed, Connecting, ConnectStates, tcpShared
  <2>2. isDescriptor(sock')
    BY <1>22 DEF shutdownLate, shutdownSocket, Shape, isDescriptor, Links, NoSocket, tcpShared
  <2>3. Unattached'
    BY <1>22 DEF shutdownLate, shutdownSocket, Shape, Unattached, isDescriptor, NoSocket, tcpShared
  <2> QED
    BY <2>1, <2>2, <2>3 DEF Shape
<1>23. CASE checkIdle
  <2>1. Typed'
    BY <1>0, <1>23 DEF checkIdle, Shape, Typed, Connecting, ConnectStates, tcpShared
  <2>2. isDescriptor(sock')
    BY <1>23 DEF checkIdle, Shape, isDescriptor, Links, NoSocket, tcpShared
  <2>3. Unattached'
    BY <1>23 DEF checkIdle, Shape, Unattached, isDescriptor, NoSocket, tcpShared
  <2> QED
    BY <2>1, <2>2, <2>3 DEF Shape
<1> QED
  BY <1>1, <1>2, <1>3, <1>4, <1>5, <1>6, <1>7, <1>8, <1>9, <1>10, <1>11, <1>12, <1>13, <1>14, <1>15, <1>16, <1>17, <1>18, <1>19, <1>20, <1>21, <1>22, <1>23
  DEF TcpNext, ownerStep, loopStep, timeoutStep

LEMMA ClearedKept ==
  ASSUME TcpInv, TcpNext
  PROVE  Cleared'
<1> USE DEF TcpInv
<1>0. UNCHANGED scene
  BY DEF TcpNext
<1>1. CASE post
  BY <1>0, <1>1 DEF post, mayReconnect, ownerGoes,
     Shape, Typed, isDescriptor, Unattached, Cleared, Connecting, ConnectStates, Links, NoSocket, tcpShared
<1>2. CASE postOpen
  BY <1>0, <1>2 DEF postOpen, setEvent,
     Shape, Typed, isDescriptor, Unattached, Cleared, Connecting, ConnectStates, Links, NoSocket, tcpShared
<1>3. CASE initOptions
  BY <1>0, <1>3 DEF initOptions, ownerGoes, setOptions, setSoBlocking, checkSocketHandle,
     Shape, Typed, isDescriptor, Unattached, Cleared, Connecting, ConnectStates, Links, NoSocket, tcpShared
<1>4. CASE testState
  BY <1>0, <1>4 DEF testState, ownerGoes, afterInit,
     Shape, Typed, isDescriptor, Unattached, Cleared, Connecting, ConnectStates, Links, NoSocket, tcpShared
<1>5. CASE callConnect
  BY <1>0, <1>5 DEF callConnect, connectSocket, checkSocketHandle,
     Shape, Typed, isDescriptor, Unattached, Cleared, Connecting, ConnectStates, Links, NoSocket, tcpShared
<1>6. CASE register
  BY <1>0, <1>6 DEF register, ownerGoes, afterInit, addEvent,
     Shape, Typed, isDescriptor, Unattached, Cleared, Connecting, ConnectStates, Links, NoSocket, tcpShared
<1>7. CASE setConnected
  BY <1>0, <1>7 DEF setConnected, ownerGoes, afterInit,
     Shape, Typed, isDescriptor, Unattached, Cleared, Connecting, ConnectStates, Links, NoSocket, tcpShared
<1>8. CASE setConnecting
  BY <1>0, <1>8 DEF setConnecting, ownerGoes,
     Shape, Typed, isDescriptor, Unattached, Cleared, Connecting, ConnectStates, Links, NoSocket, tcpShared
<1>9. CASE giveUp
  BY <1>0, <1>9 DEF giveUp, ownerGoes, closeSocket, outlived, afterInit,
     Shape, Typed, isDescriptor, Unattached, Cleared, Connecting, ConnectStates, Links, NoSocket, tcpShared
<1>10. CASE addToTransport
  BY <1>0, <1>10 DEF addToTransport, ownerGoes, addEvent,
     Shape, Typed, isDescriptor, Unattached, Cleared, Connecting, ConnectStates, Links, NoSocket, tcpShared
<1>11. CASE disconnectTcp
  BY <1>0, <1>11 DEF disconnectTcp, ownerGoes, shutdownSocket,
     Shape, Typed, isDescriptor, Unattached, Cleared, Connecting, ConnectStates, Links, NoSocket, tcpShared
<1>12. CASE peerSteps
  BY <1>0, <1>12 DEF peerSteps,
     Shape, Typed, isDescriptor, Unattached, Cleared, Connecting, ConnectStates, Links, NoSocket, tcpShared
<1>13. CASE tickTcp
  BY <1>0, <1>13 DEF tickTcp,
     Shape, Typed, isDescriptor, Unattached, Cleared, Connecting, ConnectStates, Links, NoSocket, tcpShared
<1>14. CASE pollEvent
  BY <1>0, <1>14 DEF pollEvent, tcpEvents, firstHandler,
     Shape, Typed, isDescriptor, Unattached, Cleared, Connecting, ConnectStates, Links, NoSocket, tcpShared
<1>15. CASE handleReadEvent
  BY <1>0, <1>15 DEF handleReadEvent, afterRead,
     Shape, Typed, isDescriptor, Unattached, Cleared, Connecting, ConnectStates, Links, NoSocket, tcpShared
<1>16. CASE handleWriteEvent
  BY <1>0, <1>16 DEF handleWriteEvent, loopGoes, setEvent,
     Shape, Typed, isDescriptor, Unattached, Cleared, Connecting, ConnectStates, Links, NoSocket, tcpShared
<1>17. CASE handleConnectEvent
  BY <1>0, <1>17 DEF handleConnectEvent, getSoError, setEvent, closeSocket, removeEvent, clearedOutput, outlived,
     Shape, Typed, isDescriptor, Unattached, Cleared, Connecting, ConnectStates, Links, NoSocket, tcpShared
<1>18. CASE connectAnswered
  BY <1>0, <1>18 DEF connectAnswered, loopGoes, answeredState,
     Shape, Typed, isDescriptor, Unattached, Cleared, Connecting, ConnectStates, Links, NoSocket, tcpShared
<1>19. CASE handleNothing
  BY <1>0, <1>19 DEF handleNothing, loopGoes,
     Shape, Typed, isDescriptor, Unattached, Cleared, Connecting, ConnectStates, Links, NoSocket, tcpShared
<1>20. CASE closeComponent
  BY <1>0, <1>20 DEF closeComponent, loopGoes, removeEvent, closeSocket, outlived,
     Shape, Typed, isDescriptor, Unattached, Cleared, Connecting, ConnectStates, Links, NoSocket, tcpShared
<1>21. CASE closeLate
  BY <1>0, <1>21 DEF closeLate, checkConnect,
     Shape, Typed, isDescriptor, Unattached, Cleared, Connecting, ConnectStates, Links, NoSocket, tcpShared
<1>22. CASE shutdownLate
  BY <1>0, <1>22 DEF shutdownLate, shutdownSocket,
     Shape, Typed, isDescriptor, Unattached, Cleared, Connecting, ConnectStates, Links, NoSocket, tcpShared
<1>23. CASE checkIdle
  BY <1>0, <1>23 DEF checkIdle,
     Shape, Typed, isDescriptor, Unattached, Cleared, Connecting, ConnectStates, Links, NoSocket, tcpShared
<1> QED
  BY <1>1, <1>2, <1>3, <1>4, <1>5, <1>6, <1>7, <1>8, <1>9, <1>10, <1>11, <1>12, <1>13, <1>14, <1>15, <1>16, <1>17, <1>18, <1>19, <1>20, <1>21, <1>22, <1>23
  DEF TcpNext, ownerStep, loopStep, timeoutStep

LEMMA WatchedKept ==
  ASSUME TcpInv, TcpNext
  PROVE  Watched'
<1> USE DEF TcpInv
<1>0. UNCHANGED scene
  BY DEF TcpNext
<1>1. CASE post /\ (scene.exclusive => loopPc = "poll" /\ timeoutPc = "check")
  BY <1>0, <1>1 DEF post, mayReconnect, ownerGoes,
     Shape, Typed, isDescriptor, Unattached, Watched, Connecting, ConnectStates, Links, NoSocket, tcpShared
<1>2. CASE postOpen
  BY <1>0, <1>2 DEF postOpen, setEvent,
     Shape, Typed, isDescriptor, Unattached, Watched, Connecting, ConnectStates, Links, NoSocket, tcpShared
<1>3. CASE initOptions
  BY <1>0, <1>3 DEF initOptions, ownerGoes, setOptions, setSoBlocking, checkSocketHandle,
     Shape, Typed, isDescriptor, Unattached, Watched, Connecting, ConnectStates, Links, NoSocket, tcpShared
<1>4. CASE testState
  BY <1>0, <1>4 DEF testState, ownerGoes, afterInit,
     Shape, Typed, isDescriptor, Unattached, Watched, Connecting, ConnectStates, Links, NoSocket, tcpShared
<1>5. CASE callConnect
  BY <1>0, <1>5 DEF callConnect, connectSocket, checkSocketHandle,
     Shape, Typed, isDescriptor, Unattached, Watched, Connecting, ConnectStates, Links, NoSocket, tcpShared
<1>6. CASE register
  BY <1>0, <1>6 DEF register, ownerGoes, afterInit, addEvent,
     Shape, Typed, isDescriptor, Unattached, Watched, Connecting, ConnectStates, Links, NoSocket, tcpShared
<1>7. CASE setConnected
  BY <1>0, <1>7 DEF setConnected, ownerGoes, afterInit,
     Shape, Typed, isDescriptor, Unattached, Watched, Connecting, ConnectStates, Links, NoSocket, tcpShared
<1>8. CASE setConnecting
  BY <1>0, <1>8 DEF setConnecting, ownerGoes,
     Shape, Typed, isDescriptor, Unattached, Watched, Connecting, ConnectStates, Links, NoSocket, tcpShared
<1>9. CASE giveUp
  BY <1>0, <1>9 DEF giveUp, ownerGoes, closeSocket, outlived, afterInit,
     Shape, Typed, isDescriptor, Unattached, Watched, Connecting, ConnectStates, Links, NoSocket, tcpShared
<1>10. CASE addToTransport
  BY <1>0, <1>10 DEF addToTransport, ownerGoes, addEvent,
     Shape, Typed, isDescriptor, Unattached, Watched, Connecting, ConnectStates, Links, NoSocket, tcpShared
<1>11. CASE disconnectTcp
  BY <1>0, <1>11 DEF disconnectTcp, ownerGoes, shutdownSocket,
     Shape, Typed, isDescriptor, Unattached, Watched, Connecting, ConnectStates, Links, NoSocket, tcpShared
<1>12. CASE peerSteps
  BY <1>0, <1>12 DEF peerSteps,
     Shape, Typed, isDescriptor, Unattached, Watched, Connecting, ConnectStates, Links, NoSocket, tcpShared
<1>13. CASE tickTcp
  BY <1>0, <1>13 DEF tickTcp,
     Shape, Typed, isDescriptor, Unattached, Watched, Connecting, ConnectStates, Links, NoSocket, tcpShared
<1>14. CASE pollEvent /\ tcpTurn(FALSE)
  BY <1>0, <1>14 DEF pollEvent, tcpEvents, firstHandler, tcpTurn,
     Shape, Typed, isDescriptor, Unattached, Watched, Connecting, ConnectStates, Links, NoSocket, tcpShared
<1>15. CASE handleReadEvent /\ tcpTurn(FALSE)
  BY <1>0, <1>15 DEF handleReadEvent, afterRead, tcpTurn,
     Shape, Typed, isDescriptor, Unattached, Watched, Connecting, ConnectStates, Links, NoSocket, tcpShared
<1>16. CASE handleWriteEvent /\ tcpTurn(FALSE)
  BY <1>0, <1>16 DEF handleWriteEvent, loopGoes, setEvent, tcpTurn,
     Shape, Typed, isDescriptor, Unattached, Watched, Connecting, ConnectStates, Links, NoSocket, tcpShared
<1>17. CASE handleConnectEvent /\ tcpTurn(FALSE)
  BY <1>0, <1>17 DEF handleConnectEvent, getSoError, setEvent, closeSocket, removeEvent, clearedOutput, outlived, tcpTurn,
     Shape, Typed, isDescriptor, Unattached, Watched, Connecting, ConnectStates, Links, NoSocket, tcpShared
<1>18. CASE connectAnswered /\ tcpTurn(FALSE)
  BY <1>0, <1>18 DEF connectAnswered, loopGoes, answeredState, tcpTurn,
     Shape, Typed, isDescriptor, Unattached, Watched, Connecting, ConnectStates, Links, NoSocket, tcpShared
<1>19. CASE handleNothing /\ tcpTurn(FALSE)
  BY <1>0, <1>19 DEF handleNothing, loopGoes, tcpTurn,
     Shape, Typed, isDescriptor, Unattached, Watched, Connecting, ConnectStates, Links, NoSocket, tcpShared
<1>20. CASE closeComponent /\ tcpTurn(FALSE)
  BY <1>0, <1>20 DEF closeComponent, loopGoes, removeEvent, closeSocket, outlived, tcpTurn,
     Shape, Typed, isDescriptor, Unattached, Watched, Connecting, ConnectStates, Links, NoSocket, tcpShared
<1>21. CASE closeLate /\ tcpTurn(FALSE)
  BY <1>0, <1>21 DEF closeLate, checkConnect, tcpTurn,
     Shape, Typed, isDescriptor, Unattached, Watched, Connecting, ConnectStates, Links, NoSocket, tcpShared
<1>22. CASE shutdownLate /\ tcpTurn(FALSE)
  BY <1>0, <1>22 DEF shutdownLate, shutdownSocket, tcpTurn,
     Shape, Typed, isDescriptor, Unattached, Watched, Connecting, ConnectStates, Links, NoSocket, tcpShared
<1>23. CASE checkIdle /\ tcpTurn(FALSE)
  BY <1>0, <1>23 DEF checkIdle, tcpTurn,
     Shape, Typed, isDescriptor, Unattached, Watched, Connecting, ConnectStates, Links, NoSocket, tcpShared
<1> QED
  BY <1>1, <1>2, <1>3, <1>4, <1>5, <1>6, <1>7, <1>8, <1>9, <1>10, <1>11, <1>12, <1>13, <1>14, <1>15, <1>16, <1>17, <1>18, <1>19, <1>20, <1>21, <1>22, <1>23
  DEF TcpNext, ownerStep, loopStep, timeoutStep

LEMMA TcpKept ==
  ASSUME TcpInv, [Next]_vars
  PROVE  TcpInv'
<1>1. CASE TcpNext
  BY <1>1, ShapeKept, ClearedKept, WatchedKept DEF TcpInv
<1>2. CASE UNCHANGED tcpVars
  BY <1>2 DEF tcpVars, tcpShared, TcpInv, Shape, Typed, isDescriptor, Unattached, Cleared, Watched
<1>3. TcpNext \/ UNCHANGED tcpVars
  BY DEF Next, only, vars
<1> QED
  BY <1>1, <1>2, <1>3

\* Whatever the owner, the read/write thread, the timeout thread and the peer do and however
\* late the timeout is: an open connection that nobody works on is watched by epoll, as long
\* as nobody is inside the component while its owner connects it again; and no rest of an
\* old packet is written to a new connection, unless a reconnect succeeds at once
\* (src/tbnet/src/tcpcomponent.cpp:53-190).
THEOREM ComponentIsSafe == Spec => []TcpSafe
<1>1. Init => TcpInv
  BY TcpStarts DEF Init
<1>2. TcpInv /\ [Next]_vars => TcpInv'
  BY TcpKept
<1>3. TcpInv => TcpSafe
  <2> SUFFICES ASSUME TcpInv PROVE TcpSafe
    OBVIOUS
  <2>1. OpenIsWatched
    BY DEF TcpInv, Watched, OpenIsWatched, tcpQuiet
  <2>2. StartsClean
    BY DEF TcpInv, Shape, isDescriptor, NoSocket, Cleared, StartsClean
  <2> QED
    BY <2>1, <2>2 DEF TcpSafe
<1> QED
  BY <1>1, <1>2, <1>3, PTL DEF Spec

-----------------------------------------------------------------------------
(* PacketQueue: its chains *)

\* The packets of s are chained by the pointers n from p on.
Chained(n, p, s) ==
  /\ s \in Seq(QueuedPackets) /\ \A i, j \in 1..Len(s) : s[i] = s[j] => i = j
  /\ p = (IF Len(s) = 0 THEN NoPacket ELSE s[1])
  /\ \A i \in 1..Len(s) : n[s[i]] = (IF i = Len(s) THEN NoPacket ELSE s[i + 1])

\* The fields of a queue of the packets s.
HoldsPackets(n, h, t, z, s) ==
  Chained(n, h, s) /\ z = Len(s) /\ t = (IF Len(s) = 0 THEN NoPacket ELSE s[Len(s)])

ApartPackets(s, u) == \A i \in 1..Len(s), j \in 1..Len(u) : s[i] # u[j]

QueueInv ==
  /\ QueueTypeOK
  /\ \A q \in Two : HoldsPackets(nextOf, headOf[q], tailOf[q], sizeOf[q], queued(q))
  /\ \A q, r \in Two : q # r => ApartPackets(queued(q), queued(r))

LEMMA LeastNumber ==
  ASSUME NEW S \in SUBSET Nat, S # {}
  PROVE  \E m \in S : \A n \in S : m <= n
<1>1. PICK m \in S : \A n \in S : <<n, m>> \notin OpToRel(<, Nat)
  <2>1. IsWellFoundedOn(OpToRel(<, Nat), Nat) /\ S \subseteq Nat
    BY NatLessThanWellFounded
  <2> QED
    BY <2>1, WFMin
<1>2. \A n \in S : ~(n < m)
  BY <1>1 DEF OpToRel
<1> QED
  BY <1>2

\* A sequence without repetitions is no longer than there are packets.
LEMMA ChainsShort ==
  ASSUME NEW n, NEW p, NEW s, Chained(n, p, s), p # NoPacket
  PROVE  s \in Chains /\ isChainFrom(n, p, s)
<1>1. s \in Seq(QueuedPackets) /\ Len(s) \in Nat /\ s \in [1..Len(s) -> QueuedPackets] /\ Len(s) # 0
  BY DEF Chained
<1>2. s \in Injection(1..Len(s), QueuedPackets)
  BY <1>1 DEF Chained, Injection, IsInjective
<1>3. IsFiniteSet(QueuedPackets)
  BY PacketQueueAssumption
<1>4. Cardinality(1..Len(s)) <= Cardinality(QueuedPackets)
  BY <1>2, <1>3, FS_Injection
<1>5. Cardinality(1..Len(s)) = Len(s)
  BY <1>1, FS_Interval
<1>6. Cardinality(QueuedPackets) \in Nat
  BY <1>3, FS_CardinalityType
<1>7. Len(s) \in 0..Cardinality(QueuedPackets)
  BY <1>1, <1>4, <1>5, <1>6
<1>8. s \in SeqOf(QueuedPackets, Cardinality(QueuedPackets))
  <2>1. \E m \in 0..Cardinality(QueuedPackets) : s \in [1..m -> QueuedPackets]
    BY <1>1, <1>7, Zenon
  <2> QED
    BY <2>1, Zenon DEF SeqOf
<1>9. s # <<>> /\ IsInjective(s)
  <2>1. s # <<>>
    BY <1>1
  <2>2. IsInjective(s)
    BY <1>2, Zenon DEF Injection
  <2> QED
    BY <2>1, <2>2
<1> QED
  BY <1>1, <1>8, <1>9 DEF Chains, isChainFrom, Chained

\* There is one chain from a packet.
LEMMA ChainsUnique ==
  ASSUME NEW n, NEW p, NEW s \in Chains, NEW u \in Chains, isChainFrom(n, p, s), isChainFrom(n, p, u)
  PROVE  s = u
<1>1. ASSUME NEW x \in Chains
      PROVE  x \in Seq(QueuedPackets) /\ Len(x) \in Nat \ {0} /\ \A i \in 1..Len(x) : x[i] \in QueuedPackets
  <2>1. PICK m \in 0..Cardinality(QueuedPackets) : x \in [1..m -> QueuedPackets]
    BY DEF Chains, SeqOf
  <2>2. m \in Nat
    <3>1. Cardinality(QueuedPackets) \in Nat
      BY PacketQueueAssumption, FS_CardinalityType
    <3> QED
      BY <3>1
  <2>3. x \in Seq(QueuedPackets) /\ x # <<>>
    BY <2>1, <2>2 DEF Chains
  <2> QED
    BY <2>3
<1>2. \A i \in QueuedPackets : i # NoPacket
  BY PacketQueueAssumption DEF NoPacket
<1> DEFINE Differ == {i \in Nat : i \in 1..Len(s) /\ i \in 1..Len(u) /\ s[i] # u[i]}
<1>3. Differ = {}
  <2> SUFFICES ASSUME Differ # {} PROVE FALSE
    OBVIOUS
  <2>1. PICK m \in Differ : \A k \in Differ : m <= k
    <3> HIDE DEF Differ
    <3>1. Differ \in SUBSET Nat
      BY DEF Differ
    <3> QED
      BY <3>1, LeastNumber
  <2>2. m # 1
    BY <2>1 DEF isChainFrom
  <2>3. m - 1 \in Nat /\ m - 1 \in 1..Len(s) /\ m - 1 \in 1..Len(u) /\ m - 1 \notin Differ
    BY <1>1, <2>1, <2>2
  <2>4. s[m - 1] = u[m - 1]
    BY <2>3
  <2>5. n[s[m - 1]] = s[m] /\ n[u[m - 1]] = u[m]
    <3>1. m - 1 # Len(s) /\ m - 1 # Len(u) /\ (m - 1) + 1 = m
      BY <1>1, <2>1, <2>2
    <3>2. n[s[m - 1]] = s[(m - 1) + 1] /\ n[u[m - 1]] = u[(m - 1) + 1]
      BY <2>3, <3>1 DEF isChainFrom
    <3> QED
      BY <3>1, <3>2
  <2> QED
    BY <2>1, <2>4, <2>5
<1>4. \A i \in 1..Len(s) : i \in 1..Len(u) => s[i] = u[i]
  BY <1>1, <1>3
<1>5. ASSUME NEW x \in Chains, NEW y \in Chains, isChainFrom(n, p, x), isChainFrom(n, p, y), Len(x) < Len(y),
             \A i \in 1..Len(x) : x[i] = y[i]
      PROVE  FALSE
  <2>1. Len(x) \in 1..Len(x) /\ Len(x) \in 1..Len(y) /\ Len(x) + 1 \in 1..Len(y)
    BY <1>1, <1>5
  <2>2. n[x[Len(x)]] = NoPacket /\ n[y[Len(x)]] = y[Len(x) + 1]
    BY <1>1, <1>5, <2>1 DEF isChainFrom
  <2>3. y[Len(x) + 1] \in QueuedPackets
    BY <1>1, <2>1
  <2> QED
    BY <1>2, <1>5, <2>1, <2>2, <2>3
<1>6. Len(s) = Len(u)
  <2>1. ~(Len(s) < Len(u))
    BY <1>1, <1>4, <1>5
  <2>2. ~(Len(u) < Len(s))
    BY <1>1, <1>4, <1>5
  <2> QED
    BY <1>1, <2>1, <2>2
<1> QED
  BY <1>1, <1>4, <1>6, SeqEqual

LEMMA ChainIs ==
  ASSUME NEW n, NEW p, NEW s, Chained(n, p, s)
  PROVE  chainFrom(n, p) = s
<1>1. s \in Seq(QueuedPackets) /\ \A i \in 1..Len(s) : s[i] \in QueuedPackets /\ s[i] # NoPacket
  BY PacketQueueAssumption DEF Chained, NoPacket
<1>2. CASE p = NoPacket
  <2>1. s = <<>>
    BY <1>1, <1>2 DEF Chained
  <2> QED
    BY <1>2, <2>1 DEF chainFrom
<1>3. CASE p # NoPacket
  <2>1. s \in Chains /\ isChainFrom(n, p, s)
    BY <1>3, ChainsShort
  <2>2. chainFrom(n, p) = CHOOSE x \in Chains : isChainFrom(n, p, x)
    BY <1>3 DEF chainFrom
  <2>3. chainFrom(n, p) \in Chains /\ isChainFrom(n, p, chainFrom(n, p))
    BY <2>1, <2>2, Zenon
  <2> QED
    BY <2>1, <2>3, ChainsUnique
<1> QED
  BY <1>2, <1>3

\* The queues are what their fields say.
LEMMA QueuesAre ==
  ASSUME NEW S, QueueTypeOK',
         \A q \in Two : HoldsPackets(nextOf', headOf'[q], tailOf'[q], sizeOf'[q], S[q]),
         \A q, r \in Two : q # r => ApartPackets(S[q], S[r])
  PROVE  QueueInv' /\ \A q \in Two : queued(q)' = S[q]
<1>1. \A q \in Two : queued(q)' = S[q]
  BY ChainIs DEF queued, HoldsPackets
<1> QED
  BY <1>1 DEF QueueInv

-----------------------------------------------------------------------------
(* PacketQueue: its steps *)

LEMMA QueueStarts == QueueInit => QueueInv
<1> SUFFICES ASSUME QueueInit PROVE QueueInv
  OBVIOUS
<1>1. QueueTypeOK
  BY DEF QueueInit, QueueTypeOK
<1>2. \A q \in Two : queued(q) = <<>> /\ HoldsPackets(nextOf, headOf[q], tailOf[q], sizeOf[q], <<>>)
  BY DEF QueueInit, queued, chainFrom, HoldsPackets, Chained
<1> QED
  BY <1>1, <1>2 DEF QueueInv, ApartPackets

\* What is known of a queue.
LEMMA QueueHas ==
  ASSUME QueueInv, NEW q \in Two
  PROVE  /\ queued(q) \in Seq(QueuedPackets) /\ Len(queued(q)) \in Nat
         /\ \A i \in 1..Len(queued(q)) : queued(q)[i] \in QueuedPackets /\ queued(q)[i] # NoPacket
         /\ \A i, j \in 1..Len(queued(q)) : queued(q)[i] = queued(q)[j] => i = j
         /\ headOf[q] = (IF Len(queued(q)) = 0 THEN NoPacket ELSE queued(q)[1])
         /\ \A i \in 1..Len(queued(q)) : nextOf[queued(q)[i]] = (IF i = Len(queued(q)) THEN NoPacket ELSE queued(q)[i + 1])
         /\ sizeOf[q] = Len(queued(q)) /\ tailOf[q] = (IF Len(queued(q)) = 0 THEN NoPacket ELSE queued(q)[Len(queued(q))])
BY PacketQueueAssumption DEF QueueInv, HoldsPackets, Chained, NoPacket

LEMMA QueueTyped ==
  ASSUME QueueInv
  PROVE  /\ headOf \in [Two -> QueuedPackets \cup {NoPacket}] /\ tailOf \in [Two -> QueuedPackets \cup {NoPacket}]
         /\ sizeOf \in [Two -> Nat] /\ nextOf \in [QueuedPackets -> QueuedPackets \cup {NoPacket}]
         /\ given \in Seq(QueuedPackets) /\ isLate \subseteq QueuedPackets
BY DEF QueueInv, QueueTypeOK

\* A queue that no pointer of is changed.
LEMMA OtherHolds ==
  ASSUME QueueInv, NEW q \in Two, headOf'[q] = headOf[q], tailOf'[q] = tailOf[q], sizeOf'[q] = sizeOf[q],
         \A i \in 1..Len(queued(q)) : nextOf'[queued(q)[i]] = nextOf[queued(q)[i]]
  PROVE  HoldsPackets(nextOf', headOf'[q], tailOf'[q], sizeOf'[q], queued(q))
BY DEF QueueInv, HoldsPackets, Chained

\* push(): the packet comes to the end.
LEMMA PushStep ==
  ASSUME QueueInv, NEW q \in Two, NEW p \in QueuedPackets, pushQueued(q, p)
  PROVE  /\ QueueInv' /\ given' = <<>> /\ UNCHANGED isLate /\ atHand(p)
         /\ \A r \in Two : queued(r)' = (IF r = q THEN Append(queued(r), p) ELSE queued(r))
<1> DEFINE S == [r \in Two |-> IF r = q THEN Append(queued(r), p) ELSE queued(r)]
           s == queued(q)
<1>0. atHand(p) /\ p # NoPacket
  BY PacketQueueAssumption DEF pushQueued, NoPacket
<1>1. \A r \in Two : \A i \in 1..Len(queued(r)) : queued(r)[i] # p
  BY <1>0 DEF atHand
<1>2. nextOf' = [x \in QueuedPackets |-> IF x = p THEN NoPacket ELSE IF x = tailOf[q] THEN p ELSE nextOf[x]]
  BY DEF pushQueued
<1>3. QueueTypeOK'
  <2>1. headOf' \in [Two -> QueuedPackets \cup {NoPacket}] /\ tailOf' \in [Two -> QueuedPackets \cup {NoPacket}]
        /\ sizeOf' \in [Two -> Nat] /\ given' \in Seq(QueuedPackets) /\ isLate' \subseteq QueuedPackets
    BY QueueTyped DEF pushQueued
  <2>2. nextOf' \in [QueuedPackets -> QueuedPackets \cup {NoPacket}]
    BY <1>2, QueueTyped
  <2> QED
    BY <2>1, <2>2 DEF QueueTypeOK
<1>4. /\ s \in Seq(QueuedPackets) /\ Len(s) \in Nat
      /\ \A i \in 1..Len(s) : s[i] \in QueuedPackets /\ s[i] # NoPacket
      /\ \A i, j \in 1..Len(s) : s[i] = s[j] => i = j
      /\ headOf[q] = (IF Len(s) = 0 THEN NoPacket ELSE s[1])
      /\ \A i \in 1..Len(s) : nextOf[s[i]] = (IF i = Len(s) THEN NoPacket ELSE s[i + 1])
      /\ sizeOf[q] = Len(s) /\ tailOf[q] = (IF Len(s) = 0 THEN NoPacket ELSE s[Len(s)])
      /\ \A i \in 1..Len(s) : s[i] # p
  BY <1>1, QueueHas
<1>5. /\ headOf'[q] = (IF Len(s) = 0 THEN p ELSE s[1]) /\ tailOf'[q] = p /\ sizeOf'[q] = Len(s) + 1
      /\ \A r \in Two : r # q => headOf'[r] = headOf[r] /\ tailOf'[r] = tailOf[r] /\ sizeOf'[r] = sizeOf[r]
  <2> HIDE DEF s
  <2>1. tailOf[q] = NoPacket <=> Len(s) = 0
    BY <1>4
  <2> QED
    BY <1>4, <2>1, QueueTyped DEF pushQueued
<1>6. HoldsPackets(nextOf', headOf'[q], tailOf'[q], sizeOf'[q], Append(s, p))
  <2> HIDE DEF s
  <2> DEFINE u == Append(s, p)
  <2>1. /\ u \in Seq(QueuedPackets) /\ Len(u) = Len(s) + 1
        /\ \A i \in 1..Len(u) : u[i] = IF i <= Len(s) THEN s[i] ELSE p
    BY <1>4
  <2>2. \A i, j \in 1..Len(u) : u[i] = u[j] => i = j
    BY <1>4, <2>1
  <2>3. \A i \in 1..Len(u) : nextOf'[u[i]] = (IF i = Len(u) THEN NoPacket ELSE u[i + 1])
    <3> SUFFICES ASSUME NEW i \in 1..Len(u) PROVE nextOf'[u[i]] = (IF i = Len(u) THEN NoPacket ELSE u[i + 1])
      OBVIOUS
    <3>1. CASE i = Len(u)
      BY <1>2, <1>4, <2>1, <3>1
    <3>2. CASE i = Len(s)
      <4>1. u[i] = s[Len(s)] /\ u[i] # p /\ u[i] = tailOf[q] /\ u[i] \in QueuedPackets /\ i + 1 \in 1..Len(u) /\ u[i + 1] = p
        BY <1>4, <2>1, <3>2
      <4> QED
        BY <1>2, <1>4, <2>1, <3>2, <4>1
    <3>3. CASE i < Len(s)
      <4>1. /\ i \in 1..Len(s) /\ Len(s) \in 1..Len(s) /\ i + 1 \in 1..Len(u)
            /\ u[i] = s[i] /\ u[i] # p /\ u[i] \in QueuedPackets /\ u[i + 1] = s[i + 1]
        BY <1>4, <2>1, <3>3
      <4>2. s[i] # s[Len(s)]
        BY <1>4, <3>3, <4>1
      <4> QED
        BY <1>2, <1>4, <2>1, <3>3, <4>1, <4>2
    <3> QED
      BY <1>4, <2>1, <3>1, <3>2, <3>3
  <2> HIDE DEF u
  <2>4. headOf'[q] = u[1] /\ tailOf'[q] = u[Len(u)] /\ Len(u) # 0
    BY <1>4, <1>5, <2>1
  <2>5. HoldsPackets(nextOf', headOf'[q], tailOf'[q], sizeOf'[q], u)
    BY <1>5, <2>1, <2>2, <2>3, <2>4 DEF HoldsPackets, Chained
  <2> QED
    BY <2>5 DEF u
<1>7. ASSUME NEW r \in Two, r # q PROVE HoldsPackets(nextOf', headOf'[r], tailOf'[r], sizeOf'[r], queued(r))
  <2>1. \A i \in 1..Len(queued(r)) : queued(r)[i] # p /\ queued(r)[i] # tailOf[q] /\ queued(r)[i] \in QueuedPackets
    <3>1. \A i \in 1..Len(queued(r)), j \in 1..Len(s) : queued(r)[i] # s[j]
      BY <1>7 DEF QueueInv, ApartPackets
    <3>2. \A i \in 1..Len(queued(r)) : queued(r)[i] \in QueuedPackets /\ queued(r)[i] # NoPacket
      BY QueueHas
    <3> HIDE DEF s
    <3>3. tailOf[q] = NoPacket \/ \E j \in 1..Len(s) : tailOf[q] = s[j]
      BY <1>4
    <3> QED
      BY <1>1, <3>1, <3>2, <3>3
  <2> QED
    BY <1>2, <1>5, <1>7, <2>1, OtherHolds
<1>8. \A r, k \in Two : r # k => ApartPackets(S[r], S[k])
  <2> SUFFICES ASSUME NEW r \in Two, NEW k \in Two, r # k PROVE ApartPackets(S[r], S[k])
    OBVIOUS
  <2>1. ApartPackets(queued(r), queued(k))
    BY DEF QueueInv
  <2>2. \A x \in Two : queued(x) \in Seq(QueuedPackets) /\ Len(queued(x)) \in Nat
    BY QueueHas
  <2>3. ASSUME NEW x \in Two, NEW i \in 1..Len(S[x])
        PROVE  (i \in 1..Len(queued(x)) /\ S[x][i] = queued(x)[i]) \/ (S[x][i] = p /\ x = q)
    <3>1. CASE x = q
      <4>1. Len(Append(queued(x), p)) = Len(queued(x)) + 1
            /\ \A j \in 1..Len(queued(x)) + 1 : Append(queued(x), p)[j] = IF j <= Len(queued(x)) THEN queued(x)[j] ELSE p
        BY <2>2, AppendProperties
      <4> QED
        BY <2>2, <2>3, <3>1, <4>1
    <3>2. CASE x # q
      BY <2>3, <3>2
    <3> QED
      BY <3>1, <3>2
  <2> QED
    BY <1>1, <2>1, <2>3 DEF ApartPackets
<1>9. \A r \in Two : HoldsPackets(nextOf', headOf'[r], tailOf'[r], sizeOf'[r], S[r])
  BY <1>6, <1>7
<1> HIDE DEF S
<1>10. QueueInv' /\ \A r \in Two : queued(r)' = S[r]
  BY <1>3, <1>8, <1>9, QueuesAre
<1> QED
  BY <1>0, <1>10 DEF pushQueued, S

\* n packets are taken out in front of a queue.
LEMMA FrontTaken ==
  ASSUME QueueInv, NEW q \in Two, NEW n \in 1..Len(queued(q)),
         headOf' = [headOf EXCEPT ![q] = IF n = Len(queued(q)) THEN NoPacket ELSE queued(q)[n + 1]],
         tailOf' = [tailOf EXCEPT ![q] = IF n = Len(queued(q)) THEN NoPacket ELSE tailOf[q]],
         sizeOf' = [sizeOf EXCEPT ![q] = sizeOf[q] - n],
         nextOf' \in [QueuedPackets -> QueuedPackets \cup {NoPacket}],
         \A x \in QueuedPackets : (\A i \in 1..n : x # queued(q)[i]) => nextOf'[x] = nextOf[x],
         given' = SubSeq(queued(q), 1, n), UNCHANGED isLate
  PROVE  /\ QueueInv'
         /\ \A r \in Two : queued(r)' = (IF r = q THEN SubSeq(queued(r), n + 1, Len(queued(r))) ELSE queued(r))
<1> DEFINE S == [r \in Two |-> IF r = q THEN SubSeq(queued(r), n + 1, Len(queued(r))) ELSE queued(r)]
           s == queued(q)
           u == SubSeq(s, n + 1, Len(s))
<1>1. /\ s \in Seq(QueuedPackets) /\ Len(s) \in Nat
      /\ \A i \in 1..Len(s) : s[i] \in QueuedPackets /\ s[i] # NoPacket
      /\ \A i, j \in 1..Len(s) : s[i] = s[j] => i = j
      /\ \A i \in 1..Len(s) : nextOf[s[i]] = (IF i = Len(s) THEN NoPacket ELSE s[i + 1])
      /\ sizeOf[q] = Len(s) /\ tailOf[q] = (IF Len(s) = 0 THEN NoPacket ELSE s[Len(s)])
  BY QueueHas
<1>2. n \in Nat /\ n >= 1 /\ n <= Len(s)
  BY <1>1
<1>3. /\ u \in Seq(QueuedPackets) /\ Len(u) = Len(s) - n /\ \A i \in 1..Len(u) : u[i] = s[n + i] /\ n + i \in 1..Len(s)
      /\ SubSeq(s, 1, n) \in Seq(QueuedPackets)
  <2> HIDE DEF s
  <2>1. n + 1 \in Nat /\ n + 1 >= 1 /\ n + 1 <= Len(s) + 1
    BY <1>1, <1>2
  <2> QED
    BY <1>1, <1>2, <2>1
<1>11. Len(s) \in Nat
  BY <1>1
<1>12. Len(u) = Len(s) - n
  BY <1>3
<1>4. /\ headOf'[q] = (IF n = Len(s) THEN NoPacket ELSE s[n + 1]) /\ tailOf'[q] = (IF n = Len(s) THEN NoPacket ELSE tailOf[q])
      /\ sizeOf'[q] = Len(s) - n
      /\ \A r \in Two : r # q => headOf'[r] = headOf[r] /\ tailOf'[r] = tailOf[r] /\ sizeOf'[r] = sizeOf[r]
  BY <1>1, QueueTyped
<1>5. QueueTypeOK'
  <2>1. headOf'[q] \in QueuedPackets \cup {NoPacket} /\ tailOf'[q] \in QueuedPackets \cup {NoPacket} /\ sizeOf'[q] \in Nat
    <3> HIDE DEF s
    <3>1. n # Len(s) => n + 1 \in 1..Len(s)
      BY <1>1, <1>2
    <3> QED
      BY <1>1, <1>2, <1>4, <3>1, QueueTyped
  <2>2. /\ headOf' \in [Two -> QueuedPackets \cup {NoPacket}] /\ tailOf' \in [Two -> QueuedPackets \cup {NoPacket}]
        /\ sizeOf' \in [Two -> Nat]
    BY <1>4, <2>1, QueueTyped
  <2>3. given' \in Seq(QueuedPackets) /\ isLate' \subseteq QueuedPackets
    BY <1>3, QueueTyped
  <2> QED
    BY <2>2, <2>3 DEF QueueTypeOK
<1>6. HoldsPackets(nextOf', headOf'[q], tailOf'[q], sizeOf'[q], u)
  <2> HIDE DEF s, u
  <2>1. \A i, j \in 1..Len(u) : u[i] = u[j] => i = j
    <3> SUFFICES ASSUME NEW i \in 1..Len(u), NEW j \in 1..Len(u), u[i] = u[j] PROVE i = j
      OBVIOUS
    <3>1. n + i = n + j
      BY <1>1, <1>3
    <3> QED
      BY <1>2, <3>1
  <2>2. ASSUME NEW i \in 1..Len(u) PROVE nextOf'[u[i]] = (IF i = Len(u) THEN NoPacket ELSE u[i + 1])
    <3>1. n + i \in 1..Len(s) /\ u[i] = s[n + i] /\ i \in Nat /\ i >= 1
      BY <1>1, <1>2, <1>3
    <3>2. \A k \in 1..n : u[i] # s[k]
      <4> SUFFICES ASSUME NEW k \in 1..n, s[n + i] = s[k] PROVE FALSE
        BY <3>1
      <4>1. k \in 1..Len(s) /\ k # n + i
        BY <1>1, <1>2, <3>1
      <4> QED
        BY <1>1, <3>1, <4>1
    <3>3. u[i] \in QueuedPackets
      BY <1>1, <3>1
    <3>4. nextOf'[u[i]] = nextOf[u[i]]
      BY <3>2, <3>3 DEF s
    <3>5. nextOf[s[n + i]] = (IF n + i = Len(s) THEN NoPacket ELSE s[n + i + 1])
      BY <1>1, <3>1
    <3>6. CASE i = Len(u)
      <4>1. n + i = Len(s)
        BY <1>1, <1>2, <1>3, <3>6
      <4> QED
        BY <3>1, <3>4, <3>5, <3>6, <4>1
    <3>7. CASE i # Len(u)
      <4>3. Len(u) \in Nat /\ i \in Nat /\ i < Len(u)
        <5>1. Len(u) \in Nat
          BY <1>2, <1>11, <1>12
        <5> QED
          BY <3>1, <3>7, <5>1
      <4>4. i + 1 \in 1..Len(u) /\ n + (i + 1) = n + i + 1
        BY <1>2, <4>3
      <4>5. n + i # Len(s)
        BY <1>2, <1>11, <1>12, <4>3
      <4>1. i + 1 \in 1..Len(u) /\ n + i # Len(s) /\ n + (i + 1) = n + i + 1
        BY <4>4, <4>5
      <4>2. u[i + 1] = s[n + (i + 1)]
        BY <1>3, <4>1
      <4> QED
        BY <3>1, <3>4, <3>5, <3>7, <4>1, <4>2
    <3> QED
      BY <3>6, <3>7
  <2>3. headOf'[q] = (IF Len(u) = 0 THEN NoPacket ELSE u[1]) /\ tailOf'[q] = (IF Len(u) = 0 THEN NoPacket ELSE u[Len(u)])
    <3>1. CASE n = Len(s)
      BY <1>1, <1>2, <1>3, <1>4, <3>1
    <3>2. CASE n # Len(s)
      <4>1. Len(u) # 0 /\ 1 \in 1..Len(u) /\ Len(u) \in 1..Len(u) /\ n + Len(u) = Len(s) /\ Len(s) # 0
        BY <1>1, <1>2, <1>3, <3>2
      <4>2. u[1] = s[n + 1] /\ u[Len(u)] = s[n + Len(u)]
        BY <1>3, <4>1
      <4> QED
        BY <1>1, <1>4, <3>2, <4>1, <4>2
    <3> QED
      BY <3>1, <3>2
  <2> QED
    BY <1>3, <1>4, <2>1, <2>2, <2>3 DEF HoldsPackets, Chained
<1>7. ASSUME NEW r \in Two, r # q PROVE HoldsPackets(nextOf', headOf'[r], tailOf'[r], sizeOf'[r], queued(r))
  <2>1. \A i \in 1..Len(queued(r)) : nextOf'[queued(r)[i]] = nextOf[queued(r)[i]]
    <3> SUFFICES ASSUME NEW i \in 1..Len(queued(r)) PROVE nextOf'[queued(r)[i]] = nextOf[queued(r)[i]]
      OBVIOUS
    <3>1. \A j \in 1..Len(s) : queued(r)[i] # s[j]
      BY <1>7 DEF QueueInv, ApartPackets
    <3>2. queued(r)[i] \in QueuedPackets
      BY QueueHas
    <3>3. \A j \in 1..n : j \in 1..Len(s)
      BY <1>1, <1>2
    <3> QED
      BY <3>1, <3>2, <3>3
  <2> QED
    BY <1>4, <1>7, <2>1, OtherHolds
<1>8. \A r, k \in Two : r # k => ApartPackets(S[r], S[k])
  <2> SUFFICES ASSUME NEW r \in Two, NEW k \in Two, r # k PROVE ApartPackets(S[r], S[k])
    OBVIOUS
  <2>1. ApartPackets(queued(r), queued(k))
    BY DEF QueueInv
  <2>2. ASSUME NEW x \in Two, NEW i \in 1..Len(S[x]) PROVE \E j \in 1..Len(queued(x)) : S[x][i] = queued(x)[j]
    <3>1. CASE x = q
      BY <1>3, <2>2, <3>1
    <3>2. CASE x # q
      BY <2>2, <3>2
    <3> QED
      BY <3>1, <3>2
  <2> HIDE DEF S
  <2>3. ASSUME NEW i \in 1..Len(S[r]), NEW j \in 1..Len(S[k]) PROVE S[r][i] # S[k][j]
    <3>1. PICK a \in 1..Len(queued(r)) : S[r][i] = queued(r)[a]
      BY <2>2
    <3>2. PICK b \in 1..Len(queued(k)) : S[k][j] = queued(k)[b]
      BY <2>2
    <3> QED
      BY <2>1, <3>1, <3>2 DEF ApartPackets
  <2> QED
    BY <2>3 DEF ApartPackets
<1>9. \A r \in Two : HoldsPackets(nextOf', headOf'[r], tailOf'[r], sizeOf'[r], S[r])
  BY <1>6, <1>7
<1> HIDE DEF S
<1>10. QueueInv' /\ \A r \in Two : queued(r)' = S[r]
  BY <1>5, <1>8, <1>9, QueuesAre
<1> QED
  BY <1>10 DEF S

\* moveTo(): the packets of a queue come to the end of another one.
LEMMA MoveStep ==
  ASSUME QueueInv, NEW q \in Two, NEW k \in Two \ {q}, moveTo(q, k)
  PROVE  /\ QueueInv' /\ given' = <<>> /\ UNCHANGED isLate
         /\ \A r \in Two : queued(r)' = (IF r = q THEN <<>> ELSE IF r = k THEN queued(r) \o queued(q) ELSE queued(r))
<1> DEFINE S == [r \in Two |-> IF r = q THEN <<>> ELSE IF r = k THEN queued(r) \o queued(q) ELSE queued(r)]
           s == queued(q)
           u == queued(k)
           w == u \o s
<1>1. /\ s \in Seq(QueuedPackets) /\ Len(s) \in Nat
      /\ \A i \in 1..Len(s) : s[i] \in QueuedPackets /\ s[i] # NoPacket
      /\ \A i, j \in 1..Len(s) : s[i] = s[j] => i = j
      /\ headOf[q] = (IF Len(s) = 0 THEN NoPacket ELSE s[1])
      /\ \A i \in 1..Len(s) : nextOf[s[i]] = (IF i = Len(s) THEN NoPacket ELSE s[i + 1])
      /\ sizeOf[q] = Len(s) /\ tailOf[q] = (IF Len(s) = 0 THEN NoPacket ELSE s[Len(s)])
  BY QueueHas
<1>2. /\ u \in Seq(QueuedPackets) /\ Len(u) \in Nat
      /\ \A i \in 1..Len(u) : u[i] \in QueuedPackets /\ u[i] # NoPacket
      /\ \A i, j \in 1..Len(u) : u[i] = u[j] => i = j
      /\ headOf[k] = (IF Len(u) = 0 THEN NoPacket ELSE u[1])
      /\ \A i \in 1..Len(u) : nextOf[u[i]] = (IF i = Len(u) THEN NoPacket ELSE u[i + 1])
      /\ sizeOf[k] = Len(u) /\ tailOf[k] = (IF Len(u) = 0 THEN NoPacket ELSE u[Len(u)])
  BY QueueHas
<1>3. \A i \in 1..Len(s), j \in 1..Len(u) : s[i] # u[j]
  BY DEF QueueInv, ApartPackets
<1>4. /\ w \in Seq(QueuedPackets) /\ Len(w) = Len(u) + Len(s)
      /\ \A i \in 1..Len(u) + Len(s) : w[i] = IF i <= Len(u) THEN u[i] ELSE s[i - Len(u)]
  BY <1>1, <1>2, ConcatProperties
<1>15. Len(s) \in Nat /\ Len(u) \in Nat /\ Len(w) = Len(u) + Len(s)
  BY <1>1, <1>2, <1>4
<1>5. Len(s) # 0 /\ headOf[q] = s[1] /\ tailOf[q] = s[Len(s)] /\ (tailOf[k] = NoPacket <=> Len(u) = 0)
      /\ 1 \in 1..Len(s) /\ Len(s) \in 1..Len(s)
  <2> HIDE DEF s, u
  <2>1. Len(s) # 0
    BY <1>1 DEF moveTo
  <2> QED
    BY <1>1, <1>2, <2>1
<1>6. /\ headOf'[q] = NoPacket /\ tailOf'[q] = NoPacket /\ sizeOf'[q] = 0
      /\ headOf'[k] = (IF Len(u) = 0 THEN s[1] ELSE u[1]) /\ tailOf'[k] = s[Len(s)] /\ sizeOf'[k] = Len(u) + Len(s)
      /\ \A r \in Two : r # q /\ r # k => headOf'[r] = headOf[r] /\ tailOf'[r] = tailOf[r] /\ sizeOf'[r] = sizeOf[r]
  <2> HIDE DEF s, u
  <2> QED
    BY <1>1, <1>2, <1>5, QueueTyped DEF moveTo
<1>7. \A x \in QueuedPackets : nextOf'[x] = IF Len(u) # 0 /\ x = u[Len(u)] THEN s[1] ELSE nextOf[x]
  <2> HIDE DEF s, u
  <2> QED
    BY <1>2, <1>5, QueueTyped DEF moveTo
<1>8. QueueTypeOK'
  <2>1. sizeOf' \in [Two -> Nat] /\ given' \in Seq(QueuedPackets) /\ isLate' \subseteq QueuedPackets
    BY QueueTyped DEF moveTo
  <2>3. headOf' \in [Two -> QueuedPackets \cup {NoPacket}]
    BY QueueTyped DEF moveTo
  <2>4. tailOf' \in [Two -> QueuedPackets \cup {NoPacket}]
    BY QueueTyped DEF moveTo
  <2>2. nextOf' \in [QueuedPackets -> QueuedPackets \cup {NoPacket}]
    BY QueueTyped DEF moveTo
  <2> QED
    BY <2>1, <2>2, <2>3, <2>4 DEF QueueTypeOK
<1>9. HoldsPackets(nextOf', headOf'[q], tailOf'[q], sizeOf'[q], <<>>)
  BY <1>6 DEF HoldsPackets, Chained
<1>10. HoldsPackets(nextOf', headOf'[k], tailOf'[k], sizeOf'[k], w)
  <2> HIDE DEF s, u, w
  <2>1. ASSUME NEW i \in 1..Len(w), NEW j \in 1..Len(w), w[i] = w[j] PROVE i = j
    <3>1. i \in Nat /\ j \in Nat /\ i >= 1 /\ j >= 1 /\ i <= Len(u) + Len(s) /\ j <= Len(u) + Len(s)
      BY <1>4, <1>15
    <3>2. /\ w[i] = IF i <= Len(u) THEN u[i] ELSE s[i - Len(u)]
          /\ w[j] = IF j <= Len(u) THEN u[j] ELSE s[j - Len(u)]
      BY <1>4, <3>1
    <3>3. CASE i <= Len(u) /\ j <= Len(u)
      <4>1. i \in 1..Len(u) /\ j \in 1..Len(u) /\ w[i] = u[i] /\ w[j] = u[j]
        BY <1>15, <3>1, <3>2, <3>3
      <4> QED
        BY <1>2, <2>1, <4>1
    <3>4. CASE i > Len(u) /\ j > Len(u)
      <4>1. i - Len(u) \in 1..Len(s) /\ j - Len(u) \in 1..Len(s)
        BY <1>15, <3>1, <3>4
      <4>2. w[i] = s[i - Len(u)] /\ w[j] = s[j - Len(u)]
        BY <1>15, <3>1, <3>2, <3>4
      <4>3. i - Len(u) = j - Len(u)
        BY <1>1, <2>1, <4>1, <4>2
      <4> QED
        BY <1>15, <3>1, <4>3
    <3>5. CASE i <= Len(u) /\ j > Len(u)
      <4>1. i \in 1..Len(u) /\ j - Len(u) \in 1..Len(s)
        BY <1>15, <3>1, <3>5
      <4>2. w[i] = u[i] /\ w[j] = s[j - Len(u)]
        BY <1>15, <3>1, <3>2, <3>5
      <4> QED
        BY <1>3, <2>1, <4>1, <4>2
    <3>6. CASE i > Len(u) /\ j <= Len(u)
      <4>1. j \in 1..Len(u) /\ i - Len(u) \in 1..Len(s)
        BY <1>15, <3>1, <3>6
      <4>2. w[j] = u[j] /\ w[i] = s[i - Len(u)]
        BY <1>15, <3>1, <3>2, <3>6
      <4> QED
        BY <1>3, <2>1, <4>1, <4>2
    <3> QED
      BY <1>15, <3>1, <3>3, <3>4, <3>5, <3>6
  <2>2. ASSUME NEW i \in 1..Len(w) PROVE nextOf'[w[i]] = (IF i = Len(w) THEN NoPacket ELSE w[i + 1])
    <3>1. i \in Nat /\ i >= 1 /\ i <= Len(u) + Len(s) /\ w[i] = (IF i <= Len(u) THEN u[i] ELSE s[i - Len(u)])
      BY <1>4, <1>15
    <3>2. CASE i < Len(u)
      <4>1. i \in 1..Len(u) /\ Len(u) \in 1..Len(u) /\ i + 1 \in 1..Len(u) /\ i # Len(w) /\ Len(u) # 0 /\ i + 1 \in 1..Len(u) + Len(s)
        BY <1>15, <3>1, <3>2
      <4>2. w[i] = u[i] /\ w[i + 1] = u[i + 1] /\ u[i] # u[Len(u)] /\ u[i] \in QueuedPackets
        BY <1>2, <1>4, <3>1, <3>2, <4>1
      <4>3. nextOf'[u[i]] = nextOf[u[i]] /\ nextOf[u[i]] = u[i + 1]
        BY <1>2, <1>7, <3>2, <4>1, <4>2
      <4> QED
        BY <4>1, <4>2, <4>3
    <3>3. CASE i = Len(u)
      <4>1. i \in 1..Len(u) /\ i # Len(w) /\ Len(u) # 0 /\ i + 1 \in 1..Len(u) + Len(s) /\ ~(i + 1 <= Len(u)) /\ i + 1 - Len(u) = 1
        BY <1>5, <1>15, <3>1, <3>3
      <4>2. w[i] = u[Len(u)] /\ w[i + 1] = s[1] /\ u[Len(u)] \in QueuedPackets
        BY <1>2, <1>4, <3>1, <3>3, <4>1
      <4> QED
        BY <1>7, <4>1, <4>2
    <3>4. CASE i > Len(u)
      <4> DEFINE j == i - Len(u)
      <4>1. j \in 1..Len(s) /\ (j = Len(s) <=> i = Len(w)) /\ ~(i <= Len(u))
        BY <1>15, <3>1, <3>4
      <4>2. w[i] = s[j] /\ s[j] \in QueuedPackets
        BY <1>1, <3>1, <4>1
      <4>3. ~(Len(u) # 0 /\ s[j] = u[Len(u)])
        <5>1. Len(u) # 0 => Len(u) \in 1..Len(u)
          BY <1>2
        <5> QED
          BY <1>3, <4>1, <5>1
      <4>4. nextOf'[s[j]] = nextOf[s[j]] /\ nextOf[s[j]] = (IF j = Len(s) THEN NoPacket ELSE s[j + 1])
        BY <1>1, <1>7, <4>1, <4>2, <4>3
      <4>5. i # Len(w) => w[i + 1] = s[j + 1]
        <5> SUFFICES ASSUME i # Len(w) PROVE w[i + 1] = s[j + 1]
          OBVIOUS
        <5>1. i + 1 \in 1..Len(u) + Len(s) /\ ~(i + 1 <= Len(u)) /\ (i + 1) - Len(u) = j + 1
          BY <1>15, <3>1, <3>4
        <5>2. w[i + 1] = s[(i + 1) - Len(u)]
          BY <1>4, <5>1
        <5> QED
          BY <5>1, <5>2
      <4> QED
        BY <4>1, <4>2, <4>4, <4>5
    <3> QED
      BY <1>15, <3>1, <3>2, <3>3, <3>4
  <2>3. Len(w) # 0 /\ headOf'[k] = w[1] /\ tailOf'[k] = w[Len(w)] /\ sizeOf'[k] = Len(w)
    <3>1. Len(w) # 0 /\ 1 \in 1..Len(u) + Len(s) /\ Len(w) \in 1..Len(u) + Len(s) /\ ~(Len(w) <= Len(u)) /\ Len(w) - Len(u) = Len(s)
      BY <1>5, <1>15
    <3>2. w[Len(w)] = s[Len(s)]
      BY <1>4, <3>1
    <3>3. w[1] = IF Len(u) = 0 THEN s[1] ELSE u[1]
      <4>1. CASE Len(u) = 0
        <5>1. ~(1 <= Len(u)) /\ 1 - Len(u) = 1
          BY <4>1
        <5> QED
          BY <1>4, <3>1, <4>1, <5>1
      <4>2. CASE Len(u) # 0
        <5>1. 1 <= Len(u)
          BY <1>2, <4>2
        <5> QED
          BY <1>4, <3>1, <4>2, <5>1
      <4> QED
        BY <4>1, <4>2
    <3> QED
      BY <1>4, <1>6, <3>1, <3>2, <3>3
  <2> QED
    BY <1>4, <2>1, <2>2, <2>3 DEF HoldsPackets, Chained
<1>11. \A r \in Two : r = q \/ r = k
  BY DEF Two
<1>12. \A r \in Two : HoldsPackets(nextOf', headOf'[r], tailOf'[r], sizeOf'[r], S[r])
  BY <1>9, <1>10, <1>11
<1>13. \A r, x \in Two : r # x => ApartPackets(S[r], S[x])
  <2>1. S[q] = <<>> /\ Len(<<>>) = 0
    OBVIOUS
  <2> HIDE DEF S
  <2> QED
    BY <1>11, <2>1 DEF ApartPackets
<1> HIDE DEF S
<1>14. QueueInv' /\ \A r \in Two : queued(r)' = S[r]
  BY <1>8, <1>12, <1>13, QueuesAre
<1> QED
  BY <1>14 DEF moveTo, S

\* How many of the packets in front are late.
LEMMA LateCounted ==
  ASSUME QueueInv, NEW q \in Two
  PROVE  lateInFront(q) \in 0..Len(queued(q))
<1> DEFINE I == {i \in 1..Len(queued(q)) : queued(q)[i] \notin isLate}
           n == SelectInSeq(queued(q), LAMBDA p : p \notin isLate)
<1>1. Len(queued(q)) \in Nat
  BY QueueHas
<1>2. n = IF I # {} THEN Min(I) ELSE 0
  BY DEF SelectInSeq
<1>3. I # {} => Min(I) \in I
  <2> SUFFICES ASSUME I # {} PROVE Min(I) \in I
    OBVIOUS
  <2>1. I \in SUBSET Nat
    BY <1>1
  <2> HIDE DEF I
  <2>2. \E m \in I : \A k \in I : m <= k
    BY <2>1, LeastNumber
  <2> QED
    BY <2>2 DEF Min
<1>4. n \in 0..Len(queued(q))
  <2> HIDE DEF n
  <2>1. CASE I # {}
    <3>1. n \in I
      BY <1>2, <1>3, <2>1
    <3> QED
      BY <1>1, <3>1
  <2>2. CASE I = {}
    BY <1>1, <1>2, <2>2
  <2> QED
    BY <2>1, <2>2
<1>5. lateInFront(q) = IF n = 0 THEN Len(queued(q)) ELSE n - 1
  BY DEF lateInFront
<1> HIDE DEF n
<1> QED
  BY <1>1, <1>4, <1>5

\* pop(), clear() and getTimeoutList() take packets out in front.
LEMMA TakesFront ==
  ASSUME QueueInv, NEW q \in Two, popQueued(q) \/ clearQueued(q) \/ getTimeoutPackets(q)
  PROVE  \E n \in 1..Len(queued(q)) :
           /\ n = 1 \/ n = Len(queued(q)) \/ n = lateInFront(q)
           /\ QueueInv' /\ given' = SubSeq(queued(q), 1, n) /\ UNCHANGED isLate
           /\ \A r \in Two : queued(r)' = (IF r = q THEN SubSeq(queued(r), n + 1, Len(queued(r))) ELSE queued(r))
<1> DEFINE s == queued(q)
           Cut(n) == /\ headOf' = [headOf EXCEPT ![q] = IF n = Len(s) THEN NoPacket ELSE s[n + 1]]
                     /\ tailOf' = [tailOf EXCEPT ![q] = IF n = Len(s) THEN NoPacket ELSE tailOf[q]]
                     /\ sizeOf' = [sizeOf EXCEPT ![q] = sizeOf[q] - n]
                     /\ nextOf' \in [QueuedPackets -> QueuedPackets \cup {NoPacket}]
                     /\ \A x \in QueuedPackets : (\A i \in 1..n : x # s[i]) => nextOf'[x] = nextOf[x]
                     /\ given' = SubSeq(s, 1, n) /\ UNCHANGED isLate
<1>1. SUFFICES \E n \in 1..Len(s) : (n = 1 \/ n = Len(s) \/ n = lateInFront(q)) /\ Cut(n)
  <2>1. PICK n \in 1..Len(s) : (n = 1 \/ n = Len(s) \/ n = lateInFront(q)) /\ Cut(n)
    BY <1>1
  <2>2. /\ QueueInv'
        /\ \A r \in Two : queued(r)' = (IF r = q THEN SubSeq(queued(r), n + 1, Len(queued(r))) ELSE queued(r))
    BY <2>1, FrontTaken
  <2> QED
    BY <2>1, <2>2
<1>2. /\ s \in Seq(QueuedPackets) /\ Len(s) \in Nat
      /\ \A i \in 1..Len(s) : s[i] \in QueuedPackets /\ s[i] # NoPacket
      /\ headOf[q] = (IF Len(s) = 0 THEN NoPacket ELSE s[1])
      /\ \A i \in 1..Len(s) : nextOf[s[i]] = (IF i = Len(s) THEN NoPacket ELSE s[i + 1])
      /\ sizeOf[q] = Len(s) /\ tailOf[q] = (IF Len(s) = 0 THEN NoPacket ELSE s[Len(s)])
  BY QueueHas
<1>3. \A i, j \in 1..Len(s) : s[i] = s[j] => i = j
  BY QueueHas
<1>4. Len(s) # 0 /\ 1 \in 1..Len(s) /\ Len(s) \in 1..Len(s) /\ headOf[q] = s[1]
  <2> HIDE DEF s
  <2>1. headOf[q] # NoPacket
    BY DEF popQueued, clearQueued, getTimeoutPackets
  <2> QED
    BY <1>2, <2>1
<1>5. \A n \in 1..Len(s) : n # Len(s) => n + 1 \in 1..Len(s)
  BY <1>2
<1>6. nextOf \in [QueuedPackets -> QueuedPackets \cup {NoPacket}] /\ tailOf \in [Two -> QueuedPackets \cup {NoPacket}]
  BY QueueTyped
<1>7. CASE popQueued(q)
  <2>1. s[1] \in QueuedPackets /\ nextOf[headOf[q]] = (IF 1 = Len(s) THEN NoPacket ELSE s[2])
        /\ (nextOf[headOf[q]] = NoPacket <=> 1 = Len(s))
    <3> HIDE DEF s
    <3>1. 1 # Len(s) => 1 + 1 \in 1..Len(s)
      BY <1>4, <1>5
    <3> QED
      BY <1>2, <1>4, <3>1
  <2>2. SubSeq(s, 1, 1) = <<s[1]>>
    <3> HIDE DEF s
    <3>1. /\ SubSeq(s, 1, 1) \in Seq(QueuedPackets) /\ Len(SubSeq(s, 1, 1)) = 1
          /\ \A i \in 1..1 : SubSeq(s, 1, 1)[i] = s[i]
      BY <1>2, <1>4
    <3>2. <<s[1]>> \in Seq(QueuedPackets) /\ Len(<<s[1]>>) = 1 /\ \A i \in 1..1 : <<s[1]>>[i] = s[i]
      BY <2>1
    <3> QED
      BY <3>1, <3>2, SeqEqual
  <2> HIDE DEF s
  <2>4. /\ given' = <<s[1]>> /\ headOf' = [headOf EXCEPT ![q] = nextOf[headOf[q]]] /\ tailOf' = tailAfter(q, nextOf[headOf[q]])
        /\ sizeOf' = [sizeOf EXCEPT ![q] = sizeOf[q] - 1] /\ UNCHANGED <<nextOf, isLate>>
    BY <1>4, <1>7 DEF popQueued
  <2>5. tailOf' = [tailOf EXCEPT ![q] = IF 1 = Len(s) THEN NoPacket ELSE tailOf[q]]
    BY <1>6, <2>1, <2>4 DEF tailAfter
  <2>6. headOf' = [headOf EXCEPT ![q] = IF 1 = Len(s) THEN NoPacket ELSE s[1 + 1]]
    <3>1. 1 + 1 = 2
      OBVIOUS
    <3> QED
      BY <2>1, <2>4, <3>1
  <2>7. nextOf' \in [QueuedPackets -> QueuedPackets \cup {NoPacket}] /\ \A x \in QueuedPackets : nextOf'[x] = nextOf[x]
    BY <1>6, <2>4
  <2>3. Cut(1)
    BY <2>2, <2>4, <2>5, <2>6, <2>7
  <2> QED
    BY <1>4, <2>3
<1>8. CASE clearQueued(q)
  <2>1. SubSeq(s, 1, Len(s)) = s
    BY <1>2
  <2> HIDE DEF s
  <2>2. Cut(Len(s))
    <3>1. sizeOf[q] - Len(s) = 0
      BY <1>2
    <3>2. given' = s
      BY <1>8 DEF clearQueued, s
    <3> QED
      BY <1>4, <1>6, <1>8, <2>1, <3>1, <3>2, QueueTyped DEF clearQueued, emptied
  <2> QED
    BY <1>4, <2>2
<1>9. CASE getTimeoutPackets(q)
  <2> DEFINE n == lateInFront(q)
             g == SubSeq(s, 1, n)
  <2>1. n \in 1..Len(s) /\ n \in Nat /\ n > 0
    <3>1. n \in 0..Len(s) /\ n > 0
      BY <1>9, LateCounted DEF getTimeoutPackets
    <3> HIDE DEF n, s
    <3> QED
      BY <1>2, <3>1
  <2>2. /\ headOf' = [headOf EXCEPT ![q] = nextOf[s[n]]] /\ tailOf' = tailAfter(q, nextOf[s[n]])
        /\ sizeOf' = [sizeOf EXCEPT ![q] = sizeOf[q] - n] /\ nextOf' = [nextOf EXCEPT ![s[n]] = NoPacket]
        /\ given' = chainFrom(nextOf', headOf[q]) /\ UNCHANGED isLate
    BY <1>9 DEF getTimeoutPackets
  <2> HIDE DEF n, s
  <2>3. s[n] \in QueuedPackets /\ nextOf[s[n]] = (IF n = Len(s) THEN NoPacket ELSE s[n + 1])
        /\ (nextOf[s[n]] = NoPacket <=> n = Len(s))
    BY <1>2, <1>5, <2>1, SMTT(30)
  <2>4. Chained(nextOf', headOf[q], g)
    <3>1. g \in Seq(QueuedPackets) /\ Len(g) = n /\ \A i \in 1..n : g[i] = s[i]
      BY <1>2, <2>1
    <3>2. \A i \in 1..n : i \in 1..Len(s)
      BY <1>2, <2>1
    <3> HIDE DEF g
    <3>3. ASSUME NEW i \in 1..n PROVE nextOf'[g[i]] = (IF i = n THEN NoPacket ELSE g[i + 1])
      <4>1. g[i] = s[i] /\ i \in 1..Len(s) /\ s[i] \in QueuedPackets
        BY <1>2, <3>1, <3>2
      <4>2. CASE i = n
        BY <1>6, <2>2, <4>1, <4>2
      <4>3. CASE i # n
        <5>1. i # Len(s) /\ i + 1 \in 1..n
          BY <1>2, <2>1, <4>3
        <5>2. s[i] # s[n]
          BY <1>3, <2>1, <4>1, <4>3
        <5>3. nextOf'[s[i]] = nextOf[s[i]] /\ nextOf[s[i]] = s[i + 1] /\ g[i + 1] = s[i + 1]
          BY <1>2, <1>6, <2>2, <3>1, <4>1, <5>1, <5>2
        <5> QED
          BY <4>1, <4>3, <5>3
      <4> QED
        BY <4>2, <4>3
    <3>4. headOf[q] = g[1] /\ n # 0
      <4>1. 1 \in 1..n
        BY <2>1
      <4> QED
        BY <1>4, <2>1, <3>1, <4>1
    <3> QED
      BY <1>3, <3>1, <3>2, <3>3, <3>4 DEF Chained
  <2>5. given' = g
    BY <2>2, <2>4, ChainIs
  <2>6. Cut(n)
    <3>1. n \in 1..n
      BY <2>1
    <3>2. \A x \in QueuedPackets : (\A i \in 1..n : x # s[i]) => nextOf'[x] = nextOf[x]
      BY <1>6, <2>2, <3>1
    <3>3. nextOf' \in [QueuedPackets -> QueuedPackets \cup {NoPacket}]
      BY <1>6, <2>2
    <3>4. tailOf' = [tailOf EXCEPT ![q] = IF n = Len(s) THEN NoPacket ELSE tailOf[q]]
      BY <1>6, <2>2, <2>3 DEF tailAfter
    <3> QED
      BY <2>2, <2>3, <2>5, <3>2, <3>3, <3>4
  <2> QED
    BY <2>1, <2>6 DEF n
<1> QED
  BY <1>7, <1>8, <1>9

LEMMA QueueStep == QueueInv /\ [QueueNext]_queueVars => QueueInv'
<1> SUFFICES ASSUME QueueInv, [QueueNext]_queueVars PROVE QueueInv'
  OBVIOUS
<1>1. CASE UNCHANGED queueVars
  BY <1>1 DEF queueVars, QueueInv, QueueTypeOK, queued
<1>2. ASSUME NEW q \in Two, NEW p \in QueuedPackets, pushQueued(q, p) PROVE QueueInv'
  BY <1>2, PushStep
<1>3. ASSUME NEW q \in Two, popQueued(q) \/ clearQueued(q) \/ getTimeoutPackets(q) PROVE QueueInv'
  BY <1>3, TakesFront
<1>4. ASSUME NEW q \in Two, NEW r \in Two \ {q}, moveTo(q, r) PROVE QueueInv'
  BY <1>4, MoveStep
<1> QED
  BY <1>1, <1>2, <1>3, <1>4 DEF QueueNext

\* The count and the tail of a queue agree with its chain.
LEMMA QueueEnds == QueueInv => QueueEndsMeet
<1> SUFFICES ASSUME QueueInv, NEW q \in Two
             PROVE  sizeOf[q] = Len(queued(q)) /\ tailOf[q] = IF queued(q) = <<>> THEN NoPacket ELSE Last(queued(q))
  BY DEF QueueEndsMeet
<1>1. /\ queued(q) \in Seq(QueuedPackets)
      /\ sizeOf[q] = Len(queued(q)) /\ tailOf[q] = (IF Len(queued(q)) = 0 THEN NoPacket ELSE queued(q)[Len(queued(q))])
  BY QueueHas
<1>2. Len(queued(q)) = 0 <=> queued(q) = <<>>
  BY <1>1
<1> QED
  BY <1>1, <1>2 DEF Last

\* A step of the pointers is one of the sequences.
LEMMA SequencesStep ==
  QueueInv /\ [QueueNext]_queueVars =>
    [Sequences!Next]_<<[q \in Two |-> queued(q)], given, isLate>>
<1> DEFINE C == [q \in Two |-> queued(q)]
<1> SUFFICES ASSUME QueueInv, [QueueNext]_queueVars, ~UNCHANGED <<C, given, isLate>> PROVE Sequences!Next
  OBVIOUS
<1>1. CASE UNCHANGED queueVars
  BY <1>1 DEF queueVars, queued
<1>2. ASSUME NEW q \in Two, NEW p \in QueuedPackets, pushQueued(q, p) PROVE Sequences!Next
  <2>1. /\ given' = <<>> /\ UNCHANGED isLate /\ atHand(p)
        /\ \A r \in Two : queued(r)' = (IF r = q THEN Append(queued(r), p) ELSE queued(r))
    BY <1>2, PushStep
  <2>2. C' = [C EXCEPT ![q] = Append(C[q], p)]
    BY <2>1
  <2>3. \A r \in Two : p \notin ToSet(C[r])
    <3>1. \A r \in Two : DOMAIN queued(r) = 1..Len(queued(r))
      BY QueueHas
    <3> QED
      BY <2>1, <3>1 DEF atHand, ToSet
  <2>4. Sequences!append(q, p)
    <3>1. \A r \in Two : p \notin Sequences!ToSet(C[r])
      BY <2>3 DEF ToSet, Sequences!ToSet
    <3> HIDE DEF C
    <3> QED
      BY <2>1, <2>2, <3>1 DEF Sequences!append, C
  <2> QED
    BY <2>1, <2>4 DEF Sequences!Next
<1>3. ASSUME NEW q \in Two, popQueued(q) \/ clearQueued(q) \/ getTimeoutPackets(q) PROVE Sequences!Next
  <2>1. PICK n \in 1..Len(queued(q)) :
           /\ n = 1 \/ n = Len(queued(q)) \/ n = lateInFront(q)
           /\ given' = SubSeq(queued(q), 1, n) /\ UNCHANGED isLate
           /\ \A r \in Two : queued(r)' = (IF r = q THEN SubSeq(queued(r), n + 1, Len(queued(r))) ELSE queued(r))
    BY <1>3, TakesFront
  <2>2. C' = [C EXCEPT ![q] = SubSeq(C[q], n + 1, Len(C[q]))]
    BY <2>1
  <2>3. n <= Len(C[q]) /\ given' = SubSeq(C[q], 1, n)
    <3>1. Len(queued(q)) \in Nat
      BY QueueHas
    <3> QED
      BY <2>1, <3>1
  <2>4. Sequences!removeFront(q, n)
    BY <2>2, <2>3 DEF Sequences!removeFront
  <2>5. lateInFront(q) = Sequences!lateInFront(q)
    <3>1. C[q] = queued(q)
      OBVIOUS
    <3>2. \A S : Sequences!Min(S) = Min(S)
      BY DEF Sequences!Min, Min
    <3>3. Sequences!SelectInSeq(C[q], LAMBDA p : p \notin isLate) = SelectInSeq(queued(q), LAMBDA p : p \notin isLate)
      BY <3>1, <3>2 DEF Sequences!SelectInSeq, SelectInSeq
    <3> QED
      BY <3>1, <3>3 DEF lateInFront, Sequences!lateInFront
  <2>6. n = 1 \/ n = Len(C[q]) \/ n = Sequences!lateInFront(q)
    BY <2>1, <2>5
  <2> HIDE DEF C
  <2> QED
    BY <2>1, <2>4, <2>6 DEF Sequences!Next, C
<1>4. ASSUME NEW q \in Two, NEW r \in Two \ {q}, moveTo(q, r) PROVE Sequences!Next
  <2>1. /\ given' = <<>> /\ UNCHANGED isLate
        /\ \A x \in Two : queued(x)' = (IF x = q THEN <<>> ELSE IF x = r THEN queued(x) \o queued(q) ELSE queued(x))
    BY <1>4, MoveStep
  <2>2. C' = [C EXCEPT ![q] = <<>>, ![r] = C[r] \o C[q]]
    BY <2>1
  <2>3. Sequences!moveAll(q, r)
    BY <2>1, <2>2 DEF Sequences!moveAll
  <2> QED
    BY <2>1, <2>3 DEF Sequences!Next
<1> QED
  BY <1>1, <1>2, <1>3, <1>4 DEF QueueNext

\* The linked queues are sequences of packets: what a queue gives comes in the order in
\* which it was given, nothing is lost or in two queues, and no list that is handed out
\* reaches into a queue; for any packets, and for pushes, takes and moves in any order
\* (src/tbnet/src/packetqueue.cpp:34-153).
THEOREM QueueImplements == Spec => QueueIsSequence
<1>1. Init => QueueInv /\ Sequences!Init
  <2> SUFFICES ASSUME Init PROVE QueueInv /\ Sequences!Init
    OBVIOUS
  <2>1. QueueInit
    BY DEF Init
  <2>2. [q \in Two |-> queued(q)] = [q \in Two |-> <<>>]
    BY <2>1 DEF QueueInit, queued, chainFrom
  <2> QED
    BY <2>1, <2>2, QueueStarts DEF QueueInit, Sequences!Init
<1>2. [Next]_vars => [QueueNext]_queueVars
  BY DEF Next, only, vars
<1>3. QueueInv /\ [Next]_vars => QueueInv'
  BY <1>2, QueueStep
<1>4. QueueInv /\ [Next]_vars => [Sequences!Next]_<<[q \in Two |-> queued(q)], given, isLate>>
  BY <1>2, SequencesStep
<1> QED
  BY <1>1, <1>3, <1>4, PTL DEF Spec, QueueIsSequence, Sequences!Spec

-----------------------------------------------------------------------------
(* ChannelPool: lists that are linked in both directions *)

Members(s) == {s[i] : i \in 1..Len(s)}
LastOf(s) == IF Len(s) = 0 THEN Nil ELSE s[Len(s)]
Injects(s) == s \in Seq(Channels) /\ \A i, j \in 1..Len(s) : s[i] = s[j] => i = j

\* The channels of s are linked by n and p from h on.
Linked(n, p, h, s) ==
  /\ Injects(s)
  /\ h = (IF Len(s) = 0 THEN Nil ELSE s[1])
  /\ \A i \in 1..Len(s) : n[s[i]] = (IF i = Len(s) THEN Nil ELSE s[i + 1])
  /\ \A i \in 1..Len(s) : p[s[i]] = (IF i = 1 THEN Nil ELSE s[i - 1])

LEMMA NilIsNone == \A c \in Channels : c # Nil
BY ChannelPoolAssumption DEF Channels, Nil

LEMMA LinkedHas ==
  ASSUME NEW n, NEW p, NEW h, NEW s, Linked(n, p, h, s)
  PROVE  /\ s \in Seq(Channels) /\ Len(s) \in Nat /\ Members(s) \subseteq Channels /\ Nil \notin Members(s)
         /\ \A i \in 1..Len(s) : s[i] \in Channels /\ s[i] # Nil /\ s[i] \in Members(s)
         /\ \A i, j \in 1..Len(s) : s[i] = s[j] => i = j
         /\ h = Nil <=> Len(s) = 0
         /\ LastOf(s) = Nil <=> Len(s) = 0
         /\ LastOf(s) # Nil => LastOf(s) \in Members(s)
<1>1. s \in Seq(Channels) /\ Len(s) \in Nat /\ \A i, j \in 1..Len(s) : s[i] = s[j] => i = j
  BY DEF Linked, Injects
<1>2. \A i \in 1..Len(s) : s[i] \in Channels /\ s[i] # Nil /\ s[i] \in Members(s)
  BY <1>1, NilIsNone DEF Members
<1>3. Members(s) \subseteq Channels /\ Nil \notin Members(s)
  BY <1>2 DEF Members
<1>4. Len(s) # 0 => 1 \in 1..Len(s) /\ Len(s) \in 1..Len(s)
  BY <1>1
<1>5. h = Nil <=> Len(s) = 0
  BY <1>2, <1>4 DEF Linked
<1> QED
  BY <1>1, <1>2, <1>3, <1>4, <1>5 DEF LastOf

\* Pointers that agree on a list.
LEMMA LinkedSame ==
  ASSUME NEW n, NEW p, NEW h, NEW s, Linked(n, p, h, s), NEW m, NEW r,
         \A c \in Members(s) : m[c] = n[c] /\ r[c] = p[c]
  PROVE  Linked(m, r, h, s)
BY DEF Linked, Members

\* The list l comes to the end of s.
LEMMA LinkedJoin ==
  ASSUME NEW n, NEW p, NEW h, NEW s, Linked(n, p, h, s), NEW l, Injects(l), Len(l) # 0,
         Members(s) \cap Members(l) = {}, NEW m, NEW r,
         \A i \in 1..Len(l) : m[l[i]] = (IF i = Len(l) THEN Nil ELSE l[i + 1]),
         \A i \in 1..Len(l) : r[l[i]] = (IF i = 1 THEN LastOf(s) ELSE l[i - 1]),
         \A c \in Members(s) : r[c] = p[c] /\ m[c] = (IF c = LastOf(s) THEN l[1] ELSE n[c])
  PROVE  /\ Linked(m, r, IF h = Nil THEN l[1] ELSE h, s \o l)
         /\ LastOf(s \o l) = LastOf(l) /\ Members(s \o l) = Members(s) \cup Members(l)
<1> DEFINE w == s \o l
           a == Len(s)
           b == Len(l)
<1>1. s \in Seq(Channels) /\ l \in Seq(Channels) /\ a \in Nat /\ b \in Nat /\ b >= 1
  BY DEF Linked, Injects
<1>2. w \in Seq(Channels) /\ Len(w) = a + b /\ \A i \in 1..a + b : w[i] = IF i <= a THEN s[i] ELSE l[i - a]
  BY <1>1, ConcatProperties
<1>3. \A i \in 1..a : i \in 1..a + b /\ w[i] = s[i]
  BY <1>1, <1>2
<1>4. \A i \in 1..b : a + i \in 1..a + b /\ w[a + i] = l[i]
  <2> SUFFICES ASSUME NEW i \in 1..b PROVE a + i \in 1..a + b /\ w[a + i] = l[i]
    OBVIOUS
  <2> HIDE DEF w, a, b
  <2>1. a + i \in 1..a + b /\ ~(a + i <= a) /\ (a + i) - a = i
    BY <1>1
  <2>2. w[a + i] = l[(a + i) - a]
    BY <1>2, <2>1
  <2> QED
    BY <2>1, <2>2
<1>5. \A k \in 1..a + b : k \in 1..a \/ \E i \in 1..b : k = a + i
  <2> SUFFICES ASSUME NEW k \in 1..a + b, k \notin 1..a PROVE \E i \in 1..b : k = a + i
    OBVIOUS
  <2> HIDE DEF a, b
  <2>1. k - a \in 1..b /\ k = a + (k - a)
    BY <1>1
  <2> QED
    BY <2>1
<1>6. \A i \in 1..a, j \in 1..b : s[i] # l[j]
  <2>1. (\A i \in 1..a : s[i] \in Members(s)) /\ (\A j \in 1..b : l[j] \in Members(l))
    BY DEF Members
  <2> QED
    BY <2>1
<1>7. /\ \A i, j \in 1..a : s[i] = s[j] => i = j
      /\ \A i, j \in 1..b : l[i] = l[j] => i = j
  BY DEF Linked, Injects
<1> HIDE DEF w
<1>8. Injects(w)
  <2> HIDE DEF a, b
  <2> SUFFICES ASSUME NEW i \in 1..a + b, NEW j \in 1..a + b, w[i] = w[j] PROVE i = j
    BY <1>2 DEF Injects
  <2>1. CASE i \in 1..a /\ j \in 1..a
    BY <1>3, <1>7, <2>1
  <2>2. CASE i \in 1..a /\ j \notin 1..a
    BY <1>3, <1>4, <1>5, <1>6, <2>2
  <2>3. CASE i \notin 1..a /\ j \in 1..a
    BY <1>3, <1>4, <1>5, <1>6, <2>3
  <2>4. CASE i \notin 1..a /\ j \notin 1..a
    BY <1>4, <1>5, <1>7, <2>4
  <2> QED
    BY <2>1, <2>2, <2>3, <2>4
<1>9. \A i \in 1..a : s[i] \in Members(s)
  BY DEF Members
<1>10. LastOf(s) = (IF a = 0 THEN Nil ELSE s[a]) /\ (a # 0 => a \in 1..a)
  BY <1>1 DEF LastOf
<1>11. \A i \in 1..a + b : m[w[i]] = (IF i = a + b THEN Nil ELSE w[i + 1])
  <2> SUFFICES ASSUME NEW i \in 1..a + b PROVE m[w[i]] = (IF i = a + b THEN Nil ELSE w[i + 1])
    OBVIOUS
  <2>1. CASE i \in 1..a
    <3>1. i # a + b /\ (i = a => i + 1 = a + 1) /\ (i # a => i + 1 \in 1..a) /\ a # 0 /\ 1 \in 1..b
      <4> HIDE DEF a, b
      <4> QED
        BY <1>1, <2>1
    <3>2. m[s[i]] = IF s[i] = s[a] THEN l[1] ELSE n[s[i]]
      BY <1>9, <1>10, <2>1, <3>1
    <3>3. n[s[i]] = IF i = a THEN Nil ELSE s[i + 1]
      BY <2>1 DEF Linked
    <3>4. s[i] = s[a] <=> i = a
      BY <1>7, <1>10, <2>1, <3>1
    <3> HIDE DEF a, b
    <3>5. CASE i = a
      <4>1. w[i + 1] = l[1]
        BY <1>4, <3>1, <3>5
      <4> QED
        BY <1>3, <2>1, <3>1, <3>2, <3>4, <3>5, <4>1
    <3>6. CASE i # a
      <4>1. w[i + 1] = s[i + 1]
        BY <1>3, <3>1, <3>6
      <4> QED
        BY <1>3, <2>1, <3>1, <3>2, <3>3, <3>4, <3>6, <4>1
    <3> QED
      BY <3>5, <3>6
  <2>2. CASE i \notin 1..a
    <3>1. PICK j \in 1..b : i = a + j
      BY <1>5, <2>2
    <3>2. m[l[j]] = (IF j = b THEN Nil ELSE l[j + 1])
      OBVIOUS
    <3> HIDE DEF a, b
    <3>3. (j = b <=> i = a + b) /\ (j # b => j + 1 \in 1..b /\ i + 1 = a + (j + 1))
      BY <1>1, <3>1
    <3>4. i # a + b => w[i + 1] = l[j + 1]
      BY <1>4, <3>3
    <3> QED
      BY <1>4, <3>1, <3>2, <3>3, <3>4
  <2> QED
    BY <2>1, <2>2
<1>12. \A i \in 1..a + b : r[w[i]] = (IF i = 1 THEN Nil ELSE w[i - 1])
  <2> SUFFICES ASSUME NEW i \in 1..a + b PROVE r[w[i]] = (IF i = 1 THEN Nil ELSE w[i - 1])
    OBVIOUS
  <2>1. CASE i \in 1..a
    <3>1. r[s[i]] = IF i = 1 THEN Nil ELSE s[i - 1]
      BY <1>9, <2>1 DEF Linked
    <3> HIDE DEF a, b
    <3>2. i # 1 => i - 1 \in 1..a
      BY <1>1, <2>1
    <3> QED
      BY <1>3, <2>1, <3>1, <3>2
  <2>2. CASE i \notin 1..a
    <3>1. PICK j \in 1..b : i = a + j
      BY <1>5, <2>2
    <3>2. r[l[j]] = (IF j = 1 THEN LastOf(s) ELSE l[j - 1])
      OBVIOUS
    <3> HIDE DEF a, b
    <3>3. (j = 1 => i - 1 = a /\ (i = 1 <=> a = 0)) /\ (j # 1 => j - 1 \in 1..b /\ i - 1 = a + (j - 1) /\ i # 1)
      BY <1>1, <3>1
    <3>4. CASE j = 1
      BY <1>3, <1>4, <1>10, <3>1, <3>2, <3>3, <3>4
    <3>5. CASE j # 1
      BY <1>4, <3>1, <3>2, <3>3, <3>5
    <3> QED
      BY <3>4, <3>5
  <2> QED
    BY <2>1, <2>2
<1>13. Members(w) = Members(s) \cup Members(l)
  <2>1. Members(w) = {w[k] : k \in 1..a + b}
    BY <1>2 DEF Members
  <2>2. Members(s) = {s[k] : k \in 1..a} /\ Members(l) = {l[k] : k \in 1..b}
    BY DEF Members
  <2> HIDE DEF a, b
  <2>3. \A k \in 1..a : k \in 1..a + b /\ w[k] = s[k]
    BY <1>1, <1>3
  <2>4. \A k \in 1..b : a + k \in 1..a + b /\ w[a + k] = l[k]
    BY <1>1, <1>4
  <2>5. \A k \in 1..a + b : w[k] \in Members(s) \cup Members(l)
    BY <1>3, <1>4, <1>5, <2>2
  <2> QED
    BY <2>1, <2>2, <2>3, <2>4, <2>5
<1>14. LastOf(w) = LastOf(l) /\ Len(w) # 0
  <2>1. a + b # 0 /\ b \in 1..b /\ b # 0
    <3> HIDE DEF a, b
    <3> QED
      BY <1>1
  <2> QED
    BY <1>2, <1>4, <2>1 DEF LastOf
<1>15. (IF h = Nil THEN l[1] ELSE h) = w[1]
  <2>1. CASE a = 0
    <3>1. h = Nil
      BY <2>1 DEF Linked
    <3>2. 1 \in 1..b /\ a + 1 = 1
      <4> HIDE DEF a, b
      <4> QED
        BY <1>1, <2>1
    <3> QED
      BY <1>4, <3>1, <3>2
  <2>2. CASE a # 0
    <3>1. h = s[1] /\ h # Nil /\ 1 \in 1..a
      BY <1>1, <2>2, NilIsNone DEF Linked
    <3> QED
      BY <1>3, <3>1
  <2> QED
    BY <2>1, <2>2
<1> DEFINE g == IF h = Nil THEN l[1] ELSE h
<1> HIDE DEF a, b, g
<1>16. Linked(m, r, g, w)
  <2>1. g = w[1] /\ Len(w) # 0
    BY <1>14, <1>15 DEF g
  <2> QED
    BY ONLY <2>1, <1>2, <1>8, <1>11, <1>12, SMTT(30) DEF Linked
<1> QED
  BY <1>13, <1>14, <1>16 DEF w, g

\* s without its channel at k.
without(s, k) == [i \in 1..Len(s) - 1 |-> IF i < k THEN s[i] ELSE s[i + 1]]

\* The channel at k leaves the list s.
LEMMA LinkedLeave ==
  ASSUME NEW n, NEW p, NEW h, NEW s, Linked(n, p, h, s), NEW k \in 1..Len(s), NEW m, NEW r,
         \A c \in Members(s) \ {s[k]} : /\ m[c] = (IF c = p[s[k]] THEN n[s[k]] ELSE n[c])
                                        /\ r[c] = (IF c = n[s[k]] THEN p[s[k]] ELSE p[c])
  PROVE  /\ Linked(m, r, IF s[k] = h THEN n[s[k]] ELSE h, without(s, k))
         /\ LastOf(without(s, k)) = (IF s[k] = LastOf(s) THEN p[s[k]] ELSE LastOf(s))
         /\ Members(without(s, k)) = Members(s) \ {s[k]}
<1> DEFINE w == without(s, k)
           a == Len(s)
<1>1. /\ s \in Seq(Channels) /\ a \in Nat /\ \A i \in 1..a : s[i] \in Channels /\ s[i] # Nil /\ s[i] \in Members(s)
      /\ \A i, j \in 1..a : s[i] = s[j] => i = j
  BY LinkedHas
<1>2. k \in Nat /\ k >= 1 /\ k <= a /\ a \in Nat /\ a - 1 \in Nat
  BY <1>1
<1>3. \A i \in 1..a - 1 : IF i < k THEN i \in 1..a /\ w[i] = s[i] ELSE i + 1 \in 1..a /\ w[i] = s[i + 1]
  <2>1. \A i \in 1..a - 1 : w[i] = IF i < k THEN s[i] ELSE s[i + 1]
    BY DEF without
  <2> HIDE DEF w, a
  <2> QED
    BY <1>2, <2>1
<1>4. w \in [1..a - 1 -> Channels]
  <2>1. w = [i \in 1..a - 1 |-> w[i]]
    BY DEF without
  <2> HIDE DEF w
  <2>2. \A i \in 1..a - 1 : w[i] \in Channels
    BY <1>1, <1>3
  <2> QED
    BY <2>1, <2>2
<1>5. w \in Seq(Channels) /\ Len(w) = a - 1
  <2> HIDE DEF w, a
  <2> QED
    BY <1>2, <1>4
<1> HIDE DEF w
<1>6. Injects(w)
  <2> HIDE DEF a
  <2> SUFFICES ASSUME NEW i \in 1..a - 1, NEW j \in 1..a - 1, w[i] = w[j] PROVE i = j
    BY <1>5 DEF Injects
  <2>1. i \in Nat /\ j \in Nat
    BY <1>2
  <2>2. CASE i < k /\ j < k
    BY <1>1, <1>3, <2>2
  <2>3. CASE i < k /\ ~(j < k)
    <3>1. w[i] = s[i] /\ w[j] = s[j + 1] /\ i \in 1..a /\ j + 1 \in 1..a
      BY <1>3, <2>3
    <3>2. i = j + 1
      BY <1>1, <3>1
    <3> QED
      BY <1>2, <2>1, <2>3, <3>2
  <2>4. CASE ~(i < k) /\ j < k
    <3>1. w[j] = s[j] /\ w[i] = s[i + 1] /\ j \in 1..a /\ i + 1 \in 1..a
      BY <1>3, <2>4
    <3>2. j = i + 1
      BY <1>1, <3>1
    <3> QED
      BY <1>2, <2>1, <2>4, <3>2
  <2>5. CASE ~(i < k) /\ ~(j < k)
    <3>1. w[i] = s[i + 1] /\ w[j] = s[j + 1] /\ i + 1 \in 1..a /\ j + 1 \in 1..a
      BY <1>3, <2>5
    <3>2. i + 1 = j + 1
      BY <1>1, <3>1
    <3> QED
      BY <2>1, <3>2
  <2> QED
    BY <2>2, <2>3, <2>4, <2>5
<1>7. \A i \in 1..a : n[s[i]] = (IF i = a THEN Nil ELSE s[i + 1]) /\ p[s[i]] = (IF i = 1 THEN Nil ELSE s[i - 1])
  BY DEF Linked
\* What is before and after the channel, by its place.
<1>8. \A i \in 1..a : i # k =>
        /\ s[i] = p[s[k]] <=> i = k - 1
        /\ s[i] = n[s[k]] <=> i = k + 1
  <2> HIDE DEF a
  <2> SUFFICES ASSUME NEW i \in 1..a, i # k PROVE (s[i] = p[s[k]] <=> i = k - 1) /\ (s[i] = n[s[k]] <=> i = k + 1)
    OBVIOUS
  <2>0. k \in 1..a /\ i \in Nat /\ i >= 1 /\ i <= a
    BY <1>2
  <2>1. s[i] = p[s[k]] <=> i = k - 1
    <3>1. CASE k = 1
      <4>1. p[s[k]] = Nil /\ i # k - 1
        BY <1>7, <2>0, <3>1
      <4> QED
        BY <1>1, <4>1
    <3>2. CASE k # 1
      <4>1. p[s[k]] = s[k - 1] /\ k - 1 \in 1..a
        BY <1>2, <1>7, <2>0, <3>2
      <4> QED
        BY <1>1, <4>1
    <3> QED
      BY <3>1, <3>2
  <2>2. s[i] = n[s[k]] <=> i = k + 1
    <3>1. CASE k = a
      <4>1. n[s[k]] = Nil /\ i # k + 1
        BY <1>7, <2>0, <3>1
      <4> QED
        BY <1>1, <4>1
    <3>2. CASE k # a
      <4>1. n[s[k]] = s[k + 1] /\ k + 1 \in 1..a
        BY <1>2, <1>7, <2>0, <3>2
      <4> QED
        BY <1>1, <4>1
    <3> QED
      BY <3>1, <3>2
  <2> QED
    BY <2>1, <2>2
<1>9. \A i \in 1..a : i # k => m[s[i]] = (IF i = k - 1 THEN n[s[k]] ELSE n[s[i]])
                              /\ r[s[i]] = (IF i = k + 1 THEN p[s[k]] ELSE p[s[i]])
  <2> SUFFICES ASSUME NEW i \in 1..a, i # k
               PROVE  /\ m[s[i]] = (IF i = k - 1 THEN n[s[k]] ELSE n[s[i]])
                      /\ r[s[i]] = (IF i = k + 1 THEN p[s[k]] ELSE p[s[i]])
    OBVIOUS
  <2>1. s[i] \in Members(s) \ {s[k]}
    BY <1>1
  <2>2. /\ m[s[i]] = (IF s[i] = p[s[k]] THEN n[s[k]] ELSE n[s[i]])
        /\ r[s[i]] = (IF s[i] = n[s[k]] THEN p[s[k]] ELSE p[s[i]])
    BY <2>1
  <2> QED
    BY <1>8, <2>2
<1>10. n[s[k]] = (IF k = a THEN Nil ELSE s[k + 1]) /\ p[s[k]] = (IF k = 1 THEN Nil ELSE s[k - 1])
  BY <1>7
<1>11. \A i \in 1..a - 1 : m[w[i]] = (IF i = a - 1 THEN Nil ELSE w[i + 1])
  <2> HIDE DEF a
  <2> SUFFICES ASSUME NEW i \in 1..a - 1 PROVE m[w[i]] = (IF i = a - 1 THEN Nil ELSE w[i + 1])
    OBVIOUS
  <2>0. i \in Nat /\ i >= 1 /\ i <= a - 1
    BY <1>2
  <2>1. CASE i < k - 1
    <3>1. i < k /\ i + 1 < k /\ i # k /\ i # k - 1 /\ i # a - 1 /\ i # a /\ i + 1 \in 1..a - 1 /\ i \in 1..a
      BY <1>2, <2>0, <2>1
    <3>2. w[i] = s[i] /\ w[i + 1] = s[i + 1]
      BY <1>3, <3>1
    <3> QED
      BY <1>7, <1>9, <3>1, <3>2
  <2>2. CASE i = k - 1
    <3>1. i < k /\ i # k /\ i \in 1..a /\ (k = a <=> i = a - 1) /\ (i # a - 1 => i + 1 \in 1..a - 1 /\ ~(i + 1 < k) /\ (i + 1) + 1 = k + 1)
      BY <1>2, <2>0, <2>2
    <3>2. w[i] = s[i] /\ (i # a - 1 => w[i + 1] = s[k + 1])
      BY <1>3, <3>1
    <3> QED
      BY <1>9, <1>10, <2>2, <3>1, <3>2
  <2>3. CASE i > k - 1
    <3>1. ~(i < k) /\ i + 1 \in 1..a /\ i + 1 # k /\ i + 1 # k - 1 /\ (i + 1 = a <=> i = a - 1)
          /\ (i # a - 1 => i + 1 \in 1..a - 1 /\ ~(i + 1 < k))
      BY <1>2, <2>0, <2>3
    <3>2. w[i] = s[i + 1] /\ (i # a - 1 => w[i + 1] = s[(i + 1) + 1])
      BY <1>3, <3>1
    <3>3. m[s[i + 1]] = n[s[i + 1]] /\ n[s[i + 1]] = (IF i + 1 = a THEN Nil ELSE s[(i + 1) + 1])
      BY <1>7, <1>9, <3>1
    <3> QED
      BY <3>1, <3>2, <3>3
  <2> QED
    BY <1>2, <2>0, <2>1, <2>2, <2>3
<1>12. \A i \in 1..a - 1 : r[w[i]] = (IF i = 1 THEN Nil ELSE w[i - 1])
  <2> HIDE DEF a
  <2> SUFFICES ASSUME NEW i \in 1..a - 1 PROVE r[w[i]] = (IF i = 1 THEN Nil ELSE w[i - 1])
    OBVIOUS
  <2>0. i \in Nat /\ i >= 1 /\ i <= a - 1
    BY <1>2
  <2>1. CASE i < k
    <3>1. i \in 1..a /\ i # k /\ i # k + 1 /\ (i # 1 => i - 1 \in 1..a - 1 /\ i - 1 < k)
      BY <1>2, <2>0, <2>1
    <3>2. w[i] = s[i] /\ (i # 1 => w[i - 1] = s[i - 1])
      BY <1>3, <2>1, <3>1
    <3> QED
      BY <1>7, <1>9, <3>1, <3>2
  <2>2. CASE i = k
    <3>1. ~(i < k) /\ i + 1 \in 1..a /\ i + 1 # k /\ i + 1 = k + 1 /\ (i # 1 => i - 1 \in 1..a - 1 /\ i - 1 < k)
      BY <1>2, <2>0, <2>2
    <3>2. w[i] = s[i + 1] /\ (i # 1 => w[i - 1] = s[i - 1])
      BY <1>3, <3>1
    <3>3. r[s[i + 1]] = p[s[k]]
      BY <1>9, <3>1
    <3> QED
      BY <1>10, <2>2, <3>2, <3>3
  <2>3. CASE i > k
    <3>1. ~(i < k) /\ i + 1 \in 1..a /\ i + 1 # k /\ i + 1 # k + 1 /\ i # 1 /\ i + 1 # 1 /\ i - 1 \in 1..a - 1 /\ ~(i - 1 < k)
          /\ (i + 1) - 1 = (i - 1) + 1
      BY <1>2, <2>0, <2>3
    <3>2. w[i] = s[i + 1] /\ w[i - 1] = s[(i - 1) + 1]
      BY <1>3, <3>1
    <3>3. r[s[i + 1]] = p[s[i + 1]] /\ p[s[i + 1]] = s[(i + 1) - 1]
      BY <1>7, <1>9, <3>1
    <3> QED
      BY <3>1, <3>2, <3>3
  <2> QED
    BY <1>2, <2>0, <2>1, <2>2, <2>3
<1>13. (IF s[k] = h THEN n[s[k]] ELSE h) = (IF a - 1 = 0 THEN Nil ELSE w[1])
  <2>1. h = s[1] /\ 1 \in 1..a
    BY <1>2 DEF Linked
  <2> HIDE DEF a
  <2>2. s[k] = h <=> k = 1
    BY <1>1, <1>2, <2>1
  <2>3. CASE a - 1 = 0
    <3>1. k = 1 /\ k = a
      BY <1>2, <2>3
    <3> QED
      BY <1>10, <2>2, <2>3, <3>1
  <2>4. CASE a - 1 # 0
    <3>1. 1 \in 1..a - 1
      BY <1>2, <2>4
    <3>2. CASE k = 1
      <4>1. w[1] = s[2] /\ n[s[k]] = s[2]
        <5>1. ~(1 < k) /\ k # a /\ k + 1 = 2 /\ 1 + 1 = 2
          BY <2>4, <3>2
        <5> QED
          BY <1>3, <1>10, <3>1, <5>1
      <4> QED
        BY <2>2, <2>4, <3>2, <4>1
    <3>3. CASE k # 1
      <4>1. 1 < k
        BY <1>2, <3>3
      <4> QED
        BY <1>3, <2>1, <2>2, <2>4, <3>1, <3>3, <4>1
    <3> QED
      BY <3>2, <3>3
  <2> QED
    BY <2>3, <2>4
<1>14. LastOf(w) = (IF s[k] = LastOf(s) THEN p[s[k]] ELSE LastOf(s))
  <2>1. LastOf(w) = (IF a - 1 = 0 THEN Nil ELSE w[a - 1]) /\ LastOf(s) = s[a] /\ a \in 1..a
    BY <1>2, <1>5 DEF LastOf
  <2> HIDE DEF a
  <2>2. s[k] = LastOf(s) <=> k = a
    BY <1>1, <1>2, <2>1
  <2>3. CASE a - 1 = 0
    <3>1. k = 1 /\ k = a
      BY <1>2, <2>3
    <3> QED
      BY <1>10, <2>1, <2>2, <2>3, <3>1
  <2>4. CASE a - 1 # 0
    <3>1. a - 1 \in 1..a - 1 /\ (a - 1) + 1 = a
      BY <1>2, <2>4
    <3>2. CASE k = a
      <4>1. a - 1 < k /\ k # 1
        BY <1>2, <2>4, <3>2
      <4> QED
        BY <1>3, <1>10, <2>1, <2>2, <2>4, <3>1, <3>2, <4>1
    <3>3. CASE k # a
      <4>1. ~(a - 1 < k)
        BY <1>2, <3>3
      <4> QED
        BY <1>3, <2>1, <2>2, <2>4, <3>1, <3>3, <4>1
    <3> QED
      BY <3>2, <3>3
  <2> QED
    BY <2>3, <2>4
<1>15. Members(w) = Members(s) \ {s[k]}
  <2>1. Members(w) = {w[i] : i \in 1..a - 1} /\ Members(s) = {s[i] : i \in 1..a}
    BY <1>5 DEF Members
  <2> HIDE DEF a
  <2>2. \A i \in 1..a - 1 : w[i] \in Members(s) \ {s[k]}
    <3> SUFFICES ASSUME NEW i \in 1..a - 1 PROVE w[i] \in Members(s) \ {s[k]}
      OBVIOUS
    <3>1. CASE i < k
      BY <1>1, <1>2, <1>3, <3>1
    <3>2. CASE ~(i < k)
      <4>1. w[i] = s[i + 1] /\ i + 1 \in 1..a /\ i + 1 # k
        BY <1>2, <1>3, <3>2
      <4>2. k \in 1..a
        BY <1>2
      <4>3. s[i + 1] \in Members(s) /\ s[i + 1] # s[k]
        BY <1>1, <4>1, <4>2
      <4> QED
        BY <4>1, <4>3
    <3> QED
      BY <3>1, <3>2
  <2>3. \A i \in 1..a : i # k => s[i] \in Members(w)
    <3> SUFFICES ASSUME NEW i \in 1..a, i # k PROVE s[i] \in Members(w)
      OBVIOUS
    <3>1. CASE i < k
      <4>1. i \in 1..a - 1 /\ w[i] = s[i]
        BY <1>2, <1>3, <3>1
      <4> QED
        BY <2>1, <4>1
    <3>2. CASE ~(i < k)
      <4>1. i - 1 \in 1..a - 1 /\ ~(i - 1 < k) /\ (i - 1) + 1 = i
        BY <1>2, <3>2
      <4>2. w[i - 1] = s[i]
        BY <1>3, <4>1
      <4> QED
        BY <2>1, <4>1, <4>2
    <3> QED
      BY <3>1, <3>2
  <2>4. \A x \in Members(s) \ {s[k]} : x \in Members(w)
    BY <2>1, <2>3
  <2>5. \A x \in Members(w) : x \in Members(s) \ {s[k]}
    BY <2>1, <2>2
  <2> QED
    BY <2>4, <2>5
<1> QED
  BY <1>5, <1>6, <1>11, <1>12, <1>13, <1>14, <1>15 DEF Linked, w

\* m and r are n and p but for the two pointers between s[k] and the next.
CutBehind(m, r, n, p, s, k) ==
  /\ \A c \in Members(s) : m[c] = (IF c = s[k] THEN Nil ELSE n[c])
  /\ \A c \in Members(s) : r[c] = (IF k # Len(s) /\ c = s[k + 1] THEN Nil ELSE p[c])

\* The list s is cut behind its channel at k.
LEMMA LinkedCut ==
  ASSUME NEW n, NEW p, NEW h, NEW s, Linked(n, p, h, s), NEW k \in 1..Len(s), NEW m, NEW r, CutBehind(m, r, n, p, s, k)
  PROVE  LET v == SubSeq(s, 1, k)
             w == SubSeq(s, k + 1, Len(s))
         IN /\ Linked(m, r, h, v)
            /\ Linked(m, r, IF k = Len(s) THEN Nil ELSE s[k + 1], w)
            /\ LastOf(w) = (IF k = Len(s) THEN Nil ELSE LastOf(s))
            /\ Members(v) = {s[i] : i \in 1..k} /\ Members(w) = {s[i] : i \in k + 1..Len(s)}
            /\ Members(s) = Members(v) \cup Members(w) /\ Members(v) \cap Members(w) = {}
<1> DEFINE v == SubSeq(s, 1, k)
           w == SubSeq(s, k + 1, Len(s))
           a == Len(s)
           b == a - k
<1>1. /\ s \in Seq(Channels) /\ a \in Nat /\ \A i \in 1..a : s[i] \in Channels /\ s[i] # Nil /\ s[i] \in Members(s)
      /\ \A i, j \in 1..a : s[i] = s[j] => i = j
  BY LinkedHas
<1>2. k \in Nat /\ k >= 1 /\ k <= a /\ a \in Nat /\ b \in Nat
  BY <1>1
<1>3. v \in Seq(Channels) /\ Len(v) = k /\ \A i \in 1..k : v[i] = s[i]
  <2> HIDE DEF a, b
  <2> QED
    BY <1>1, <1>2 DEF a
<1>4. w \in Seq(Channels) /\ Len(w) = b /\ \A i \in 1..b : w[i] = s[k + i]
  <2>1. k + 1 \in Nat /\ k + 1 >= 1 /\ k + 1 <= a + 1
    <3> HIDE DEF a, b
    <3> QED
      BY <1>2
  <2>2. \A i \in 1..b : (k + 1) + i - 1 = k + i
    <3> HIDE DEF a, b
    <3> QED
      BY <1>2
  <2> QED
    BY <1>1, <1>2, <2>1, <2>2
<1>5. \A i \in 1..k : i \in 1..a
  <2> HIDE DEF a, b
  <2> QED
    BY <1>2
<1>6. \A i \in 1..b : k + i \in 1..a
  <2> HIDE DEF a
  <2> QED
    BY <1>2
<1>7. \A i \in 1..a : n[s[i]] = (IF i = a THEN Nil ELSE s[i + 1]) /\ p[s[i]] = (IF i = 1 THEN Nil ELSE s[i - 1])
  BY DEF Linked
<1>8. \A i \in 1..a : m[s[i]] = (IF i = k THEN Nil ELSE n[s[i]])
  <2>1. k \in 1..a
    OBVIOUS
  <2> QED
    BY <1>1, <2>1 DEF CutBehind
<1>9. \A i \in 1..a : r[s[i]] = (IF i = k + 1 THEN Nil ELSE p[s[i]])
  <2> SUFFICES ASSUME NEW i \in 1..a PROVE r[s[i]] = (IF i = k + 1 THEN Nil ELSE p[s[i]])
    OBVIOUS
  <2>1. r[s[i]] = (IF k # a /\ s[i] = s[k + 1] THEN Nil ELSE p[s[i]])
    BY <1>1 DEF CutBehind
  <2> HIDE DEF a, b
  <2>2. k # a => k + 1 \in 1..a
    BY <1>2
  <2>3. k = a => i # k + 1
    BY <1>2
  <2> QED
    BY <1>1, <2>1, <2>2, <2>3
<1>10. (a = 0 => FALSE) /\ h = s[1] /\ 1 \in 1..a /\ 1 \in 1..k
  <2>1. a # 0 => h = s[1]
    BY DEF Linked
  <2> HIDE DEF a, b
  <2> QED
    BY <1>2, <2>1
<1>11. Linked(m, r, h, v)
  <2> HIDE DEF v, w, a, b
  <2>1. Injects(v)
    BY <1>1, <1>3, <1>5 DEF Injects
  <2>2. ASSUME NEW i \in 1..k PROVE m[v[i]] = (IF i = k THEN Nil ELSE v[i + 1]) /\ r[v[i]] = (IF i = 1 THEN Nil ELSE v[i - 1])
    <3>1. i \in 1..a /\ i # k + 1 /\ (i # k => i # a /\ i + 1 \in 1..k) /\ (i # 1 => i - 1 \in 1..k)
      BY <1>2
    <3>2. m[s[i]] = (IF i = k THEN Nil ELSE s[i + 1])
      BY <1>7, <1>8, <3>1
    <3>3. r[s[i]] = (IF i = 1 THEN Nil ELSE s[i - 1])
      BY <1>7, <1>9, <3>1
    <3> QED
      BY <1>3, <3>1, <3>2, <3>3
  <2>3. k # 0 /\ h = v[1]
    BY <1>2, <1>3, <1>10
  <2> QED
    BY <1>3, <2>1, <2>2, <2>3 DEF Linked
<1>12. Linked(m, r, IF k = a THEN Nil ELSE s[k + 1], w)
  <2> HIDE DEF v, w, a, b
  <2>1. Injects(w)
    <3> SUFFICES ASSUME NEW i \in 1..b, NEW j \in 1..b, w[i] = w[j] PROVE i = j
      BY <1>4 DEF Injects
    <3>1. k + i = k + j
      BY <1>1, <1>4, <1>6
    <3> QED
      BY <1>2, <3>1
  <2>2. ASSUME NEW i \in 1..b PROVE m[w[i]] = (IF i = b THEN Nil ELSE w[i + 1]) /\ r[w[i]] = (IF i = 1 THEN Nil ELSE w[i - 1])
    <3>1. /\ k + i \in 1..a /\ k + i # k /\ (i = b <=> k + i = a) /\ (i # b => i + 1 \in 1..b /\ (k + i) + 1 = k + (i + 1))
          /\ (i = 1 <=> k + i = k + 1) /\ k + i # 1 /\ (i # 1 => i - 1 \in 1..b /\ (k + i) - 1 = k + (i - 1))
      BY <1>2 DEF b
    <3>2. m[s[k + i]] = (IF k + i = a THEN Nil ELSE s[(k + i) + 1])
      BY <1>7, <1>8, <3>1
    <3>3. r[s[k + i]] = (IF i = 1 THEN Nil ELSE s[(k + i) - 1])
      BY <1>7, <1>9, <3>1
    <3> QED
      BY <1>4, <3>1, <3>2, <3>3
  <2>3. (IF k = a THEN Nil ELSE s[k + 1]) = (IF b = 0 THEN Nil ELSE w[1])
    <3>1. (k = a <=> b = 0) /\ (b # 0 => 1 \in 1..b)
      BY <1>2 DEF b
    <3> QED
      BY <1>4, <3>1
  <2> QED
    BY <1>4, <2>1, <2>2, <2>3 DEF Linked
<1>13. LastOf(w) = (IF k = a THEN Nil ELSE LastOf(s))
  <2>1. LastOf(w) = (IF b = 0 THEN Nil ELSE w[b]) /\ LastOf(s) = s[a]
    BY <1>4, <1>10 DEF LastOf
  <2> HIDE DEF v, w, a
  <2>2. (k = a <=> b = 0) /\ (b # 0 => b \in 1..b /\ k + b = a)
    BY <1>2
  <2> HIDE DEF b
  <2> QED
    BY <1>4, <2>1, <2>2
<1>14. Members(v) = {s[i] : i \in 1..k}
  BY <1>3 DEF Members
<1>15. Members(w) = {s[i] : i \in k + 1..a}
  <2>1. Members(w) = {w[i] : i \in 1..b}
    BY <1>4 DEF Members
  <2> HIDE DEF v, w, a
  <2>2. \A i \in 1..b : k + i \in k + 1..a
    BY <1>2
  <2>3. \A i \in k + 1..a : i - k \in 1..b /\ k + (i - k) = i
    BY <1>2
  <2> HIDE DEF b
  <2>4. \A i \in k + 1..a : s[i] \in Members(w)
    <3> SUFFICES ASSUME NEW i \in k + 1..a PROVE s[i] \in Members(w)
      OBVIOUS
    <3>1. i - k \in 1..b /\ w[i - k] = s[i]
      BY <1>4, <2>3
    <3> QED
      BY <2>1, <3>1
  <2>5. \A i \in 1..b : w[i] \in {s[j] : j \in k + 1..a}
    BY <1>4, <2>2
  <2> QED
    BY <2>1, <2>4, <2>5
<1>16. Members(s) = Members(v) \cup Members(w) /\ Members(v) \cap Members(w) = {}
  <2>1. Members(s) = {s[i] : i \in 1..a}
    BY DEF Members
  <2> HIDE DEF v, w, a, b
  <2>2. \A i \in 1..a : i \in 1..k \/ i \in k + 1..a
    BY <1>2
  <2>3. (\A i \in 1..k : i \in 1..a) /\ (\A i \in k + 1..a : i \in 1..a)
    BY <1>2
  <2>4. \A i \in 1..k, j \in k + 1..a : i # j
    BY <1>2
  <2>5. Members(s) = Members(v) \cup Members(w)
    BY <1>14, <1>15, <2>1, <2>2, <2>3
  <2>6. \A i \in 1..k, j \in k + 1..a : s[i] # s[j]
    BY <1>1, <2>3, <2>4
  <2> QED
    BY <1>14, <1>15, <2>5, <2>6
<1> QED
  BY <1>11, <1>12, <1>13, <1>14, <1>15, <1>16

\* What can be reached on a list.
LEMMA ReachedFrom ==
  ASSUME NEW n, NEW p, NEW h, NEW s, Linked(n, p, h, s), NEW k \in 1..Len(s)
  PROVE  reach(n, s[k]) = {s[i] : i \in k..Len(s)}
<1> DEFINE a == Len(s)
           M == {s[i] : i \in k..a}
<1>1. a \in Nat /\ \A i \in 1..a : s[i] \in Channels /\ s[i] # Nil
  BY LinkedHas
<1>2. \A i \in 1..a : n[s[i]] = (IF i = a THEN Nil ELSE s[i + 1])
  BY DEF Linked
<1>3. k \in Nat /\ \A i \in k..a : i \in 1..a
  BY <1>1
<1>4. M \in SUBSET Channels /\ closedUnder(n, M) /\ s[k] \in M
  <2> HIDE DEF a
  <2>1. k \in k..a
    BY <1>1 DEF a
  <2>2. \A i \in k..a : i # a => i + 1 \in k..a
    BY <1>1, <1>3
  <2>3. \A i \in k..a : n[s[i]] \in M \cup {Nil}
    BY <1>2, <1>3, <2>2
  <2>4. \A i \in k..a : s[i] \in Channels
    BY <1>1, <1>3
  <2> QED
    BY <2>1, <2>3, <2>4 DEF closedUnder
<1>5. reach(n, s[k]) \subseteq M
  BY <1>4 DEF reach
<1>6. ASSUME NEW S \in SUBSET Channels, closedUnder(n, S), s[k] \in S \cup {Nil} PROVE M \subseteq S
  <2> DEFINE Out == {i \in Nat : i \in k..a /\ s[i] \notin S}
  <2>1. Out = {}
    <3> SUFFICES ASSUME Out # {} PROVE FALSE
      OBVIOUS
    <3>1. PICK x \in Out : \A y \in Out : x <= y
      <4> HIDE DEF Out
      <4>1. Out \in SUBSET Nat
        BY DEF Out
      <4> QED
        BY <4>1, LeastNumber
    <3>2. x \in k..a /\ s[x] \notin S /\ x # k
      <4>1. s[k] \in S
        BY <1>1, <1>6
      <4> QED
        BY <3>1, <4>1
    <3> HIDE DEF a
    <3>3. x - 1 \in Nat /\ x - 1 \in k..a /\ x - 1 \in 1..a /\ x - 1 # a /\ (x - 1) + 1 = x /\ ~(x <= x - 1)
      BY <1>1, <1>3, <3>2
    <3>4. x - 1 \notin Out
      BY <3>1, <3>3
    <3>5. s[x - 1] \in S
      BY <3>3, <3>4
    <3>6. n[s[x - 1]] = s[x]
      BY <1>2, <3>3
    <3>7. s[x] # Nil
      BY <1>1, <1>3, <3>2
    <3> QED
      BY <1>6, <3>2, <3>5, <3>6, <3>7 DEF closedUnder
  <2>2. \A i \in k..a : i \in Nat
    BY <1>1, <1>3
  <2> QED
    BY <2>1, <2>2
<1>7. M \subseteq reach(n, s[k])
  BY <1>4, <1>6 DEF reach
<1> QED
  BY <1>5, <1>7

LEMMA ReachedAll ==
  ASSUME NEW n, NEW p, NEW h, NEW s, Linked(n, p, h, s)
  PROVE  reach(n, h) = Members(s)
<1>1. CASE Len(s) = 0
  <2>1. h = Nil /\ Members(s) = {}
    BY <1>1 DEF Linked, Members
  <2>2. {} \in SUBSET Channels /\ closedUnder(n, {}) /\ Nil \in {} \cup {Nil}
    BY DEF closedUnder
  <2> QED
    BY <2>1, <2>2 DEF reach
<1>2. CASE Len(s) # 0
  <2>1. h = s[1] /\ 1 \in 1..Len(s)
    BY <1>2, LinkedHas DEF Linked
  <2>2. \A k \in 1..Len(s) : reach(n, s[k]) = {s[i] : i \in k..Len(s)}
    BY ReachedFrom, SMTT(30)
  <2>3. reach(n, s[1]) = {s[i] : i \in 1..Len(s)}
    BY <2>1, <2>2
  <2> QED
    BY <2>1, <2>3 DEF Members
<1> QED
  BY <1>1, <1>2

-----------------------------------------------------------------------------
(* ChannelPool: its invariant *)

\* The use list u, the free list f and the late list l by the pointers, with the channel
\* at hand: they are apart, and make up the clusters.
ListsAre(n, p, uh, ut, fh, ft, lh, u, f, l) ==
  /\ Linked(n, p, uh, u) /\ ut = LastOf(u)
  /\ Linked(n, p, fh, f) /\ ft = LastOf(f)
  /\ Linked(n, p, lh, l)

PartsAre(of, cl, u, f, l) ==
  /\ u \cap f = {} /\ u \cap l = {} /\ f \cap l = {} /\ of \notin u \cup f \cup l
  /\ u \cup f \cup l \cup ({of} \ {Nil}) = 1..cl * ClusterSize

\* The map finds channels in use, each by its id, and all of them while ids are unique.
MapIs(um, ids, twice, u) ==
  /\ \A i \in DOMAIN um : um[i] \in u /\ ids[um[i]] = i
  /\ ~twice => \A c \in u : ids[c] \in DOMAIN um /\ um[ids[c]] = c

PoolIs(u, f, l) ==
  /\ ListsAre(next, prev, useHead, useTail, freeHead, freeTail, late, u, f, l)
  /\ PartsAre(offered, clusters, Members(u), Members(f), Members(l))
  /\ MapIs(useMap, chanId, givenTwice, Members(u))

ChannelInv == ChannelTypeOK /\ \E u, f, l \in Seq(Channels) : PoolIs(u, f, l)

ArePointers(n, p) == n \in [Channels -> Channels \cup {Nil}] /\ p \in [Channels -> Channels \cup {Nil}]

LEMMA ChannelTyped ==
  ASSUME ChannelTypeOK
  PROVE  /\ clusters \in Nat /\ clusters <= MaxClusters
         /\ next \in [Channels -> Channels \cup {Nil}] /\ prev \in [Channels -> Channels \cup {Nil}]
         /\ \A h \in {freeHead, freeTail, useHead, useTail, offered, late} : h = Nil \/ h \in Channels
BY ChannelPoolAssumption DEF ChannelTypeOK

LEMMA LinkIs ==
  ASSUME NEW g \in [Channels -> Channels \cup {Nil}], NEW x \in Channels \cup {Nil}, NEW v \in Channels \cup {Nil}
  PROVE  /\ link(g, x, v) \in [Channels -> Channels \cup {Nil}]
         /\ \A c \in Channels : link(g, x, v)[c] = IF c = x THEN v ELSE g[c]
<1>1. CASE x = Nil
  BY <1>1, NilIsNone DEF link
<1>2. CASE x # Nil
  BY <1>2 DEF link
<1> QED
  BY <1>1, <1>2

LEMMA OneChannel ==
  ASSUME NEW c \in Channels
  PROVE  Injects(<<c>>) /\ Len(<<c>>) = 1 /\ <<c>>[1] = c /\ Members(<<c>>) = {c} /\ LastOf(<<c>>) = c
<1>1. <<c>> \in Seq(Channels) /\ Len(<<c>>) = 1 /\ <<c>>[1] = c
  OBVIOUS
<1>2. \A i \in 1..1 : i = 1
  OBVIOUS
<1> QED
  BY <1>1, <1>2 DEF Injects, Members, LastOf

\* An allocation puts the channel c, which is on no list, to the end of the use list.
LEMMA EntersUse ==
  ASSUME ChannelTypeOK, NEW u, NEW f, NEW l, NEW c \in Channels, NEW n \in 0..IdSpace - 1,
         NEW p \in [Channels -> Channels \cup {Nil}], NEW free \in [Channels -> Channels \cup {Nil}], NEW fh, NEW ft,
         ListsAre(free, p, useHead, useTail, fh, ft, late, u, f, l),
         Members(u) \cap Members(f) = {}, Members(u) \cap Members(l) = {}, c \notin Members(u) \cup Members(f) \cup Members(l),
         enterUse(c, n, p, free)
  PROVE  /\ ListsAre(next', prev', useHead', useTail', fh, ft, late, u \o <<c>>, f, l)
         /\ Members(u \o <<c>>) = Members(u) \cup {c} /\ u \o <<c>> \in Seq(Channels)
         /\ next' \in [Channels -> Channels \cup {Nil}] /\ prev' \in [Channels -> Channels \cup {Nil}]
         /\ useHead' \in Channels \cup {Nil} /\ useTail' \in Channels \cup {Nil}
<1>1. Linked(free, p, useHead, u) /\ useTail = LastOf(u) /\ Linked(free, p, fh, f) /\ ft = LastOf(f) /\ Linked(free, p, late, l)
  BY DEF ListsAre
<1>2. /\ u \in Seq(Channels) /\ Members(u) \subseteq Channels /\ Members(f) \subseteq Channels /\ Members(l) \subseteq Channels
      /\ useTail \in Channels \cup {Nil} /\ (useTail = Nil \/ useTail \in Members(u)) /\ (useTail = Nil <=> useHead = Nil)
      /\ useHead \in Channels \cup {Nil}
  <2>1. u \in Seq(Channels) /\ Members(u) \subseteq Channels /\ (useTail = Nil \/ useTail \in Members(u)) /\ (useTail = Nil <=> useHead = Nil)
    BY <1>1, LinkedHas
  <2>2. Members(f) \subseteq Channels
    BY <1>1, LinkedHas
  <2>3. Members(l) \subseteq Channels
    BY <1>1, LinkedHas
  <2> QED
    BY <2>1, <2>2, <2>3 DEF ChannelTypeOK
<1>3. /\ next' = link([free EXCEPT ![c] = Nil], useTail, c) /\ prev' = [p EXCEPT ![c] = useTail]
      /\ useHead' = (IF useTail = Nil THEN c ELSE useHead) /\ useTail' = c
  BY DEF enterUse
<1>4. [free EXCEPT ![c] = Nil] \in [Channels -> Channels \cup {Nil}]
  OBVIOUS
<1>5. /\ next' \in [Channels -> Channels \cup {Nil}]
      /\ \A x \in Channels : next'[x] = IF x = useTail THEN c ELSE [free EXCEPT ![c] = Nil][x]
  <2> DEFINE g == [free EXCEPT ![c] = Nil]
  <2>1. next' = link(g, useTail, c) /\ g \in [Channels -> Channels \cup {Nil}]
    BY <1>3, <1>4
  <2> HIDE DEF g
  <2>2. /\ link(g, useTail, c) \in [Channels -> Channels \cup {Nil}]
        /\ \A x \in Channels : link(g, useTail, c)[x] = IF x = useTail THEN c ELSE g[x]
    <3>1. useTail \in Channels \cup {Nil} /\ c \in Channels \cup {Nil} /\ g \in [Channels -> Channels \cup {Nil}]
      BY <1>2, <2>1
    <3> QED
      BY ONLY <3>1, LinkIs
  <2>3. /\ next' \in [Channels -> Channels \cup {Nil}]
        /\ \A x \in Channels : next'[x] = IF x = useTail THEN c ELSE g[x]
    BY <2>1, <2>2
  <2> QED
    BY <2>3 DEF g
<1>6. /\ prev' \in [Channels -> Channels \cup {Nil}]
      /\ \A x \in Channels : prev'[x] = IF x = c THEN useTail ELSE p[x]
  BY <1>2, <1>3
<1>7. \A x \in Channels : next'[x] = IF x = useTail THEN c ELSE IF x = c THEN Nil ELSE free[x]
  BY <1>5
<1>8. c # Nil /\ c # useTail
  BY <1>2, NilIsNone
<1>9. /\ Linked(next', prev', IF useHead = Nil THEN <<c>>[1] ELSE useHead, u \o <<c>>)
      /\ LastOf(u \o <<c>>) = LastOf(<<c>>) /\ Members(u \o <<c>>) = Members(u) \cup Members(<<c>>)
  <2>1. Injects(<<c>>) /\ Len(<<c>>) = 1 /\ <<c>>[1] = c /\ Members(<<c>>) = {c}
    BY OneChannel
  <2>2. \A i \in 1..Len(<<c>>) : i = 1 /\ i = Len(<<c>>) /\ next'[<<c>>[i]] = Nil /\ prev'[<<c>>[i]] = LastOf(u)
    BY <1>1, <1>6, <1>7, <1>8, <2>1
  <2>3. \A x \in Members(u) : prev'[x] = p[x] /\ next'[x] = (IF x = LastOf(u) THEN <<c>>[1] ELSE free[x])
    BY <1>1, <1>2, <1>6, <1>7, <2>1
  <2>4. Members(u) \cap Members(<<c>>) = {} /\ Len(<<c>>) # 0
    BY <2>1
  <2> HIDE DEF Injects
  <2>5. \A i \in 1..Len(<<c>>) : next'[<<c>>[i]] = (IF i = Len(<<c>>) THEN Nil ELSE <<c>>[i + 1])
    BY <2>2
  <2>6. \A i \in 1..Len(<<c>>) : prev'[<<c>>[i]] = (IF i = 1 THEN LastOf(u) ELSE <<c>>[i - 1])
    BY <2>2
  <2> DEFINE y == <<c>>
             m == next'
             r == prev'
  <2>7. /\ Injects(y) /\ Len(y) # 0 /\ Members(u) \cap Members(y) = {}
        /\ \A i \in 1..Len(y) : m[y[i]] = (IF i = Len(y) THEN Nil ELSE y[i + 1])
        /\ \A i \in 1..Len(y) : r[y[i]] = (IF i = 1 THEN LastOf(u) ELSE y[i - 1])
        /\ \A x \in Members(u) : r[x] = p[x] /\ m[x] = (IF x = LastOf(u) THEN y[1] ELSE free[x])
    BY <2>1, <2>3, <2>4, <2>5, <2>6
  <2> HIDE DEF y, m, r
  <2>8. /\ Linked(m, r, IF useHead = Nil THEN y[1] ELSE useHead, u \o y)
        /\ LastOf(u \o y) = LastOf(y) /\ Members(u \o y) = Members(u) \cup Members(y)
    BY <1>1, <2>7, LinkedJoin, SMTT(30)
  <2> QED
    BY <2>8 DEF y, m, r
<1>10. \A x \in Members(f) \cup Members(l) : next'[x] = free[x] /\ prev'[x] = p[x]
  <2> SUFFICES ASSUME NEW x \in Members(f) \cup Members(l) PROVE next'[x] = free[x] /\ prev'[x] = p[x]
    OBVIOUS
  <2>1. x \in Channels /\ x # c /\ x # Nil /\ x \notin Members(u)
    BY <1>2, NilIsNone
  <2>2. x # useTail
    BY <1>2, <2>1
  <2> QED
    BY <1>6, <1>7, <2>1, <2>2
<1>11. Linked(next', prev', fh, f) /\ Linked(next', prev', late, l)
  BY <1>1, <1>10, LinkedSame
<1>12. useHead' = IF useHead = Nil THEN <<c>>[1] ELSE useHead
  BY <1>2, <1>3, OneChannel
<1>13. useTail' = LastOf(u \o <<c>>)
  BY <1>3, <1>9, OneChannel
<1>14. ListsAre(next', prev', useHead', useTail', fh, ft, late, u \o <<c>>, f, l)
  BY <1>1, <1>9, <1>11, <1>12, <1>13 DEF ListsAre
<1>15. u \o <<c>> \in Seq(Channels)
  BY <1>2, OneChannel DEF Injects
<1> QED
  BY <1>2, <1>3, <1>5, <1>6, <1>9, <1>14, <1>15, OneChannel

\* It is given an id, by which the map finds it.
LEMMA EntersMap ==
  ASSUME ChannelTypeOK, NEW c \in Channels, NEW n \in 0..IdSpace - 1, NEW p, NEW free, NEW M, c \notin M,
         MapIs(useMap, chanId, givenTwice, M), ~givenTwice, enterUse(c, n, p, free), M \subseteq Channels
  PROVE  /\ MapIs(useMap', chanId', givenTwice', M \cup {c})
         /\ DOMAIN useMap' \subseteq 1..IdSpace - 1 /\ \A i \in DOMAIN useMap' : useMap'[i] \in Channels
         /\ chanId' \in [Channels -> 0..IdSpace - 1] /\ expire' \in [Channels -> 0..Never] /\ counter' \in 0..IdSpace - 1
         /\ givenTwice' \in BOOLEAN
<1> DEFINE id == idOf(n)
<1>1. id \in 1..IdSpace - 1 /\ (IF n = 0 THEN 1 ELSE n) \in 0..IdSpace - 1
  BY ChannelPoolAssumption DEF idOf
<1>2. /\ DOMAIN useMap \subseteq 1..IdSpace - 1 /\ \A i \in DOMAIN useMap : useMap[i] \in Channels
      /\ chanId \in [Channels -> 0..IdSpace - 1] /\ expire \in [Channels -> 0..Never]
  BY DEF ChannelTypeOK
<1> HIDE DEF id
<1>3. /\ useMap' = [i \in DOMAIN useMap \cup {id} |-> IF i = id THEN c ELSE useMap[i]]
      /\ chanId' = [chanId EXCEPT ![c] = id] /\ expire' = [expire EXCEPT ![c] = Never]
      /\ givenTwice' = (givenTwice \/ id \in DOMAIN useMap) /\ counter' = IF n = 0 THEN 1 ELSE n
  BY DEF enterUse, id
<1>4. \A i \in DOMAIN useMap' : useMap'[i] \in M \cup {c} /\ chanId'[useMap'[i]] = i
  <2> SUFFICES ASSUME NEW i \in DOMAIN useMap' PROVE useMap'[i] \in M \cup {c} /\ chanId'[useMap'[i]] = i
    OBVIOUS
  <2>1. CASE i = id
    BY <1>2, <1>3, <2>1
  <2>2. CASE i # id
    <3>1. i \in DOMAIN useMap /\ useMap'[i] = useMap[i]
      BY <1>3, <2>2
    <3>2. useMap[i] \in M /\ chanId[useMap[i]] = i /\ useMap[i] \in Channels
      BY <3>1 DEF MapIs
    <3> QED
      BY <1>2, <1>3, <3>1, <3>2
  <2> QED
    BY <2>1, <2>2
<1>5. ~givenTwice' => \A x \in M \cup {c} : chanId'[x] \in DOMAIN useMap' /\ useMap'[chanId'[x]] = x
  <2> SUFFICES ASSUME ~givenTwice', NEW x \in M \cup {c} PROVE chanId'[x] \in DOMAIN useMap' /\ useMap'[chanId'[x]] = x
    OBVIOUS
  <2>1. CASE x = c
    BY <1>2, <1>3, <2>1
  <2>2. CASE x # c
    <3>1. x \in M /\ chanId[x] \in DOMAIN useMap /\ useMap[chanId[x]] = x /\ id \notin DOMAIN useMap
      BY <1>3, <2>2 DEF MapIs
    <3> QED
      BY <1>2, <1>3, <2>2, <3>1
  <2> QED
    BY <2>1, <2>2
<1>6. DOMAIN useMap' \subseteq 1..IdSpace - 1 /\ \A i \in DOMAIN useMap' : useMap'[i] \in Channels
  BY <1>1, <1>2, <1>3
<1>7. chanId' \in [Channels -> 0..IdSpace - 1] /\ expire' \in [Channels -> 0..Never]
  <2>1. id \in 0..IdSpace - 1
    BY <1>1, ChannelPoolAssumption
  <2>2. Never \in 0..Never
    BY DEF Never
  <2> QED
    BY <1>2, <1>3, <2>1, <2>2
<1>8. counter' \in 0..IdSpace - 1 /\ givenTwice' \in BOOLEAN
  <2>1. counter' \in 0..IdSpace - 1
    BY <1>1, <1>3
  <2>2. givenTwice \in BOOLEAN
    BY DEF ChannelTypeOK
  <2>3. givenTwice' = (id \in DOMAIN useMap)
    BY <1>3
  <2> QED
    BY <2>1, <2>3
<1> QED
  BY <1>4, <1>5, <1>6, <1>7, <1>8 DEF MapIs

\* The channels of x are linked by n and p, whatever is before the first.
RunsOn(n, p, x) ==
  /\ Injects(x) /\ Len(x) # 0
  /\ \A i \in 1..Len(x) : n[x[i]] = (IF i = Len(x) THEN Nil ELSE x[i + 1])
  /\ \A i \in 1..Len(x) : i # 1 => p[x[i]] = x[i - 1]

\* The list x comes to the end of the free list; the others stay.
LEMMA GoesFree ==
  ASSUME ChannelTypeOK, NEW n, NEW p, ArePointers(n, p), NEW f, Linked(n, p, freeHead, f), freeTail = LastOf(f), NEW x, RunsOn(n, p, x), Members(f) \cap Members(x) = {},
         toFreeList(x[1], LastOf(x), n, p)
  PROVE  /\ Linked(next', prev', freeHead', f \o x) /\ freeTail' = LastOf(f \o x)
         /\ Members(f \o x) = Members(f) \cup Members(x) /\ f \o x \in Seq(Channels)
         /\ next' \in [Channels -> Channels \cup {Nil}] /\ prev' \in [Channels -> Channels \cup {Nil}]
         /\ freeHead' \in Channels \cup {Nil} /\ freeTail' \in Channels \cup {Nil}
         /\ \A c \in Channels \ (Members(f) \cup Members(x)) : next'[c] = n[c] /\ prev'[c] = p[c]
<1>0. /\ Injects(x) /\ Len(x) # 0
      /\ \A i \in 1..Len(x) : n[x[i]] = (IF i = Len(x) THEN Nil ELSE x[i + 1])
      /\ \A i \in 1..Len(x) : i # 1 => p[x[i]] = x[i - 1]
  BY DEF RunsOn
<1>1. /\ x \in Seq(Channels) /\ Len(x) \in Nat /\ 1 \in 1..Len(x) /\ Len(x) \in 1..Len(x)
      /\ \A i \in 1..Len(x) : x[i] \in Channels /\ x[i] # Nil /\ x[i] \in Members(x)
      /\ \A i, j \in 1..Len(x) : x[i] = x[j] => i = j
  BY <1>0, NilIsNone DEF Injects, Members
<1>2. x[1] \in Channels /\ x[1] \in Members(x) /\ LastOf(x) = x[Len(x)] /\ LastOf(x) \in Channels
  BY <1>1 DEF LastOf
<1>3. /\ f \in Seq(Channels) /\ Members(f) \subseteq Channels /\ (freeTail = Nil \/ freeTail \in Members(f))
      /\ (freeTail = Nil <=> freeHead = Nil) /\ Nil \notin Members(f)
  BY LinkedHas
<1>4. freeTail \in Channels \cup {Nil} /\ freeHead \in Channels \cup {Nil}
  BY DEF ChannelTypeOK
<1>5. /\ next' = link(n, freeTail, x[1]) /\ prev' = [p EXCEPT ![x[1]] = freeTail]
      /\ freeHead' = (IF freeTail = Nil THEN x[1] ELSE freeHead) /\ freeTail' = LastOf(x)
  BY DEF toFreeList
<1>6. /\ next' \in [Channels -> Channels \cup {Nil}]
      /\ \A c \in Channels : next'[c] = IF c = freeTail THEN x[1] ELSE n[c]
  <2> DEFINE v == x[1]
  <2>1. v \in Channels \cup {Nil} /\ next' = link(n, freeTail, v)
    BY <1>2, <1>5
  <2> HIDE DEF v
  <2>2. /\ link(n, freeTail, v) \in [Channels -> Channels \cup {Nil}]
        /\ \A c \in Channels : link(n, freeTail, v)[c] = IF c = freeTail THEN v ELSE n[c]
    <3>0. n \in [Channels -> Channels \cup {Nil}]
      BY DEF ArePointers
    <3>1. CASE freeTail = Nil
      BY <3>0, <3>1, NilIsNone DEF link
    <3>2. CASE freeTail # Nil
      BY <1>4, <2>1, <3>0, <3>2 DEF link
    <3> QED
      BY <3>1, <3>2
  <2>3. /\ next' \in [Channels -> Channels \cup {Nil}]
        /\ \A c \in Channels : next'[c] = IF c = freeTail THEN v ELSE n[c]
    BY <2>1, <2>2
  <2> QED
    BY <2>3 DEF v
<1>7. /\ prev' \in [Channels -> Channels \cup {Nil}]
      /\ \A c \in Channels : prev'[c] = IF c = x[1] THEN freeTail ELSE p[c]
  BY <1>2, <1>4, <1>5 DEF ArePointers
<1>8. /\ Linked(next', prev', IF freeHead = Nil THEN x[1] ELSE freeHead, f \o x)
      /\ LastOf(f \o x) = LastOf(x) /\ Members(f \o x) = Members(f) \cup Members(x)
  <2>1. \A i \in 1..Len(x) : next'[x[i]] = (IF i = Len(x) THEN Nil ELSE x[i + 1])
    <3> SUFFICES ASSUME NEW i \in 1..Len(x) PROVE next'[x[i]] = (IF i = Len(x) THEN Nil ELSE x[i + 1])
      OBVIOUS
    <3>1. x[i] # freeTail
      BY <1>1, <1>3
    <3> QED
      BY <1>0, <1>1, <1>6, <3>1
  <2>2. \A i \in 1..Len(x) : prev'[x[i]] = (IF i = 1 THEN LastOf(f) ELSE x[i - 1])
    <3> SUFFICES ASSUME NEW i \in 1..Len(x) PROVE prev'[x[i]] = (IF i = 1 THEN LastOf(f) ELSE x[i - 1])
      OBVIOUS
    <3>1. x[i] = x[1] <=> i = 1
      BY <1>1
    <3>2. x[i] \in Channels
      BY <1>1
    <3>3. CASE i = 1
      BY <1>7, <3>2, <3>3
    <3>4. CASE i # 1
      BY <1>0, <1>7, <3>1, <3>2, <3>4
    <3> QED
      BY <3>3, <3>4
  <2>3. \A c \in Members(f) : prev'[c] = p[c] /\ next'[c] = (IF c = LastOf(f) THEN x[1] ELSE n[c])
    BY <1>2, <1>3, <1>6, <1>7
  <2> QED
    BY <1>0, <2>1, <2>2, <2>3, LinkedJoin
<1>9. \A c \in Channels \ (Members(f) \cup Members(x)) : next'[c] = n[c] /\ prev'[c] = p[c]
  BY <1>2, <1>3, <1>6, <1>7, NilIsNone
<1>10. f \o x \in Seq(Channels)
  BY <1>1, <1>3, ConcatProperties
<1> QED
  BY <1>2, <1>3, <1>4, <1>5, <1>6, <1>7, <1>8, <1>9, <1>10

LEMMA ClosedIs ==
  ASSUME ChannelTypeOK, NEW c \in Channels
  PROVE  /\ closed(c).n \in [Channels -> Channels \cup {Nil}] /\ closed(c).p \in [Channels -> Channels \cup {Nil}]
         /\ \A x \in Channels : /\ closed(c).n[x] = IF x = prev[c] THEN next[c] ELSE next[x]
                                /\ closed(c).p[x] = IF x = next[c] THEN prev[c] ELSE prev[x]
<1>1. next \in [Channels -> Channels \cup {Nil}] /\ prev \in [Channels -> Channels \cup {Nil}]
  BY ChannelTyped
<1>2. next[c] \in Channels \cup {Nil} /\ prev[c] \in Channels \cup {Nil}
  BY <1>1
<1>3. closed(c).n = link(next, prev[c], next[c]) /\ closed(c).p = link(prev, next[c], prev[c])
  BY DEF closed
<1> DEFINE T == Channels \cup {Nil}
           F == [Channels -> T]
           n == closed(c).n
           p == closed(c).p
<1>4. ASSUME NEW g \in F, NEW x \in T, NEW v \in T, NEW k, k = link(g, x, v)
      PROVE  k \in F /\ \A y \in Channels : k[y] = IF y = x THEN v ELSE g[y]
  BY ONLY <1>4, LinkIs
<1> HIDE DEF T, F, n, p
<1>5. n = link(next, prev[c], next[c]) /\ p = link(prev, next[c], prev[c])
  BY <1>3 DEF n, p
<1>6. next \in F /\ prev \in F /\ next[c] \in T /\ prev[c] \in T
  BY <1>1, <1>2 DEF F, T
<1>7. n \in F /\ \A y \in Channels : n[y] = IF y = prev[c] THEN next[c] ELSE next[y]
  BY ONLY <1>4, <1>5, <1>6
<1>8. p \in F /\ \A y \in Channels : p[y] = IF y = next[c] THEN prev[c] ELSE prev[y]
  BY ONLY <1>4, <1>5, <1>6
<1>9. closed(c).n = n /\ closed(c).p = p
  BY DEF n, p
<1> QED
  BY ONLY <1>7, <1>9, <1>8 DEF F, T

\* n and p go around c.
GoAround(n, p, c) == \A x \in Channels \ {c} : n[x] = closed(c).n[x] /\ p[x] = closed(c).p[x]

\* A channel leaves the use list.
LEMMA LeavesUse ==
  ASSUME ChannelTypeOK, NEW u, NEW f, NEW l, PoolIs(u, f, l), NEW c \in Members(u), NEW n, NEW p,
         GoAround(n, p, c), unlinkUse(c)
  PROVE  \E w \in Seq(Channels) :
           /\ Linked(n, p, useHead', w) /\ useTail' = LastOf(w) /\ Members(w) = Members(u) \ {c}
           /\ Linked(n, p, freeHead, f) /\ Linked(n, p, late, l)
           /\ useHead' \in Channels \cup {Nil} /\ useTail' \in Channels \cup {Nil}
<1>1. /\ Linked(next, prev, useHead, u) /\ useTail = LastOf(u) /\ Linked(next, prev, freeHead, f) /\ Linked(next, prev, late, l)
      /\ Members(u) \cap Members(f) = {} /\ Members(u) \cap Members(l) = {}
  BY DEF PoolIs, ListsAre, PartsAre
<1>2. PICK k \in 1..Len(u) : c = u[k]
  BY DEF Members
<1>3. Members(u) \subseteq Channels /\ Nil \notin Members(u) /\ \A i \in 1..Len(u) : u[i] \in Members(u)
  BY <1>1, LinkedHas
<1>4. Members(f) \subseteq Channels /\ Nil \notin Members(f) /\ Members(l) \subseteq Channels /\ Nil \notin Members(l)
  BY <1>1, LinkedHas
<1>5. \A x \in Channels \ {c} : /\ n[x] = IF x = prev[c] THEN next[c] ELSE next[x]
                                /\ p[x] = IF x = next[c] THEN prev[c] ELSE prev[x]
  BY <1>3, ClosedIs DEF GoAround
<1>6. /\ Linked(n, p, IF u[k] = useHead THEN next[u[k]] ELSE useHead, without(u, k))
      /\ LastOf(without(u, k)) = (IF u[k] = LastOf(u) THEN prev[u[k]] ELSE LastOf(u))
      /\ Members(without(u, k)) = Members(u) \ {u[k]}
  <2>1. \A x \in Members(u) \ {u[k]} : /\ n[x] = (IF x = prev[u[k]] THEN next[u[k]] ELSE next[x])
                                       /\ p[x] = (IF x = next[u[k]] THEN prev[u[k]] ELSE prev[x])
    BY <1>2, <1>3, <1>5
  <2> QED
    BY <1>1, <2>1, LinkedLeave
<1>7. (next[c] = Nil \/ next[c] \in Members(u)) /\ (prev[c] = Nil \/ prev[c] \in Members(u))
  <2>1. Len(u) \in Nat
    BY <1>1, LinkedHas
  <2>2. /\ next[c] = (IF k = Len(u) THEN Nil ELSE u[k + 1])
        /\ prev[c] = (IF k = 1 THEN Nil ELSE u[k - 1])
    BY <1>1, <1>2 DEF Linked
  <2>3. (k # Len(u) => k + 1 \in 1..Len(u)) /\ (k # 1 => k - 1 \in 1..Len(u))
    BY <2>1
  <2> QED
    BY <1>3, <2>2, <2>3
<1>8. \A x \in Members(f) \cup Members(l) : n[x] = next[x] /\ p[x] = prev[x]
  BY <1>1, <1>3, <1>4, <1>5, <1>7
<1>9. Linked(n, p, freeHead, f) /\ Linked(n, p, late, l)
  BY <1>1, <1>8, LinkedSame
<1>10. /\ useHead' = (IF u[k] = useHead THEN next[u[k]] ELSE useHead)
       /\ useTail' = (IF u[k] = LastOf(u) THEN prev[u[k]] ELSE LastOf(u))
  BY <1>1, <1>2 DEF unlinkUse
<1>11. useHead' \in Channels \cup {Nil} /\ useTail' \in Channels \cup {Nil}
  BY <1>1, <1>2, <1>3, <1>7, <1>10 DEF ChannelTypeOK
<1>12. without(u, k) \in Seq(Channels)
  BY <1>6, LinkedHas
<1> QED
  BY <1>2, <1>6, <1>9, <1>10, <1>11, <1>12

-----------------------------------------------------------------------------
(* ChannelPool: every step keeps the invariant *)

LEMMA ChannelStarts == ChannelInit => ChannelInv
<1> SUFFICES ASSUME ChannelInit PROVE ChannelInv
  OBVIOUS
<1> DEFINE none == <<>>
<1>1. ChannelTypeOK
  <2>1. counter \in 0..IdSpace - 1 /\ 0 \in 0..IdSpace - 1 /\ 0 \in 0..Never /\ clusters \in 0..MaxClusters /\ resets \in 0..1
    BY ChannelPoolAssumption DEF ChannelInit, Never
  <2>2. DOMAIN useMap = {}
    BY DEF ChannelInit
  <2> QED
    BY <2>1, <2>2 DEF ChannelInit, ChannelTypeOK
<1>2. none \in Seq(Channels) /\ Len(none) = 0 /\ Members(none) = {} /\ LastOf(none) = Nil
  BY DEF Members, LastOf
<1> HIDE DEF none
<1>3. Linked(next, prev, Nil, none)
  BY <1>2 DEF Linked, Injects
<1>4. 1..clusters * ClusterSize = {}
  <2>1. clusters * ClusterSize = 0
    BY ChannelPoolAssumption DEF ChannelInit
  <2> QED
    BY <2>1
<1>5. PartsAre(offered, clusters, Members(none), Members(none), Members(none))
  BY <1>2, <1>4 DEF PartsAre, ChannelInit
<1>6. MapIs(useMap, chanId, givenTwice, Members(none))
  <2>1. DOMAIN useMap = {}
    BY DEF ChannelInit
  <2> QED
    BY <1>2, <2>1 DEF MapIs
<1>7. PoolIs(none, none, none)
  BY <1>2, <1>3, <1>5, <1>6 DEF PoolIs, ListsAre, ChannelInit
<1> QED
  BY <1>1, <1>2, <1>7 DEF ChannelInv

\* The lists, by what can be reached.
LEMMA PoolHas ==
  ASSUME NEW u, NEW f, NEW l, PoolIs(u, f, l)
  PROVE  /\ Linked(next, prev, useHead, u) /\ useTail = LastOf(u) /\ Linked(next, prev, freeHead, f) /\ freeTail = LastOf(f)
         /\ Linked(next, prev, late, l)
         /\ u \in Seq(Channels) /\ f \in Seq(Channels) /\ l \in Seq(Channels)
         /\ Members(u) \subseteq Channels /\ Members(f) \subseteq Channels /\ Members(l) \subseteq Channels
         /\ Nil \notin Members(u) /\ Nil \notin Members(f) /\ Nil \notin Members(l)
         /\ reach(next, useHead) = Members(u) /\ reach(next, freeHead) = Members(f) /\ reach(next, late) = Members(l)
         /\ Members(u) \cap Members(f) = {} /\ Members(u) \cap Members(l) = {} /\ Members(f) \cap Members(l) = {}
         /\ offered \notin Members(u) \cup Members(f) \cup Members(l)
         /\ Members(u) \cup Members(f) \cup Members(l) \cup ({offered} \ {Nil}) = 1..clusters * ClusterSize
         /\ MapIs(useMap, chanId, givenTwice, Members(u))
<1>1. /\ Linked(next, prev, useHead, u) /\ useTail = LastOf(u) /\ Linked(next, prev, freeHead, f) /\ freeTail = LastOf(f)
      /\ Linked(next, prev, late, l)
  BY DEF PoolIs, ListsAre
<1>2. u \in Seq(Channels) /\ Members(u) \subseteq Channels /\ Nil \notin Members(u) /\ reach(next, useHead) = Members(u)
  BY <1>1, LinkedHas, ReachedAll
<1>3. f \in Seq(Channels) /\ Members(f) \subseteq Channels /\ Nil \notin Members(f) /\ reach(next, freeHead) = Members(f)
  BY <1>1, LinkedHas, ReachedAll
<1>4. l \in Seq(Channels) /\ Members(l) \subseteq Channels /\ Nil \notin Members(l) /\ reach(next, late) = Members(l)
  BY <1>1, LinkedHas, ReachedAll
<1>5. PartsAre(offered, clusters, Members(u), Members(f), Members(l)) /\ MapIs(useMap, chanId, givenTwice, Members(u))
  BY DEF PoolIs
<1> QED
  BY <1>1, <1>2, <1>3, <1>4, <1>5 DEF PartsAre

\* The channels of S leave the map.
LEMMA MapLeaves ==
  ASSUME NEW M, MapIs(useMap, chanId, givenTwice, M), NEW S, S \subseteq M, NEW ids, \A x \in M \ S : ids[x] = chanId[x],
         NEW um, um = mapWithout({chanId[x] : x \in S})
  PROVE  MapIs(um, ids, givenTwice, M \ S)
<1>1. /\ DOMAIN um = DOMAIN useMap \ {chanId[x] : x \in S}
      /\ \A i \in DOMAIN um : um[i] = useMap[i]
  BY DEF mapWithout
<1>2. ASSUME NEW i \in DOMAIN um PROVE um[i] \in M \ S /\ ids[um[i]] = i
  <2>1. i \in DOMAIN useMap /\ i \notin {chanId[x] : x \in S} /\ um[i] = useMap[i]
    BY <1>1
  <2>2. useMap[i] \in M /\ chanId[useMap[i]] = i
    BY <2>1 DEF MapIs
  <2> QED
    BY <2>1, <2>2
<1>3. ASSUME ~givenTwice, NEW x \in M \ S PROVE ids[x] \in DOMAIN um /\ um[ids[x]] = x
  <2>1. chanId[x] \in DOMAIN useMap /\ useMap[chanId[x]] = x
    BY <1>3 DEF MapIs
  <2>2. \A y \in S : useMap[chanId[y]] = y
    BY <1>3 DEF MapIs
  <2>3. chanId[x] \notin {chanId[y] : y \in S}
    BY <2>1, <2>2
  <2> QED
    BY <1>1, <2>1, <2>3
<1> QED
  BY <1>2, <1>3 DEF MapIs

LEMMA MapStays ==
  ASSUME ChannelTypeOK, NEW ids
  PROVE  /\ DOMAIN mapWithout(ids) \subseteq 1..IdSpace - 1
         /\ \A i \in DOMAIN mapWithout(ids) : mapWithout(ids)[i] \in Channels
BY DEF ChannelTypeOK, mapWithout

\* A channel that is on no list is given out.
LEMMA AllocEnds ==
  ASSUME ChannelTypeOK, ~givenTwice, NEW u \in Seq(Channels), NEW f \in Seq(Channels), NEW l \in Seq(Channels), NEW c \in Channels,
         NEW n \in 0..IdSpace - 1, NEW p, NEW free, ArePointers(free, p),
         ListsAre(free, p, useHead, useTail, freeHead', freeTail', late, u, f, l),
         freeHead' \in Channels \cup {Nil}, freeTail' \in Channels \cup {Nil}, clusters' \in 0..MaxClusters,
         Members(u) \cap Members(f) = {}, Members(u) \cap Members(l) = {}, Members(f) \cap Members(l) = {},
         c \notin Members(u) \cup Members(f) \cup Members(l), c # offered, offered \notin Members(u) \cup Members(f) \cup Members(l),
         Members(u) \cup Members(f) \cup Members(l) \cup {c} \cup ({offered} \ {Nil}) = 1..clusters' * ClusterSize,
         Members(u) \subseteq Channels, MapIs(useMap, chanId, givenTwice, Members(u)), enterUse(c, n, p, free),
         UNCHANGED <<resets, offered, late>>
  PROVE  ChannelInv'
<1> DEFINE fh == freeHead'
           ft == freeTail'
<1>1. ListsAre(free, p, useHead, useTail, fh, ft, late, u, f, l)
  OBVIOUS
<1> HIDE DEF fh, ft
<1>0. free \in [Channels -> Channels \cup {Nil}] /\ p \in [Channels -> Channels \cup {Nil}]
  BY DEF ArePointers
<1>2. /\ ListsAre(next', prev', useHead', useTail', fh, ft, late, u \o <<c>>, f, l)
      /\ Members(u \o <<c>>) = Members(u) \cup {c} /\ u \o <<c>> \in Seq(Channels)
      /\ next' \in [Channels -> Channels \cup {Nil}] /\ prev' \in [Channels -> Channels \cup {Nil}]
      /\ useHead' \in Channels \cup {Nil} /\ useTail' \in Channels \cup {Nil}
  BY <1>0, <1>1, EntersUse
<1>3. /\ MapIs(useMap', chanId', givenTwice', Members(u) \cup {c})
      /\ DOMAIN useMap' \subseteq 1..IdSpace - 1 /\ \A i \in DOMAIN useMap' : useMap'[i] \in Channels
      /\ chanId' \in [Channels -> 0..IdSpace - 1] /\ expire' \in [Channels -> 0..Never] /\ counter' \in 0..IdSpace - 1
      /\ givenTwice' \in BOOLEAN
  BY EntersMap
<1>4. ChannelTypeOK'
  BY <1>2, <1>3 DEF ChannelTypeOK
<1>5. PartsAre(offered', clusters', Members(u \o <<c>>), Members(f), Members(l))
  BY <1>2 DEF PartsAre
<1>6. ListsAre(next', prev', useHead', useTail', freeHead', freeTail', late', u \o <<c>>, f, l)
  BY <1>2 DEF fh, ft
<1>7. PoolIs(u \o <<c>>, f, l)'
  BY <1>2, <1>3, <1>5, <1>6 DEF PoolIs
<1> QED
  BY <1>2, <1>4, <1>7 DEF ChannelInv

\* The numbers of a new cluster.
LEMMA ClusterIs ==
  ASSUME NEW k \in Nat, k < MaxClusters
  PROVE  LET K == k * ClusterSize
             last == (k + 1) * ClusterSize
         IN /\ K \in Nat /\ last = K + ClusterSize /\ K + ClusterSize <= ClusterSize * MaxClusters
            /\ clusterOf(k) = K + 1..K + ClusterSize
            /\ ClusterSize \in Nat /\ ClusterSize > 2
            /\ \A x \in K + 1..K + ClusterSize : x \in Channels
            /\ 1..last = 1..K \cup (K + 1..K + ClusterSize)
<1> DEFINE K == k * ClusterSize
           last == (k + 1) * ClusterSize
<1>1. ClusterSize \in Nat /\ ClusterSize > 2 /\ MaxClusters \in Nat /\ k + 1 \in Nat /\ K \in Nat
  BY ChannelPoolAssumption
<1>2. last = K + ClusterSize
  BY <1>1
<1>3. last <= ClusterSize * MaxClusters
  <2>1. PICK d \in Nat : MaxClusters = (k + 1) + d
    <3>1. MaxClusters - (k + 1) \in Nat /\ MaxClusters = (k + 1) + (MaxClusters - (k + 1))
      BY <1>1
    <3> QED
      BY <3>1
  <2>2. ClusterSize * MaxClusters = last + d * ClusterSize
    BY <1>1, <2>1
  <2>3. d * ClusterSize \in Nat
    BY <1>1
  <2>4. last \in Nat
    BY <1>1, <1>2
  <2> HIDE DEF last
  <2> QED
    BY <2>2, <2>3, <2>4
<1>4. clusterOf(k) = K + 1..K + ClusterSize
  BY <1>2 DEF clusterOf
<1>5. \A x \in K + 1..K + ClusterSize : x \in Channels
  <2> DEFINE top == ClusterSize * MaxClusters
  <2>1. K + ClusterSize <= top /\ top \in Nat /\ Channels = 1..top
    BY <1>1, <1>2, <1>3 DEF Channels
  <2> HIDE DEF K, last, top
  <2> QED
    BY <1>1, <2>1
<1>6. 1..last = 1..K \cup (K + 1..K + ClusterSize)
  <2> HIDE DEF K, last
  <2> QED
    BY <1>1, <1>2
<1> QED
  BY <1>1, <1>2, <1>3, <1>4, <1>5, <1>6

LEMMA AllocNewKeeps ==
  ASSUME ChannelInv, allocNew, ~givenTwice
  PROVE  ChannelInv'
<1> PICK u, f, l \in Seq(Channels) : PoolIs(u, f, l)
  BY DEF ChannelInv
<1> USE DEF ChannelInv
<1> DEFINE K == clusters * ClusterSize
           last == (clusters + 1) * ClusterSize
           p == [c \in Channels |-> IF c \in clusterOf(clusters) /\ c > K + 1 + 1 THEN c - 1
                                    ELSE IF c = K + 1 + 1 THEN Nil ELSE prev[c]]
           free == [c \in Channels |-> IF c \in clusterOf(clusters) /\ c < last THEN c + 1
                                       ELSE IF c = last THEN Nil ELSE next[c]]
           n == (counter + 1) % IdSpace
           new == [i \in 1..ClusterSize - 1 |-> K + 1 + i]
<1>0. ChannelTypeOK
  OBVIOUS
<1>1. /\ Linked(next, prev, useHead, u) /\ useTail = LastOf(u) /\ Linked(next, prev, freeHead, f)
      /\ Linked(next, prev, late, l)
      /\ Members(u) \subseteq Channels /\ Members(l) \subseteq Channels
      /\ Members(u) \cap Members(l) = {} /\ offered \notin Members(u) \cup Members(f) \cup Members(l)
      /\ Members(u) \cup Members(f) \cup Members(l) \cup ({offered} \ {Nil}) = 1..K
      /\ MapIs(useMap, chanId, givenTwice, Members(u))
  BY PoolHas
<1>2. Members(f) = {} /\ clusters < MaxClusters /\ freeHead = Nil
  <2>1. freeHead = Nil /\ clusters < MaxClusters
    BY DEF allocNew
  <2>2. Len(f) = 0
    BY <1>1, <2>1, LinkedHas
  <2> QED
    BY <2>1, <2>2 DEF Members
<1>3. clusters \in Nat /\ clusters <= MaxClusters /\ next \in [Channels -> Channels \cup {Nil}] /\ prev \in [Channels -> Channels \cup {Nil}]
  BY <1>0, ChannelTyped
<1>4. /\ K \in Nat /\ last = K + ClusterSize /\ ClusterSize \in Nat /\ ClusterSize > 2
      /\ clusterOf(clusters) = K + 1..K + ClusterSize
      /\ \A x \in K + 1..K + ClusterSize : x \in Channels
      /\ 1..last = 1..K \cup (K + 1..K + ClusterSize)
  BY <1>2, <1>3, ClusterIs
<1>5. /\ freeHead' = K + 1 + 1 /\ freeTail' = last /\ enterUse(K + 1, n, p, free) /\ clusters' = clusters + 1
      /\ UNCHANGED <<resets, offered, late>>
  BY DEF allocNew
<1>6. n \in 0..IdSpace - 1
  <2>1. counter \in Nat /\ IdSpace \in Nat /\ IdSpace > 0
    BY <1>0, ChannelPoolAssumption DEF ChannelTypeOK
  <2> QED
    BY <2>1
<1>7. clusters' \in 0..MaxClusters /\ clusters' * ClusterSize = last
  BY <1>2, <1>3, <1>5, ChannelPoolAssumption
<1>8. /\ \A c \in Channels : p[c] = IF c \in clusterOf(clusters) /\ c > K + 1 + 1 THEN c - 1
                                    ELSE IF c = K + 1 + 1 THEN Nil ELSE prev[c]
      /\ \A c \in Channels : free[c] = IF c \in clusterOf(clusters) /\ c < last THEN c + 1
                                       ELSE IF c = last THEN Nil ELSE next[c]
  OBVIOUS
<1>9. p \in [Channels -> Channels \cup {Nil}] /\ free \in [Channels -> Channels \cup {Nil}]
  <2> HIDE DEF K, last
  <2>1. \A c \in clusterOf(clusters) : (c > K + 1 + 1 => c - 1 \in Channels) /\ (c < last => c + 1 \in Channels)
    BY <1>4
  <2> QED
    BY <1>3, <2>1
<1> HIDE DEF p, free, n
<1>10. new \in Seq(Channels) /\ Len(new) = ClusterSize - 1 /\ \A i \in 1..ClusterSize - 1 : new[i] = K + 1 + i
  <2>1. \A i \in 1..ClusterSize - 1 : new[i] = K + 1 + i
    OBVIOUS
  <2>2. new = [i \in 1..ClusterSize - 1 |-> new[i]]
    OBVIOUS
  <2> HIDE DEF K, last, new
  <2>3. \A i \in 1..ClusterSize - 1 : new[i] \in Channels
    BY <1>4, <2>1
  <2> DEFINE m == ClusterSize - 1
  <2>4. m \in Nat /\ new \in [1..m -> Channels]
    BY <1>4, <2>2, <2>3
  <2> HIDE DEF m
  <2>5. new \in Seq(Channels) /\ Len(new) = m
    BY <2>4
  <2> QED
    BY <2>1, <2>5 DEF m
<1> HIDE DEF new
<1>11. Members(new) = K + 1 + 1..K + ClusterSize
  <2>1. Members(new) = {new[i] : i \in 1..ClusterSize - 1}
    BY <1>10 DEF Members
  <2> HIDE DEF K, last
  <2>2. \A i \in 1..ClusterSize - 1 : K + 1 + i \in K + 1 + 1..K + ClusterSize
    BY <1>4
  <2>3. \A x \in K + 1 + 1..K + ClusterSize : x - (K + 1) \in 1..ClusterSize - 1 /\ x = K + 1 + (x - (K + 1))
    BY <1>4
  <2>4. \A x \in K + 1 + 1..K + ClusterSize : \E i \in 1..ClusterSize - 1 : x = new[i]
    BY <1>10, <2>3
  <2> QED
    BY <1>10, <2>1, <2>2, <2>4
<1>12. Linked(free, p, K + 1 + 1, new) /\ LastOf(new) = last
  <2> HIDE DEF K, last
  <2>1. Injects(new)
    <3> SUFFICES ASSUME NEW i \in 1..ClusterSize - 1, NEW j \in 1..ClusterSize - 1, new[i] = new[j] PROVE i = j
      BY <1>10 DEF Injects
    <3>1. K + 1 + i = K + 1 + j
      BY <1>10
    <3> QED
      BY <1>4, <3>1
  <2>2. ASSUME NEW i \in 1..ClusterSize - 1
        PROVE  /\ free[new[i]] = (IF i = ClusterSize - 1 THEN Nil ELSE new[i + 1])
               /\ p[new[i]] = (IF i = 1 THEN Nil ELSE new[i - 1])
    <3>1. /\ K + 1 + i \in K + 1..K + ClusterSize /\ (i = ClusterSize - 1 <=> K + 1 + i = last) /\ (i # ClusterSize - 1 => K + 1 + i < last)
          /\ (i # ClusterSize - 1 => i + 1 \in 1..ClusterSize - 1 /\ (K + 1 + i) + 1 = K + 1 + (i + 1))
          /\ (i = 1 <=> K + 1 + i = K + 1 + 1) /\ (i # 1 => K + 1 + i > K + 1 + 1)
          /\ (i # 1 => i - 1 \in 1..ClusterSize - 1 /\ (K + 1 + i) - 1 = K + 1 + (i - 1)) /\ ~(last < last)
          /\ ~(K + 1 + 1 > K + 1 + 1)
      BY <1>4
    <3>2. free[K + 1 + i] = (IF i = ClusterSize - 1 THEN Nil ELSE (K + 1 + i) + 1)
      BY <1>4, <1>8, <3>1
    <3>3. p[K + 1 + i] = (IF i = 1 THEN Nil ELSE (K + 1 + i) - 1)
      BY <1>4, <1>8, <3>1
    <3> QED
      BY <1>10, <3>1, <3>2, <3>3
  <2>3. 1 \in 1..ClusterSize - 1 /\ ClusterSize - 1 \in 1..ClusterSize - 1 /\ ClusterSize - 1 # 0 /\ K + 1 + (ClusterSize - 1) = last
    BY <1>4
  <2> QED
    BY <1>10, <2>1, <2>2, <2>3 DEF Linked, LastOf
<1>13. \A x \in Members(u) \cup Members(l) : x \in Channels /\ x \in 1..K
  BY <1>1
<1>14. \A x \in Members(u) \cup Members(l) : free[x] = next[x] /\ p[x] = prev[x]
  <2> SUFFICES ASSUME NEW x \in Members(u) \cup Members(l) PROVE free[x] = next[x] /\ p[x] = prev[x]
    OBVIOUS
  <2>1. x \in Channels /\ x \in 1..K
    BY <1>13
  <2> HIDE DEF K, last
  <2>2. x \notin clusterOf(clusters) /\ x # last /\ x # K + 1 + 1
    BY <1>4, <2>1
  <2> QED
    BY <1>8, <2>1, <2>2
<1>15. Linked(free, p, useHead, u) /\ Linked(free, p, late, l)
  BY <1>1, <1>14, LinkedSame
<1>16. ListsAre(free, p, useHead, useTail, freeHead', freeTail', late, u, new, l)
  BY <1>1, <1>5, <1>12, <1>15 DEF ListsAre
<1>17. \A x \in 1..K : x \notin K + 1..K + ClusterSize
  <2> HIDE DEF K, last
  <2> QED
    BY <1>4
<1>18. /\ K + 1 \in K + 1..K + ClusterSize /\ K + 1 \notin K + 1 + 1..K + ClusterSize
       /\ K + 1..K + ClusterSize = {K + 1} \cup (K + 1 + 1..K + ClusterSize)
       /\ last \in K + 1..K + ClusterSize /\ K + 1 + 1 \in K + 1..K + ClusterSize /\ K + 1 # Nil
       /\ \A x \in K + 1..K + ClusterSize : x # Nil
  <2>1. K \in Nat /\ last = K + ClusterSize /\ ClusterSize \in Nat /\ ClusterSize > 2
    BY <1>4
  <2> HIDE DEF K, last
  <2>2. /\ K + 1 \in K + 1..K + ClusterSize /\ K + 1 \notin K + 1 + 1..K + ClusterSize
        /\ last \in K + 1..K + ClusterSize /\ K + 1 + 1 \in K + 1..K + ClusterSize
    BY ONLY <2>1
  <2>3. K + 1..K + ClusterSize = {K + 1} \cup (K + 1 + 1..K + ClusterSize)
    BY ONLY <2>1
  <2>4. K + 1 # Nil /\ \A x \in K + 1..K + ClusterSize : x # Nil
    BY ONLY <2>1 DEF Nil
  <2> QED
    BY <2>2, <2>3, <2>4
<1>19. /\ Members(u) \cap Members(new) = {} /\ Members(new) \cap Members(l) = {} /\ K + 1 \notin Members(u) \cup Members(new) \cup Members(l)
       /\ K + 1 # offered /\ offered \notin Members(u) \cup Members(new) \cup Members(l)
       /\ Members(u) \cup Members(new) \cup Members(l) \cup {K + 1} \cup ({offered} \ {Nil}) = 1..last
  <2>1. offered = Nil \/ offered \in 1..K
    BY <1>1
  <2>2. \A x \in Members(new) : x \in K + 1..K + ClusterSize /\ x # Nil
    BY <1>11, <1>18
  <2>3. 1..last = 1..K \cup ({K + 1} \cup Members(new))
    BY <1>4, <1>11, <1>18
  <2> HIDE DEF K, last
  <2>4. K + 1 \notin 1..K
    BY <1>17, <1>18
  <2>5. \A x \in 1..K : x \notin Members(new)
    BY <1>17, <2>2
  <2>6. K + 1 \notin Members(new)
    BY <1>11, <1>18
  <2> QED
    BY <1>1, <1>2, <1>13, <1>18, <2>1, <2>2, <2>3, <2>4, <2>5, <2>6
<1>20. K + 1 \in Channels /\ freeHead' \in Channels \cup {Nil} /\ freeTail' \in Channels \cup {Nil}
  BY <1>4, <1>5, <1>18
<1> QED
  <2> DEFINE c == K + 1
  <2>1. /\ c \in Channels /\ enterUse(c, n, p, free) /\ c \notin Members(u) \cup Members(new) \cup Members(l) /\ c # offered
        /\ Members(u) \cup Members(new) \cup Members(l) \cup {c} \cup ({offered} \ {Nil}) = 1..clusters' * ClusterSize
    BY <1>5, <1>7, <1>19, <1>20
  <2>2. ArePointers(free, p)
    BY <1>9 DEF ArePointers
  <2> HIDE DEF c, K, last, ChannelInv
  <2> QED
    BY <1>0, <1>1, <1>5, <1>6, <1>7, <1>10, <1>16, <1>19, <1>20, <2>1, <2>2, AllocEnds

LEMMA FreeFront ==
  ASSUME ChannelTypeOK, NEW x \in Channels, next[x] \in Channels \cup {Nil}
  PROVE  /\ link(prev, next[x], Nil) \in [Channels -> Channels \cup {Nil}]
         /\ \A y \in Channels : link(prev, next[x], Nil)[y] = IF y = next[x] THEN Nil ELSE prev[y]
<1>1. prev \in [Channels -> Channels \cup {Nil}]
  BY ChannelTyped
<1>2. CASE next[x] = Nil
  BY <1>1, <1>2, NilIsNone DEF link
<1>3. CASE next[x] # Nil
  BY <1>1, <1>3 DEF link
<1> QED
  BY <1>2, <1>3

LEMMA AllocFreeKeeps ==
  ASSUME ChannelInv, allocFree, ~givenTwice
  PROVE  ChannelInv'
<1>0. PICK u, f, l \in Seq(Channels) : ChannelTypeOK /\ PoolIs(u, f, l)
  BY DEF ChannelInv
<1> DEFINE it == freeHead
           n == (counter + 1) % IdSpace
           p == link(prev, next[freeHead], Nil)
           w == without(f, 1)
<1>1. /\ Linked(next, prev, useHead, u) /\ useTail = LastOf(u) /\ Linked(next, prev, freeHead, f) /\ freeTail = LastOf(f)
      /\ Linked(next, prev, late, l)
      /\ Members(u) \subseteq Channels /\ Members(l) \subseteq Channels /\ Members(f) \subseteq Channels
      /\ Nil \notin Members(u) /\ Nil \notin Members(f) /\ Nil \notin Members(l)
      /\ Members(u) \cap Members(f) = {} /\ Members(u) \cap Members(l) = {} /\ Members(f) \cap Members(l) = {}
      /\ offered \notin Members(u) \cup Members(f) \cup Members(l)
      /\ Members(u) \cup Members(f) \cup Members(l) \cup ({offered} \ {Nil}) = 1..clusters * ClusterSize
      /\ MapIs(useMap, chanId, givenTwice, Members(u))
  BY <1>0, PoolHas
<1>2. next \in [Channels -> Channels \cup {Nil}] /\ prev \in [Channels -> Channels \cup {Nil}] /\ clusters \in 0..MaxClusters
  BY <1>0, ChannelTyped DEF ChannelTypeOK
<1>3. /\ freeHead # Nil /\ freeHead' = next[freeHead] /\ freeTail' = (IF next[freeHead] = Nil THEN Nil ELSE freeTail)
      /\ enterUse(it, n, p, next) /\ UNCHANGED <<clusters, resets, offered, late>>
  BY DEF allocFree
<1>4. n \in 0..IdSpace - 1
  <2>1. counter \in Nat /\ IdSpace \in Nat /\ IdSpace > 0
    BY <1>0, ChannelPoolAssumption DEF ChannelTypeOK
  <2> QED
    BY <2>1
<1>5. /\ Len(f) \in Nat /\ Len(f) # 0 /\ 1 \in 1..Len(f) /\ freeHead = f[1] /\ freeHead \in Members(f) /\ freeHead \in Channels
      /\ LastOf(f) = f[Len(f)] /\ Len(f) \in 1..Len(f) /\ \A i \in 1..Len(f) : f[i] \in Members(f)
  <2>1. Len(f) \in Nat /\ Len(f) # 0 /\ \A i \in 1..Len(f) : f[i] \in Members(f) /\ f[i] \in Channels
    BY <1>1, <1>3, LinkedHas
  <2>2. freeHead = f[1] /\ 1 \in 1..Len(f) /\ Len(f) \in 1..Len(f)
    BY <1>1, <2>1 DEF Linked
  <2> QED
    BY <2>1, <2>2 DEF LastOf
<1>6. next[freeHead] = (IF 1 = Len(f) THEN Nil ELSE f[2]) /\ prev[freeHead] = Nil /\ (1 # Len(f) => 2 \in 1..Len(f))
  <2>1. /\ \A i \in 1..Len(f) : next[f[i]] = (IF i = Len(f) THEN Nil ELSE f[i + 1])
        /\ \A i \in 1..Len(f) : prev[f[i]] = (IF i = 1 THEN Nil ELSE f[i - 1])
    BY <1>1 DEF Linked
  <2> DEFINE k == 1
  <2>2. k \in 1..Len(f) /\ freeHead = f[k] /\ k + 1 = 2 /\ k = 1
    BY <1>5
  <2> HIDE DEF k
  <2>3. next[f[k]] = (IF k = Len(f) THEN Nil ELSE f[k + 1]) /\ prev[f[k]] = (IF k = 1 THEN Nil ELSE f[k - 1])
    BY <2>1, <2>2
  <2>4. 1 # Len(f) => 2 \in 1..Len(f)
    <3> DEFINE m == Len(f)
    <3>1. m \in Nat /\ m # 0
      BY <1>5
    <3> HIDE DEF m
    <3>2. 1 # m => 2 \in 1..m
      BY ONLY <3>1
    <3> QED
      BY <3>2 DEF m
  <2> QED
    BY <2>2, <2>3, <2>4
<1>7. next[freeHead] \in Channels \cup {Nil} /\ (next[freeHead] = Nil \/ next[freeHead] \in Members(f))
  BY <1>1, <1>5, <1>6
<1>8. /\ p \in [Channels -> Channels \cup {Nil}]
      /\ \A x \in Channels : p[x] = IF x = next[freeHead] THEN Nil ELSE prev[x]
  BY <1>0, <1>5, <1>7, FreeFront
<1> HIDE DEF p, n
<1>9. /\ Linked(next, p, IF f[1] = freeHead THEN next[f[1]] ELSE freeHead, w)
      /\ LastOf(w) = (IF f[1] = LastOf(f) THEN prev[f[1]] ELSE LastOf(f))
      /\ Members(w) = Members(f) \ {f[1]}
  <2>1. \A x \in Members(f) \ {f[1]} : /\ next[x] = (IF x = prev[f[1]] THEN next[f[1]] ELSE next[x])
                                       /\ p[x] = (IF x = next[f[1]] THEN prev[f[1]] ELSE prev[x])
    BY <1>1, <1>5, <1>6, <1>8
  <2> DEFINE k == 1
  <2>2. /\ k \in 1..Len(f) /\ Linked(next, prev, freeHead, f)
        /\ \A x \in Members(f) \ {f[k]} : /\ next[x] = (IF x = prev[f[k]] THEN next[f[k]] ELSE next[x])
                                          /\ p[x] = (IF x = next[f[k]] THEN prev[f[k]] ELSE prev[x])
    BY <1>1, <1>5, <2>1
  <2> HIDE DEF k, w
  <2>3. /\ Linked(next, p, IF f[k] = freeHead THEN next[f[k]] ELSE freeHead, without(f, k))
        /\ LastOf(without(f, k)) = (IF f[k] = LastOf(f) THEN prev[f[k]] ELSE LastOf(f))
        /\ Members(without(f, k)) = Members(f) \ {f[k]}
    BY ONLY <2>2, LinkedLeave
  <2> QED
    BY <2>3 DEF k, w
<1> HIDE DEF w
<1>10. freeTail' = LastOf(w) /\ freeHead' = next[f[1]] /\ f[1] = freeHead
  <2>1. f[1] = LastOf(f) <=> 1 = Len(f)
    <3>1. \A i, j \in 1..Len(f) : f[i] = f[j] => i = j
      BY <1>1, LinkedHas
    <3> QED
      BY <1>5, <3>1
  <2>2. next[freeHead] = Nil <=> 1 = Len(f)
    BY <1>1, <1>5, <1>6
  <2> QED
    BY <1>1, <1>3, <1>5, <1>6, <1>9, <2>1, <2>2
<1>11. \A x \in Members(u) \cup Members(l) : p[x] = prev[x]
  BY <1>1, <1>7, <1>8
<1>12. Linked(next, p, useHead, u) /\ Linked(next, p, late, l)
  BY <1>1, <1>11, LinkedSame
<1>13. ListsAre(next, p, useHead, useTail, freeHead', freeTail', late, u, w, l)
  BY <1>1, <1>9, <1>10, <1>12 DEF ListsAre
<1>14. w \in Seq(Channels)
  BY <1>9, LinkedHas
<1>15. freeHead' \in Channels \cup {Nil} /\ freeTail' \in Channels \cup {Nil}
  BY <1>0, <1>3, <1>7 DEF ChannelTypeOK
<1>16. Members(w) = Members(f) \ {it} /\ it \in Members(f) /\ it \in Channels
  BY <1>5, <1>9
<1> HIDE DEF it
<1>17. /\ Members(u) \cap Members(w) = {} /\ Members(w) \cap Members(l) = {} /\ it \notin Members(u) \cup Members(w) \cup Members(l)
       /\ it # offered /\ offered \notin Members(u) \cup Members(w) \cup Members(l)
       /\ Members(u) \cup Members(w) \cup Members(l) \cup {it} \cup ({offered} \ {Nil}) = 1..clusters' * ClusterSize
       /\ clusters' \in 0..MaxClusters
  BY <1>1, <1>2, <1>3, <1>16
<1> DEFINE free == next
<1>18. /\ ChannelTypeOK /\ ~givenTwice /\ u \in Seq(Channels) /\ l \in Seq(Channels) /\ MapIs(useMap, chanId, givenTwice, Members(u))
       /\ Members(u) \cap Members(l) = {} /\ Members(u) \subseteq Channels
       /\ ListsAre(free, p, useHead, useTail, freeHead', freeTail', late, u, w, l)
       /\ ArePointers(free, p) /\ enterUse(it, n, p, free) /\ UNCHANGED <<resets, offered, late>>
  BY <1>0, <1>1, <1>2, <1>3, <1>8, <1>13 DEF ArePointers
<1> HIDE DEF free
<1> QED
  BY ONLY <1>4, <1>14, <1>15, <1>16, <1>17, <1>18, AllocEnds

LEMMA FreeKeeps ==
  ASSUME ChannelInv, NEW c \in reach(next, useHead), freeChannel(c)
  PROVE  ChannelInv'
<1>0. PICK u, f, l \in Seq(Channels) : ChannelTypeOK /\ PoolIs(u, f, l)
  BY DEF ChannelInv
<1> DEFINE n == [closed(c).n EXCEPT ![c] = Nil]
           p == closed(c).p
           x == <<c>>
<1>1. /\ freeTail = LastOf(f)
      /\ Members(u) \subseteq Channels /\ Members(l) \subseteq Channels /\ Members(f) \subseteq Channels
      /\ Members(u) \cap Members(f) = {} /\ Members(u) \cap Members(l) = {} /\ Members(f) \cap Members(l) = {}
      /\ offered \notin Members(u) \cup Members(f) \cup Members(l)
      /\ Members(u) \cup Members(f) \cup Members(l) \cup ({offered} \ {Nil}) = 1..clusters * ClusterSize
      /\ MapIs(useMap, chanId, givenTwice, Members(u)) /\ c \in Members(u) /\ c \in Channels
  BY <1>0, PoolHas
<1>2. /\ useMap' = mapWithout({chanId[c]}) /\ unlinkUse(c) /\ toFreeList(c, c, n, p) /\ chanId' = [chanId EXCEPT ![c] = 0]
      /\ UNCHANGED <<clusters, expire, counter, resets, offered, late, givenTwice>>
  BY DEF freeChannel
<1>3. /\ n \in [Channels -> Channels \cup {Nil}] /\ p \in [Channels -> Channels \cup {Nil}] /\ n[c] = Nil
      /\ GoAround(n, p, c)
  <2>1. closed(c).n \in [Channels -> Channels \cup {Nil}] /\ closed(c).p \in [Channels -> Channels \cup {Nil}]
    BY <1>0, <1>1, ClosedIs
  <2> QED
    BY <1>1, <2>1 DEF GoAround
<1> HIDE DEF n, p
<1>4. PICK w \in Seq(Channels) :
         /\ Linked(n, p, useHead', w) /\ useTail' = LastOf(w) /\ Members(w) = Members(u) \ {c}
         /\ Linked(n, p, freeHead, f) /\ Linked(n, p, late, l)
         /\ useHead' \in Channels \cup {Nil} /\ useTail' \in Channels \cup {Nil}
  BY <1>0, <1>1, <1>2, <1>3, LeavesUse
<1>5. /\ Injects(x) /\ Len(x) = 1 /\ x[1] = c /\ Members(x) = {c} /\ LastOf(x) = c
  BY <1>1, OneChannel
<1> HIDE DEF x
<1>6. \A i \in 1..Len(x) : i = 1 /\ i = Len(x) /\ x[i] = c
  BY <1>5
<1>7. /\ RunsOn(n, p, x) /\ ArePointers(n, p) /\ Members(f) \cap Members(x) = {} /\ toFreeList(x[1], LastOf(x), n, p)
  BY <1>1, <1>2, <1>3, <1>5, <1>6 DEF RunsOn, ArePointers
<1>8. /\ Linked(next', prev', freeHead', f \o x) /\ freeTail' = LastOf(f \o x)
      /\ Members(f \o x) = Members(f) \cup Members(x) /\ f \o x \in Seq(Channels)
      /\ next' \in [Channels -> Channels \cup {Nil}] /\ prev' \in [Channels -> Channels \cup {Nil}]
      /\ freeHead' \in Channels \cup {Nil} /\ freeTail' \in Channels \cup {Nil}
      /\ \A y \in Channels \ (Members(f) \cup Members(x)) : next'[y] = n[y] /\ prev'[y] = p[y]
  BY <1>0, <1>1, <1>3, <1>4, <1>7, GoesFree
<1>9. Linked(next', prev', useHead', w) /\ Linked(next', prev', late, l)
  <2>1. \A y \in Members(w) \cup Members(l) : next'[y] = n[y] /\ prev'[y] = p[y]
    BY <1>1, <1>4, <1>5, <1>8
  <2> QED
    BY <1>4, <2>1, LinkedSame
<1>10. ListsAre(next', prev', useHead', useTail', freeHead', freeTail', late', w, f \o x, l)
  BY <1>2, <1>4, <1>8, <1>9 DEF ListsAre
<1>11. PartsAre(offered', clusters', Members(w), Members(f \o x), Members(l))
  BY <1>1, <1>2, <1>4, <1>5, <1>8 DEF PartsAre
<1>12. MapIs(useMap', chanId', givenTwice', Members(w))
  <2>1. useMap' = mapWithout({chanId[y] : y \in {c}})
    BY <1>2
  <2>2. \A y \in Members(u) \ {c} : chanId'[y] = chanId[y]
    BY <1>0, <1>1, <1>2 DEF ChannelTypeOK
  <2>3. {c} \subseteq Members(u) /\ givenTwice' = givenTwice
    BY <1>1, <1>2
  <2> DEFINE ids == chanId'
             um == useMap'
             S == {c}
             M == Members(u)
  <2>4. S \subseteq M /\ um = mapWithout({chanId[y] : y \in S}) /\ \A y \in M \ S : ids[y] = chanId[y]
    BY <2>1, <2>2, <2>3
  <2>5. MapIs(useMap, chanId, givenTwice, M)
    BY <1>1
  <2> HIDE DEF ids, um, S, M
  <2>6. MapIs(um, ids, givenTwice, M \ S)
    BY <2>4, <2>5, MapLeaves
  <2> QED
    BY <1>4, <2>3, <2>6 DEF ids, um, S, M
<1>13. ChannelTypeOK'
  <2>1. chanId' \in [Channels -> 0..IdSpace - 1]
    BY <1>0, <1>1, <1>2, ChannelPoolAssumption DEF ChannelTypeOK
  <2>2. DOMAIN useMap' \subseteq 1..IdSpace - 1 /\ \A i \in DOMAIN useMap' : useMap'[i] \in Channels
    BY <1>0, <1>2, MapStays
  <2>3. /\ {next', prev'} \subseteq [Channels -> Channels \cup {Nil}]
        /\ freeHead' \in Channels \cup {Nil} /\ freeTail' \in Channels \cup {Nil}
        /\ useHead' \in Channels \cup {Nil} /\ useTail' \in Channels \cup {Nil}
        /\ UNCHANGED <<clusters, expire, counter, resets, offered, late, givenTwice>>
    BY <1>2, <1>4, <1>8
  <2> QED
    BY <1>0, <2>1, <2>2, <2>3 DEF ChannelTypeOK
<1>14. PoolIs(w, f \o x, l)'
  BY <1>10, <1>11, <1>12 DEF PoolIs
<1> QED
  BY <1>8, <1>13, <1>14 DEF ChannelInv

LEMMA OfferKeeps ==
  ASSUME ChannelInv, NEW i \in DOMAIN useMap, offerChannel(i)
  PROVE  ChannelInv'
<1>0. PICK u, f, l \in Seq(Channels) : ChannelTypeOK /\ PoolIs(u, f, l)
  BY DEF ChannelInv
<1> DEFINE c == useMap[i]
<1>1. /\ freeTail = LastOf(f) /\ Nil \notin Members(u)
      /\ Members(u) \subseteq Channels /\ Members(l) \subseteq Channels /\ Members(f) \subseteq Channels
      /\ Members(u) \cap Members(f) = {} /\ Members(u) \cap Members(l) = {} /\ Members(f) \cap Members(l) = {}
      /\ offered \notin Members(u) \cup Members(f) \cup Members(l)
      /\ Members(u) \cup Members(f) \cup Members(l) \cup ({offered} \ {Nil}) = 1..clusters * ClusterSize
      /\ MapIs(useMap, chanId, givenTwice, Members(u))
  BY <1>0, PoolHas
<1>2. c \in Members(u) /\ c \in Channels /\ chanId[c] = i /\ c # Nil
  BY <1>1 DEF MapIs
<1>3. /\ useMap' = mapWithout({i}) /\ unlinkUse(c) /\ offered = Nil /\ offered' = c
      /\ next' = [closed(c).n EXCEPT ![c] = Nil] /\ prev' = [closed(c).p EXCEPT ![c] = Nil]
      /\ UNCHANGED <<clusters, freeHead, freeTail, chanId, expire, counter, resets, late, givenTwice>>
  BY DEF offerChannel
<1> HIDE DEF c
<1>4. /\ next' \in [Channels -> Channels \cup {Nil}] /\ prev' \in [Channels -> Channels \cup {Nil}]
      /\ GoAround(next', prev', c)
  <2>1. closed(c).n \in [Channels -> Channels \cup {Nil}] /\ closed(c).p \in [Channels -> Channels \cup {Nil}]
    BY <1>0, <1>2, ClosedIs
  <2> QED
    BY <1>2, <1>3, <2>1 DEF GoAround
<1>5. PICK w \in Seq(Channels) :
         /\ Linked(next', prev', useHead', w) /\ useTail' = LastOf(w) /\ Members(w) = Members(u) \ {c}
         /\ Linked(next', prev', freeHead, f) /\ Linked(next', prev', late, l)
         /\ useHead' \in Channels \cup {Nil} /\ useTail' \in Channels \cup {Nil}
  <2> DEFINE n == next'
             p == prev'
  <2>1. GoAround(n, p, c)
    BY <1>4
  <2> HIDE DEF n, p
  <2>2. \E w \in Seq(Channels) :
         /\ Linked(n, p, useHead', w) /\ useTail' = LastOf(w) /\ Members(w) = Members(u) \ {c}
         /\ Linked(n, p, freeHead, f) /\ Linked(n, p, late, l)
         /\ useHead' \in Channels \cup {Nil} /\ useTail' \in Channels \cup {Nil}
    BY <1>0, <1>2, <1>3, <2>1, LeavesUse
  <2> QED
    BY <2>2 DEF n, p
<1>6. ListsAre(next', prev', useHead', useTail', freeHead', freeTail', late', w, f, l)
  BY <1>1, <1>3, <1>5 DEF ListsAre
<1>7. PartsAre(offered', clusters', Members(w), Members(f), Members(l))
  BY <1>1, <1>2, <1>3, <1>5 DEF PartsAre
<1>8. MapIs(useMap', chanId', givenTwice', Members(w))
  <2>1. useMap' = mapWithout({chanId[y] : y \in {c}})
    BY <1>2, <1>3
  <2> DEFINE um == useMap'
             S == {c}
             M == Members(u)
  <2>2. S \subseteq M /\ um = mapWithout({chanId[y] : y \in S}) /\ \A y \in M \ S : chanId[y] = chanId[y]
    BY <1>2, <2>1
  <2>3. MapIs(useMap, chanId, givenTwice, M)
    BY <1>1
  <2> HIDE DEF um, S, M
  <2>4. MapIs(um, chanId, givenTwice, M \ S)
    BY <2>2, <2>3, MapLeaves
  <2> QED
    BY <1>3, <1>5, <2>4 DEF um, S, M
<1>9. ChannelTypeOK'
  <2>1. DOMAIN useMap' \subseteq 1..IdSpace - 1 /\ \A j \in DOMAIN useMap' : useMap'[j] \in Channels
    BY <1>0, <1>3, MapStays
  <2>2. offered' \in Channels /\ UNCHANGED <<clusters, freeHead, freeTail, chanId, expire, counter, resets, late, givenTwice>>
    BY <1>2, <1>3
  <2>3. next' \in [Channels -> Channels \cup {Nil}] /\ prev' \in [Channels -> Channels \cup {Nil}]
    BY <1>4
  <2>4. useHead' \in Channels \cup {Nil} /\ useTail' \in Channels \cup {Nil}
    BY <1>5
  <2> QED
    BY <1>0, <2>1, <2>2, <2>3, <2>4 DEF ChannelTypeOK
<1>10. PoolIs(w, f, l)'
  BY <1>6, <1>7, <1>8 DEF PoolIs
<1> QED
  BY <1>9, <1>10 DEF ChannelInv

LEMMA AppendKeeps ==
  ASSUME ChannelInv, appendChannel
  PROVE  ChannelInv'
<1>0. PICK u, f, l \in Seq(Channels) : ChannelTypeOK /\ PoolIs(u, f, l)
  BY DEF ChannelInv
<1> DEFINE n == [next EXCEPT ![offered] = Nil]
           p == prev
<1>1. /\ Linked(next, prev, useHead, u) /\ useTail = LastOf(u) /\ Linked(next, prev, freeHead, f) /\ freeTail = LastOf(f)
      /\ Linked(next, prev, late, l)
      /\ Members(u) \subseteq Channels /\ Members(l) \subseteq Channels /\ Members(f) \subseteq Channels
      /\ Nil \notin Members(u) /\ Nil \notin Members(f) /\ Nil \notin Members(l)
      /\ Members(u) \cap Members(f) = {} /\ Members(u) \cap Members(l) = {} /\ Members(f) \cap Members(l) = {}
      /\ offered \notin Members(u) \cup Members(f) \cup Members(l)
      /\ Members(u) \cup Members(f) \cup Members(l) \cup ({offered} \ {Nil}) = 1..clusters * ClusterSize
      /\ MapIs(useMap, chanId, givenTwice, Members(u))
  BY <1>0, PoolHas
<1>2. /\ offered # Nil /\ toFreeList(offered, offered, n, p) /\ chanId' = [chanId EXCEPT ![offered] = 0] /\ offered' = Nil
      /\ UNCHANGED <<clusters, useHead, useTail, useMap, expire, counter, resets, late, givenTwice>>
  BY DEF appendChannel
<1>3. offered \in Channels /\ next \in [Channels -> Channels \cup {Nil}] /\ prev \in [Channels -> Channels \cup {Nil}]
  BY <1>0, <1>2, ChannelTyped
<1>4. /\ n \in [Channels -> Channels \cup {Nil}] /\ p \in [Channels -> Channels \cup {Nil}] /\ n[offered] = Nil
      /\ \A y \in Channels \ {offered} : n[y] = next[y] /\ p[y] = prev[y]
  BY <1>3
<1> HIDE DEF n, p
<1>5. Linked(n, p, useHead, u) /\ Linked(n, p, freeHead, f) /\ Linked(n, p, late, l)
  <2>1. \A y \in Members(u) \cup Members(f) \cup Members(l) : n[y] = next[y] /\ p[y] = prev[y]
    BY <1>1, <1>4
  <2>2. Linked(n, p, useHead, u)
    BY <1>1, <2>1, LinkedSame
  <2>3. Linked(n, p, freeHead, f)
    BY <1>1, <2>1, LinkedSame
  <2>4. Linked(n, p, late, l)
    BY <1>1, <2>1, LinkedSame
  <2> QED
    BY <2>2, <2>3, <2>4
<1>6. PICK x : Injects(x) /\ Len(x) = 1 /\ x[1] = offered /\ Members(x) = {offered} /\ LastOf(x) = offered
  BY <1>3, OneChannel
<1>7. \A i \in 1..Len(x) : i = 1 /\ i = Len(x) /\ x[i] = offered
  BY <1>6
<1>8. /\ RunsOn(n, p, x) /\ ArePointers(n, p) /\ Members(f) \cap Members(x) = {} /\ toFreeList(x[1], LastOf(x), n, p)
  BY <1>1, <1>2, <1>4, <1>6, <1>7 DEF RunsOn, ArePointers
<1>9. /\ Linked(next', prev', freeHead', f \o x) /\ freeTail' = LastOf(f \o x)
      /\ Members(f \o x) = Members(f) \cup Members(x) /\ f \o x \in Seq(Channels)
      /\ next' \in [Channels -> Channels \cup {Nil}] /\ prev' \in [Channels -> Channels \cup {Nil}]
      /\ freeHead' \in Channels \cup {Nil} /\ freeTail' \in Channels \cup {Nil}
      /\ \A y \in Channels \ (Members(f) \cup Members(x)) : next'[y] = n[y] /\ prev'[y] = p[y]
  BY <1>0, <1>1, <1>4, <1>5, <1>8, GoesFree
<1>10. Linked(next', prev', useHead, u) /\ Linked(next', prev', late, l)
  <2>1. \A y \in Members(u) \cup Members(l) : next'[y] = n[y] /\ prev'[y] = p[y]
    BY <1>1, <1>6, <1>9
  <2> QED
    BY <1>5, <2>1, LinkedSame
<1>11. ListsAre(next', prev', useHead', useTail', freeHead', freeTail', late', u, f \o x, l)
  BY <1>1, <1>2, <1>9, <1>10 DEF ListsAre
<1>12. PartsAre(offered', clusters', Members(u), Members(f \o x), Members(l))
  BY <1>1, <1>2, <1>6, <1>9 DEF PartsAre
<1>13. MapIs(useMap', chanId', givenTwice', Members(u))
  <2>1. \A y \in Members(u) : chanId'[y] = chanId[y]
    BY <1>0, <1>1, <1>2 DEF ChannelTypeOK
  <2> QED
    BY <1>1, <1>2, <2>1 DEF MapIs
<1>14. ChannelTypeOK'
  <2>1. chanId' \in [Channels -> 0..IdSpace - 1]
    BY <1>0, <1>2, <1>3, ChannelPoolAssumption DEF ChannelTypeOK
  <2>2. /\ offered' = Nil /\ {next', prev'} \subseteq [Channels -> Channels \cup {Nil}]
        /\ freeHead' \in Channels \cup {Nil} /\ freeTail' \in Channels \cup {Nil}
        /\ UNCHANGED <<clusters, useHead, useTail, useMap, expire, counter, resets, late, givenTwice>>
    BY <1>2, <1>9
  <2> QED
    BY <1>0, <2>1, <2>2 DEF ChannelTypeOK
<1>15. PoolIs(u, f \o x, l)'
  BY <1>11, <1>12, <1>13 DEF PoolIs
<1> QED
  BY <1>9, <1>14, <1>15 DEF ChannelInv

LEMMA AppendLateKeeps ==
  ASSUME ChannelInv, appendFreeList
  PROVE  ChannelInv'
<1>0. PICK u, f, l \in Seq(Channels) : ChannelTypeOK /\ PoolIs(u, f, l)
  BY DEF ChannelInv
<1> DEFINE last == CHOOSE c \in reach(next, late) : next[c] = Nil
           none == <<>>
<1>1. /\ Linked(next, prev, useHead, u) /\ useTail = LastOf(u) /\ Linked(next, prev, freeHead, f) /\ freeTail = LastOf(f)
      /\ Linked(next, prev, late, l) /\ reach(next, late) = Members(l)
      /\ Members(u) \subseteq Channels /\ Members(l) \subseteq Channels /\ Members(f) \subseteq Channels
      /\ Nil \notin Members(u) /\ Nil \notin Members(f) /\ Nil \notin Members(l)
      /\ Members(u) \cap Members(f) = {} /\ Members(u) \cap Members(l) = {} /\ Members(f) \cap Members(l) = {}
      /\ offered \notin Members(u) \cup Members(f) \cup Members(l)
      /\ Members(u) \cup Members(f) \cup Members(l) \cup ({offered} \ {Nil}) = 1..clusters * ClusterSize
      /\ MapIs(useMap, chanId, givenTwice, Members(u))
  BY <1>0, PoolHas
<1>2. /\ late # Nil /\ late' = Nil /\ toFreeList(late, last, next, prev)
      /\ chanId' = [c \in Channels |-> IF c \in reach(next, late) THEN 0 ELSE chanId[c]]
      /\ UNCHANGED <<clusters, useHead, useTail, useMap, expire, counter, resets, offered, givenTwice>>
  BY DEF appendFreeList
<1>3. next \in [Channels -> Channels \cup {Nil}] /\ prev \in [Channels -> Channels \cup {Nil}]
  BY <1>0, ChannelTyped
<1>4. /\ Len(l) \in Nat /\ Len(l) # 0 /\ 1 \in 1..Len(l) /\ Len(l) \in 1..Len(l) /\ late = l[1] /\ LastOf(l) = l[Len(l)]
      /\ \A i \in 1..Len(l) : l[i] \in Members(l) /\ l[i] # Nil
  <2>1. Len(l) \in Nat /\ Len(l) # 0 /\ \A i \in 1..Len(l) : l[i] \in Members(l) /\ l[i] # Nil
    BY <1>1, <1>2, LinkedHas
  <2> QED
    BY <1>1, <2>1 DEF Linked, LastOf
<1>5. /\ \A i \in 1..Len(l) : next[l[i]] = (IF i = Len(l) THEN Nil ELSE l[i + 1])
      /\ \A i \in 1..Len(l) : prev[l[i]] = (IF i = 1 THEN Nil ELSE l[i - 1])
      /\ Injects(l)
  BY <1>1 DEF Linked
<1>6. last = LastOf(l)
  <2>1. \A i \in 1..Len(l) : next[l[i]] = Nil => i = Len(l)
    <3> SUFFICES ASSUME NEW i \in 1..Len(l), i # Len(l) PROVE next[l[i]] # Nil
      OBVIOUS
    <3>1. i + 1 \in 1..Len(l)
      BY <1>4
    <3> QED
      BY <1>4, <1>5, <3>1
  <2>2. \A c \in Members(l) : next[c] = Nil => c = LastOf(l)
    BY <1>4, <2>1 DEF Members
  <2>3. LastOf(l) \in Members(l) /\ next[LastOf(l)] = Nil
    BY <1>4, <1>5
  <2> QED
    BY <1>1, <2>2, <2>3
<1> HIDE DEF last
<1>7. /\ Injects(l) /\ Len(l) # 0 /\ Members(f) \cap Members(l) = {} /\ toFreeList(l[1], LastOf(l), next, prev)
      /\ \A i \in 1..Len(l) : i # 1 => prev[l[i]] = l[i - 1]
  BY <1>1, <1>2, <1>4, <1>5, <1>6
<1>8. /\ Linked(next', prev', freeHead', f \o l) /\ freeTail' = LastOf(f \o l)
      /\ Members(f \o l) = Members(f) \cup Members(l) /\ f \o l \in Seq(Channels)
      /\ next' \in [Channels -> Channels \cup {Nil}] /\ prev' \in [Channels -> Channels \cup {Nil}]
      /\ freeHead' \in Channels \cup {Nil} /\ freeTail' \in Channels \cup {Nil}
      /\ \A y \in Channels \ (Members(f) \cup Members(l)) : next'[y] = next[y] /\ prev'[y] = prev[y]
  <2> DEFINE n == next
             p == prev
  <2>1. /\ ArePointers(n, p) /\ Linked(n, p, freeHead, f)
        /\ toFreeList(l[1], LastOf(l), n, p) /\ RunsOn(n, p, l)
    BY <1>1, <1>3, <1>5, <1>7 DEF RunsOn, ArePointers
  <2> HIDE DEF n, p
  <2>2. /\ Linked(next', prev', freeHead', f \o l) /\ freeTail' = LastOf(f \o l)
        /\ Members(f \o l) = Members(f) \cup Members(l) /\ f \o l \in Seq(Channels)
        /\ next' \in [Channels -> Channels \cup {Nil}] /\ prev' \in [Channels -> Channels \cup {Nil}]
        /\ freeHead' \in Channels \cup {Nil} /\ freeTail' \in Channels \cup {Nil}
        /\ \A y \in Channels \ (Members(f) \cup Members(l)) : next'[y] = n[y] /\ prev'[y] = p[y]
    BY <1>0, <1>1, <1>7, <2>1, GoesFree
  <2> QED
    BY <2>2 DEF n, p
<1>9. Linked(next', prev', useHead, u)
  <2>1. \A y \in Members(u) : next'[y] = next[y] /\ prev'[y] = prev[y]
    BY <1>1, <1>8
  <2> QED
    BY <1>1, <2>1, LinkedSame
<1>10. none \in Seq(Channels) /\ Len(none) = 0 /\ Members(none) = {}
  BY DEF Members
<1> HIDE DEF none
<1>11. Linked(next', prev', late', none)
  BY <1>2, <1>10 DEF Linked, Injects
<1>12. ListsAre(next', prev', useHead', useTail', freeHead', freeTail', late', u, f \o l, none)
  BY <1>1, <1>2, <1>8, <1>9, <1>11 DEF ListsAre
<1>13. PartsAre(offered', clusters', Members(u), Members(f \o l), Members(none))
  BY <1>1, <1>2, <1>8, <1>10 DEF PartsAre
<1>14. MapIs(useMap', chanId', givenTwice', Members(u))
  <2>1. \A y \in Members(u) : chanId'[y] = chanId[y]
    BY <1>1, <1>2
  <2> QED
    BY <1>1, <1>2, <2>1 DEF MapIs
<1>15. ChannelTypeOK'
  <2>1. chanId' \in [Channels -> 0..IdSpace - 1]
    <3>1. chanId \in [Channels -> 0..IdSpace - 1] /\ 0 \in 0..IdSpace - 1
      BY <1>0, ChannelPoolAssumption DEF ChannelTypeOK
    <3>2. chanId' = [c \in Channels |-> IF c \in reach(next, late) THEN 0 ELSE chanId[c]]
      BY <1>2
    <3> DEFINE S == 0..IdSpace - 1
               L == reach(next, late)
    <3> HIDE DEF S, L
    <3>3. chanId' \in [Channels -> S]
      BY <3>1, <3>2 DEF S, L
    <3> QED
      BY <3>3 DEF S
  <2> QED
    BY <1>0, <1>2, <1>8, <2>1 DEF ChannelTypeOK
<1>16. PoolIs(u, f \o l, none)'
  BY <1>12, <1>13, <1>14 DEF PoolIs
<1> QED
  BY <1>8, <1>10, <1>15, <1>16 DEF ChannelInv

\* The late channels are the front of the use list, up to a place.
LEMMA LateFront ==
  ASSUME NEW u, Linked(next, prev, useHead, u), NEW now, firstInTime(now) # useHead
  PROVE  \E k \in 1..Len(u) : /\ firstInTime(now) = (IF k = Len(u) THEN Nil ELSE u[k + 1])
                              /\ reach(next, firstInTime(now)) = {u[i] : i \in k + 1..Len(u)}
<1> DEFINE a == Len(u)
           inTime == {c \in reach(next, useHead) : expire[c] >= now}
           e == firstInTime(now)
<1>1. /\ a \in Nat /\ \A i \in 1..a : u[i] \in Channels /\ u[i] # Nil /\ u[i] \in Members(u)
      /\ useHead = Nil <=> a = 0
  BY LinkedHas
<1>2. (a # 0 => useHead = u[1]) /\ reach(next, useHead) = Members(u) /\ Members(u) = {u[i] : i \in 1..a}
  <2>1. reach(next, useHead) = Members(u)
    BY ReachedAll
  <2> QED
    BY <2>1 DEF Linked, Members
<1>3. \A j \in 1..a : reach(next, u[j]) = {u[i] : i \in j..a}
  <2> SUFFICES ASSUME NEW j \in 1..Len(u) PROVE reach(next, u[j]) = {u[i] : i \in j..Len(u)}
    OBVIOUS
  <2> DEFINE n == next
             p == prev
             h == useHead
  <2>1. Linked(n, p, h, u)
    OBVIOUS
  <2> HIDE DEF n, p, h
  <2>2. reach(n, u[j]) = {u[i] : i \in j..Len(u)}
    BY ONLY <2>1, ReachedFrom
  <2> QED
    BY <2>2 DEF n
<1>4. e = IF inTime = {} THEN Nil ELSE CHOOSE c \in inTime : inTime \subseteq reach(next, c)
  BY DEF firstInTime
<1>5. e # useHead
  OBVIOUS
<1> HIDE DEF e
<1>6. CASE inTime = {}
  <2>1. e = Nil /\ a # 0
    BY <1>1, <1>4, <1>5, <1>6
  <2>2. reach(next, Nil) = {}
    <3>1. {} \in SUBSET Channels /\ closedUnder(next, {}) /\ Nil \in {} \cup {Nil}
      BY DEF closedUnder
    <3> QED
      BY <3>1 DEF reach
  <2> HIDE DEF a, inTime
  <2>3. a \in 1..a /\ a + 1..a = {}
    BY <1>1, <2>1
  <2>4. {u[i] : i \in a + 1..a} = {}
    BY <2>3
  <2> QED
    BY <2>1, <2>2, <2>3, <2>4 DEF a, e
<1>7. CASE inTime # {}
  <2> DEFINE J == {i \in Nat : i \in 1..a /\ expire[u[i]] >= now}
  <2>1. \A c \in inTime : \E i \in J : c = u[i]
    <3> SUFFICES ASSUME NEW c \in inTime PROVE \E i \in J : c = u[i]
      OBVIOUS
    <3>1. PICK i \in 1..a : c = u[i]
      BY <1>2
    <3>2. i \in Nat
      BY <1>1, <3>1
    <3> QED
      BY <3>1, <3>2
  <2>2. PICK x \in J : \A y \in J : x <= y
    <3>1. J # {} /\ J \in SUBSET Nat
      BY <1>7, <2>1
    <3> HIDE DEF J
    <3> QED
      BY <3>1, LeastNumber
  <2>3. u[x] \in inTime
    BY <1>1, <1>2, <2>2
  <2>4. inTime \subseteq reach(next, u[x])
    <3>1. \A i \in J : i \in x..a
      BY <1>1, <2>2
    <3>2. reach(next, u[x]) = {u[i] : i \in x..a}
      BY <1>3, <2>2
    <3> HIDE DEF J, inTime
    <3> QED
      BY <2>1, <3>1, <3>2
  <2>5. e \in inTime
    <3> HIDE DEF inTime
    <3> QED
      BY <1>4, <1>7, <2>3, <2>4
  <2>6. PICK j \in 1..a : e = u[j]
    BY <1>2, <2>5
  <2>7. j # 1 /\ j - 1 \in 1..a /\ (j - 1) + 1 = j /\ j - 1 # a
    <3>1. a # 0
      BY <1>1, <2>6
    <3>2. j # 1
      BY <1>2, <1>5, <2>6, <3>1
    <3> HIDE DEF a
    <3> QED
      BY <1>1, <2>6, <3>2
  <2>8. reach(next, e) = {u[i] : i \in j..a}
    BY <1>3, <2>6
  <2> DEFINE k == j - 1
  <2>9. k \in 1..a /\ k # a /\ k + 1 = j
    BY <2>7
  <2> HIDE DEF k
  <2>10. e = (IF k = a THEN Nil ELSE u[k + 1]) /\ reach(next, e) = {u[i] : i \in k + 1..a}
    BY <2>6, <2>8, <2>9
  <2> QED
    BY <2>9, <2>10 DEF e
<1> QED
  BY <1>6, <1>7

LEMMA TimeoutKeeps ==
  ASSUME ChannelInv, NEW now, getTimeoutList(now)
  PROVE  ChannelInv'
<1>0. PICK u, f, l \in Seq(Channels) : ChannelTypeOK /\ PoolIs(u, f, l)
  BY DEF ChannelInv
<1> DEFINE e == firstInTime(now)
           a == Len(u)
<1>1. /\ Linked(next, prev, useHead, u) /\ useTail = LastOf(u) /\ Linked(next, prev, freeHead, f) /\ freeTail = LastOf(f)
      /\ Linked(next, prev, late, l) /\ reach(next, useHead) = Members(u)
      /\ Members(u) \subseteq Channels /\ Members(l) \subseteq Channels /\ Members(f) \subseteq Channels
      /\ Nil \notin Members(u) /\ Nil \notin Members(f) /\ Nil \notin Members(l)
      /\ Members(u) \cap Members(f) = {}
      /\ offered \notin Members(u) \cup Members(f) \cup Members(l)
      /\ Members(u) \cup Members(f) \cup Members(l) \cup ({offered} \ {Nil}) = 1..clusters * ClusterSize
      /\ MapIs(useMap, chanId, givenTwice, Members(u))
  BY <1>0, PoolHas
<1>2. /\ late = Nil /\ e # useHead /\ late' = useHead /\ useHead' = e /\ useTail' = (IF e = Nil THEN Nil ELSE useTail)
      /\ next' = (IF e = Nil THEN next ELSE link(next, prev[e], Nil)) /\ prev' = link(prev, e, Nil)
      /\ useMap' = mapWithout({chanId[x] : x \in reach(next, useHead) \ reach(next, e)})
      /\ UNCHANGED <<clusters, freeHead, freeTail, chanId, expire, counter, resets, offered, givenTwice>>
  BY DEF getTimeoutList, cutBefore
<1>3. PICK k \in 1..a : e = (IF k = a THEN Nil ELSE u[k + 1]) /\ reach(next, e) = {u[i] : i \in k + 1..a}
  BY <1>1, <1>2, LateFront
<1> HIDE DEF e
<1>4. /\ a \in Nat /\ \A i \in 1..a : u[i] \in Channels /\ u[i] # Nil /\ u[i] \in Members(u)
      /\ \A i, j \in 1..a : u[i] = u[j] => i = j
  BY <1>1, LinkedHas
<1>5. /\ \A i \in 1..a : next[u[i]] = (IF i = a THEN Nil ELSE u[i + 1])
      /\ \A i \in 1..a : prev[u[i]] = (IF i = 1 THEN Nil ELSE u[i - 1])
  BY <1>1 DEF Linked
<1>6. Members(l) = {}
  <2>1. Len(l) = 0
    BY <1>1, <1>2, LinkedHas
  <2> QED
    BY <2>1 DEF Members
<1>7. next \in [Channels -> Channels \cup {Nil}] /\ prev \in [Channels -> Channels \cup {Nil}]
  BY <1>0, ChannelTyped
<1> HIDE DEF a
<1>8. k # a => k + 1 \in 1..a /\ k + 1 # 1 /\ (k + 1) - 1 = k
  BY <1>3, <1>4
<1>9. /\ e = Nil <=> k = a
      /\ e # Nil => e \in Channels /\ e \in Members(u) /\ e = u[k + 1] /\ prev[e] = u[k]
  <2>1. k # a => u[k + 1] # Nil /\ u[k + 1] \in Channels /\ u[k + 1] \in Members(u) /\ prev[u[k + 1]] = u[k]
    BY <1>4, <1>5, <1>8
  <2> QED
    BY <1>3, <2>1
<1>10. /\ next' \in [Channels -> Channels \cup {Nil}]
       /\ \A x \in Channels : next'[x] = (IF x = u[k] THEN Nil ELSE next[x])
  <2>1. u[k] \in Channels /\ u[k] # Nil
    BY <1>3, <1>4
  <2>2. CASE e = Nil
    <3>1. next' = next /\ next[u[k]] = Nil
      BY <1>2, <1>3, <1>5, <1>9, <2>2
    <3> QED
      BY <1>7, <3>1
  <2>3. CASE e # Nil
    <3>1. next' = [next EXCEPT ![u[k]] = Nil]
      BY <1>2, <1>9, <2>1, <2>3 DEF link
    <3> QED
      BY <1>7, <3>1
  <2> QED
    BY <2>2, <2>3
<1>11. /\ prev' \in [Channels -> Channels \cup {Nil}]
       /\ \A x \in Channels : prev'[x] = (IF k # a /\ x = u[k + 1] THEN Nil ELSE prev[x])
  <2>1. CASE e = Nil
    <3>1. prev' = prev /\ k = a
      BY <1>2, <1>9, <2>1 DEF link
    <3> QED
      BY <1>7, <3>1
  <2>2. CASE e # Nil
    <3>1. prev' = [prev EXCEPT ![e] = Nil] /\ k # a /\ e = u[k + 1] /\ e \in Channels
      BY <1>2, <1>9, <2>2 DEF link
    <3>2. /\ prev' \in [Channels -> Channels \cup {Nil}]
          /\ \A x \in Channels : prev'[x] = (IF x = e THEN Nil ELSE prev[x])
      BY <1>7, <3>1
    <3> QED
      BY <3>1, <3>2
  <2> QED
    BY <2>1, <2>2
<1>12. PICK v, w : /\ Linked(next', prev', useHead, v)
                   /\ Linked(next', prev', IF k = a THEN Nil ELSE u[k + 1], w)
                   /\ LastOf(w) = (IF k = a THEN Nil ELSE LastOf(u))
                   /\ Members(w) = {u[i] : i \in k + 1..a}
                   /\ Members(u) = Members(v) \cup Members(w) /\ Members(v) \cap Members(w) = {}
  <2> DEFINE m == next'
             r == prev'
  <2>1. CutBehind(m, r, next, prev, u, k) /\ k \in 1..Len(u)
    BY <1>1, <1>3, <1>10, <1>11 DEF a, CutBehind
  <2> HIDE DEF m, r
  <2> DEFINE v == SubSeq(u, 1, k)
             w == SubSeq(u, k + 1, Len(u))
  <2>2. /\ Linked(m, r, useHead, v)
        /\ Linked(m, r, IF k = Len(u) THEN Nil ELSE u[k + 1], w)
        /\ LastOf(w) = (IF k = Len(u) THEN Nil ELSE LastOf(u))
        /\ Members(w) = {u[i] : i \in k + 1..Len(u)}
        /\ Members(u) = Members(v) \cup Members(w) /\ Members(v) \cap Members(w) = {}
    BY <1>1, <2>1, LinkedCut
  <2> HIDE DEF v, w
  <2> QED
    BY <2>2 DEF m, r, a
<1>13. v \in Seq(Channels) /\ w \in Seq(Channels) /\ Members(v) \subseteq Channels
  <2>1. v \in Seq(Channels) /\ Members(v) \subseteq Channels
    BY <1>12, LinkedHas
  <2>2. w \in Seq(Channels)
    BY <1>12, LinkedHas
  <2> QED
    BY <2>1, <2>2
<1>14. Linked(next', prev', freeHead, f)
  <2>1. u[k] \in Members(u) /\ (k # a => u[k + 1] \in Members(u))
    BY <1>3, <1>4, <1>8
  <2>2. \A x \in Members(f) : next'[x] = next[x] /\ prev'[x] = prev[x]
    BY <1>1, <1>10, <1>11, <2>1
  <2> QED
    BY <1>1, <2>2, LinkedSame
<1>15. ListsAre(next', prev', useHead', useTail', freeHead', freeTail', late', w, f, v)
  <2>1. useTail' = LastOf(w) /\ useHead' = (IF k = a THEN Nil ELSE u[k + 1])
    BY <1>1, <1>2, <1>3, <1>9, <1>12
  <2> QED
    BY <1>1, <1>2, <1>12, <1>14, <2>1 DEF ListsAre
<1>16. PartsAre(offered', clusters', Members(w), Members(f), Members(v))
  <2>1. offered' = offered /\ clusters' = clusters
    BY <1>2
  <2>2. Members(w) \subseteq Members(u) /\ Members(v) \subseteq Members(u) /\ Members(u) = Members(v) \cup Members(w)
        /\ Members(v) \cap Members(w) = {}
    BY <1>12
  <2> QED
    BY <1>1, <1>6, <2>1, <2>2 DEF PartsAre
<1>17. MapIs(useMap', chanId', givenTwice', Members(w))
  <2>1. reach(next, useHead) \ reach(next, e) = Members(v) /\ Members(u) \ Members(v) = Members(w)
    BY <1>1, <1>3, <1>12
  <2> DEFINE um == useMap'
             S == Members(v)
             M == Members(u)
  <2>2. S \subseteq M /\ um = mapWithout({chanId[y] : y \in S}) /\ \A y \in M \ S : chanId[y] = chanId[y]
    BY <1>2, <1>12, <2>1
  <2>3. MapIs(useMap, chanId, givenTwice, M)
    BY <1>1
  <2> HIDE DEF um, S, M
  <2>4. MapIs(um, chanId, givenTwice, M \ S)
    BY <2>2, <2>3, MapLeaves
  <2>5. chanId' = chanId /\ givenTwice' = givenTwice
    BY <1>2
  <2> QED
    BY <2>1, <2>4, <2>5 DEF um, S, M
<1>18. ChannelTypeOK'
  <2>1. DOMAIN useMap' \subseteq 1..IdSpace - 1 /\ \A j \in DOMAIN useMap' : useMap'[j] \in Channels
    BY <1>0, <1>2, MapStays
  <2>2. useHead' \in Channels \cup {Nil} /\ late' = useHead /\ (useTail' = Nil \/ useTail' = useTail)
    BY <1>2, <1>9
  <2>3. UNCHANGED <<clusters, freeHead, freeTail, chanId, expire, counter, resets, offered, givenTwice>>
    BY <1>2
  <2>4. {next', prev'} \subseteq [Channels -> Channels \cup {Nil}]
    BY <1>10, <1>11
  <2> QED
    BY <1>0, <2>1, <2>2, <2>3, <2>4 DEF ChannelTypeOK
<1>19. PoolIs(w, f, v)'
  BY <1>15, <1>16, <1>17 DEF PoolIs
<1> QED
  BY <1>13, <1>18, <1>19 DEF ChannelInv

\* The steps of the counter and of the time.
LEMMA NumbersKeep ==
  ASSUME ChannelInv,
         \/ otherAlloc \/ otherResets \/ UNCHANGED channelVars
         \/ \E c \in reach(next, useHead) : setExpireTime(c, 0)
  PROVE  ChannelInv'
<1>0. PICK u, f, l \in Seq(Channels) : ChannelTypeOK /\ PoolIs(u, f, l)
  BY DEF ChannelInv
<1>1. UNCHANGED <<clusters, pointers, useMap, chanId, offered, late, givenTwice>>
  BY DEF otherAlloc, otherResets, setExpireTime, channelVars
<1>2. counter' \in 0..IdSpace - 1 /\ resets' \in 0..1 /\ expire' \in [Channels -> 0..Never]
  <2>1. counter \in Nat /\ counter \in 0..IdSpace - 1 /\ IdSpace \in Nat /\ IdSpace > 1 /\ resets \in 0..1 /\ expire \in [Channels -> 0..Never]
    BY <1>0, ChannelPoolAssumption DEF ChannelTypeOK
  <2>2. CASE otherAlloc
    <3>1. counter' = (counter + 1) % IdSpace /\ resets' \in {1, resets} /\ expire' = expire
      BY <2>2 DEF otherAlloc
    <3> QED
      BY <2>1, <3>1
  <2>3. CASE otherResets
    BY <2>1, <2>3 DEF otherResets
  <2>4. CASE UNCHANGED channelVars
    BY <2>1, <2>4 DEF channelVars
  <2>5. CASE \E c \in reach(next, useHead) : setExpireTime(c, 0)
    <3>1. 0 \in 0..Never
      BY DEF Never
    <3> QED
      BY <2>1, <2>5, <3>1 DEF setExpireTime
  <2> QED
    BY <2>2, <2>3, <2>4, <2>5
<1>3. ChannelTypeOK'
  BY <1>0, <1>1, <1>2 DEF ChannelTypeOK, pointers
<1>4. PoolIs(u, f, l)'
  BY <1>0, <1>1 DEF PoolIs, pointers
<1> QED
  BY <1>3, <1>4 DEF ChannelInv

LEMMA ChannelStep == ChannelInv /\ [ChannelNext]_channelVars => ChannelInv'
<1> SUFFICES ASSUME ChannelInv, [ChannelNext]_channelVars PROVE ChannelInv'
  OBVIOUS
<1>1. CASE alloc
  BY <1>1, AllocNewKeeps, AllocFreeKeeps DEF alloc
<1>2. CASE otherAlloc \/ otherResets \/ UNCHANGED channelVars
  BY <1>2, NumbersKeep
<1>3. CASE appendChannel
  BY <1>3, AppendKeeps
<1>4. CASE appendFreeList
  BY <1>4, AppendLateKeeps
<1>5. ASSUME NEW c \in reach(next, useHead), freeChannel(c) PROVE ChannelInv'
  BY <1>5, FreeKeeps
<1>6. CASE \E c \in reach(next, useHead) : setExpireTime(c, 0)
  BY <1>6, NumbersKeep
<1>7. ASSUME NEW i \in DOMAIN useMap, offerChannel(i) PROVE ChannelInv'
  BY <1>7, OfferKeeps
<1>8. CASE getTimeoutList(Never - 1)
  BY <1>8, TimeoutKeeps
<1> QED
  BY <1>1, <1>2, <1>3, <1>4, <1>5, <1>6, <1>7, <1>8 DEF ChannelNext

\* A list that is linked can be walked from either end.
LEMMA LinkedIsChain ==
  ASSUME NEW h, NEW s, Linked(next, prev, h, s)
  PROVE  isChain(h, LastOf(s))
<1>1. /\ Len(s) \in Nat /\ \A i \in 1..Len(s) : s[i] \in Channels /\ s[i] # Nil /\ s[i] \in Members(s)
      /\ h = Nil <=> Len(s) = 0
      /\ LastOf(s) = Nil <=> Len(s) = 0
      /\ LastOf(s) # Nil => LastOf(s) \in Members(s)
  BY LinkedHas
<1>2. reach(next, h) = Members(s) /\ Members(s) = {s[i] : i \in 1..Len(s)}
  BY ReachedAll DEF Members
<1>3. /\ \A i \in 1..Len(s) : next[s[i]] = (IF i = Len(s) THEN Nil ELSE s[i + 1])
      /\ \A i \in 1..Len(s) : prev[s[i]] = (IF i = 1 THEN Nil ELSE s[i - 1])
  BY DEF Linked
<1>4. LastOf(s) # Nil => next[LastOf(s)] = Nil
  <2> SUFFICES ASSUME LastOf(s) # Nil PROVE next[LastOf(s)] = Nil
    OBVIOUS
  <2>1. Len(s) \in 1..Len(s) /\ LastOf(s) = s[Len(s)]
    BY <1>1 DEF LastOf
  <2> QED
    BY <1>3, <2>1
<1>5. \A i \in 1..Len(s) : next[s[i]] # Nil => prev[next[s[i]]] = s[i]
  <2> SUFFICES ASSUME NEW i \in 1..Len(s), i # Len(s) PROVE prev[s[i + 1]] = s[i]
    BY <1>3
  <2>1. i + 1 \in 1..Len(s) /\ i + 1 # 1 /\ (i + 1) - 1 = i
    BY <1>1
  <2> QED
    BY <1>3, <2>1
<1> QED
  BY <1>1, <1>2, <1>4, <1>5 DEF isChain

LEMMA ChannelEnds == ChannelInv => InOnePlace /\ MapIsUseList
<1> SUFFICES ASSUME ChannelInv PROVE InOnePlace /\ MapIsUseList
  OBVIOUS
<1>0. PICK u, f, l \in Seq(Channels) : ChannelTypeOK /\ PoolIs(u, f, l)
  BY DEF ChannelInv
<1>1. /\ Linked(next, prev, useHead, u) /\ useTail = LastOf(u) /\ Linked(next, prev, freeHead, f) /\ freeTail = LastOf(f)
      /\ reach(next, useHead) = Members(u) /\ reach(next, freeHead) = Members(f) /\ reach(next, late) = Members(l)
      /\ Members(u) \cap Members(f) = {} /\ Members(u) \cap Members(l) = {} /\ Members(f) \cap Members(l) = {}
      /\ offered \notin Members(u) \cup Members(f) \cup Members(l)
      /\ Members(u) \cup Members(f) \cup Members(l) \cup ({offered} \ {Nil}) = 1..clusters * ClusterSize
      /\ MapIs(useMap, chanId, givenTwice, Members(u))
  BY <1>0, PoolHas
<1>2. isChain(useHead, useTail) /\ isChain(freeHead, freeTail)
  BY <1>1, LinkedIsChain
<1> DEFINE places == <<reach(next, useHead), reach(next, freeHead), {offered} \ {Nil}, reach(next, late)>>
<1>3. \A c \in 1..clusters * ClusterSize : Cardinality({k \in 1..4 : c \in places[k]}) = 1
  <2> SUFFICES ASSUME NEW c \in 1..clusters * ClusterSize PROVE Cardinality({k \in 1..4 : c \in places[k]}) = 1
    OBVIOUS
  <2>1. /\ places[1] = Members(u) /\ places[2] = Members(f) /\ places[3] = {offered} \ {Nil} /\ places[4] = Members(l)
    BY <1>1
  <2> HIDE DEF places
  <2>2. \A k \in 1..4 : k = 1 \/ k = 2 \/ k = 3 \/ k = 4
    OBVIOUS
  <2>3. c \in places[1] \/ c \in places[2] \/ c \in places[3] \/ c \in places[4]
    BY <1>1, <2>1
  <2>4. PICK k \in 1..4 : c \in places[k]
    BY <2>3
  <2>5. \A j \in 1..4 : c \in places[j] => j = k
    <3>1. /\ ~(c \in places[1] /\ c \in places[2]) /\ ~(c \in places[1] /\ c \in places[3]) /\ ~(c \in places[1] /\ c \in places[4])
          /\ ~(c \in places[2] /\ c \in places[3]) /\ ~(c \in places[2] /\ c \in places[4]) /\ ~(c \in places[3] /\ c \in places[4])
      BY <1>1, <2>1
    <3> QED
      BY <2>2, <2>4, <3>1
  <2>6. {j \in 1..4 : c \in places[j]} = {k}
    BY <2>4, <2>5
  <2> QED
    BY <2>6, FS_Singleton
<1>4. InOnePlace
  BY <1>2, <1>3 DEF InOnePlace
<1>5. MapIsUseList
  <2> SUFFICES ASSUME ~givenTwice
               PROVE  /\ {useMap[i] : i \in DOMAIN useMap} = Members(u)
                      /\ \A i \in DOMAIN useMap : chanId[useMap[i]] = i
    BY <1>1 DEF MapIsUseList
  <2>1. \A i \in DOMAIN useMap : useMap[i] \in Members(u) /\ chanId[useMap[i]] = i
    BY <1>1 DEF MapIs
  <2>2. \A c \in Members(u) : chanId[c] \in DOMAIN useMap /\ useMap[chanId[c]] = c
    BY <1>1 DEF MapIs
  <2> QED
    BY <2>1, <2>2
<1> QED
  BY <1>4, <1>5

\* The lists of a pool and of a queue are always whole: a channel of a cluster is in use,
\* free, at hand for a reply or in the list of late channels, and only once; the use and
\* the free list can be walked from either end, whatever was taken out of the middle or
\* cut off at the front; the map finds the channels in use and no other, each by its id,
\* until an id that is in use is given a second time; and head, tail and count of a
\* PacketQueue agree. So it is for any size and number of clusters and any id space
\* (src/tbnet/src/channelpool.cpp:71-301, src/tbnet/src/packetqueue.cpp:34-153).
THEOREM ListsAreSafe == Spec => []ListsSafe
<1>1. Init => ChannelInv /\ QueueInv
  BY ChannelStarts, QueueStarts DEF Init
<1>2. [Next]_vars => [ChannelNext]_channelVars /\ [QueueNext]_queueVars
  BY DEF Next, only, vars
<1>3. ChannelInv /\ QueueInv /\ [Next]_vars => (ChannelInv /\ QueueInv)'
  BY <1>2, ChannelStep, QueueStep
<1>4. ChannelInv /\ QueueInv => ListsSafe
  BY ChannelEnds, QueueEnds DEF ListsSafe
<1> QED
  BY <1>1, <1>3, <1>4, PTL DEF Spec

-----------------------------------------------------------------------------
(* Recursion over an interval: the set of the numbers that have been reached *)

LEMMA AllReached ==
  ASSUME NEW n \in Nat, NEW A, 0 \in A, \A k \in 1..n : k - 1 \in A => k \in A
  PROVE  0..n \subseteq A
<1> DEFINE T == {k \in 0..n : k \notin A}
<1>1. SUFFICES ASSUME T # {} PROVE FALSE
  OBVIOUS
<1>2. PICK x \in T : \A y \in T : x <= y
  <2>1. T \in SUBSET Nat
    OBVIOUS
  <2> HIDE DEF T
  <2> QED
    BY <1>1, <2>1, LeastNumber
<1>3. x \in Nat /\ x # 0 /\ x \notin A /\ x \in 0..n
  OBVIOUS
<1>4. x - 1 \in Nat /\ ~(x <= x - 1) /\ x \in 1..n /\ x - 1 \in 0..n
  BY <1>3
<1>5. x - 1 \notin T
  BY <1>2, <1>4
<1> QED
  BY <1>3, <1>4, <1>5

\* A function that is applied again and again.
IsIterated(f, n, base, G) == f = [k \in 0..n |-> IF k = 0 THEN base ELSE G[f[k - 1]]]

LEMMA IteratedExists ==
  ASSUME NEW n \in Nat, NEW S, NEW base \in S, NEW G \in [S -> S]
  PROVE  \E f \in [0..n -> S] : IsIterated(f, n, base, G)
<1> DEFINE A == {k \in Nat : \E f \in [0..k -> S] : IsIterated(f, k, base, G)}
<1>1. 0 \in A
  <2> DEFINE f == [k \in 0..0 |-> base]
  <2>1. f \in [0..0 -> S] /\ f = [k \in 0..0 |-> IF k = 0 THEN base ELSE G[f[k - 1]]]
    OBVIOUS
  <2> QED
    BY <2>1 DEF IsIterated
<1>2. ASSUME NEW k \in 1..n, k - 1 \in A PROVE k \in A
  <2>1. PICK f \in [0..k - 1 -> S] : IsIterated(f, k - 1, base, G)
    BY <1>2
  <2> DEFINE g == [j \in 0..k |-> IF j = k THEN G[f[k - 1]] ELSE f[j]]
  <2>2. f[k - 1] \in S /\ G[f[k - 1]] \in S
    OBVIOUS
  <2>3. g \in [0..k -> S]
    BY <2>2
  <2>4. ASSUME NEW j \in 0..k PROVE g[j] = IF j = 0 THEN base ELSE G[g[j - 1]]
    <3>1. CASE j = k
      <4>1. j # 0 /\ j - 1 = k - 1 /\ g[j - 1] = f[k - 1] /\ g[j] = G[f[k - 1]]
        BY <3>1
      <4> QED
        BY <4>1
    <3>2. CASE j # k
      <4>1. j \in 0..k - 1 /\ g[j] = f[j]
        BY <3>2
      <4>2. f[j] = IF j = 0 THEN base ELSE G[f[j - 1]]
        BY <2>1, <4>1 DEF IsIterated
      <4>3. j # 0 => g[j - 1] = f[j - 1]
        BY <3>2, <4>1
      <4> QED
        BY <4>1, <4>2, <4>3
    <3> QED
      BY <3>1, <3>2
  <2>5. IsIterated(g, k, base, G)
    BY <2>4 DEF IsIterated
  <2> QED
    BY <2>3, <2>5
<1>3. n \in A
  <2> HIDE DEF A
  <2>1. 0..n \subseteq A
    BY <1>1, <1>2, AllReached
  <2> QED
    BY <2>1
<1> QED
  BY <1>3

-----------------------------------------------------------------------------
(* DataBuffer *)

Buffers == [size : Nat, start : Nat, data : Seq(Units)]
Fits(b) == b \in Buffers /\ B!isBuffer(b)

LEMMA SequencesAssociate ==
  ASSUME NEW U, NEW r \in Seq(U), NEW s \in Seq(U), NEW u \in Seq(U)
  PROVE  (r \o s) \o u = r \o (s \o u)
BY ConcatAssociative

HasAt(s, k) == k \in 1..Len(s)

LEMMA OneMore ==
  ASSUME NEW U, NEW r \in Seq(U), NEW s \in Seq(U), NEW k, HasAt(s, k)
  PROVE  (r \o SubSeq(s, 1, k - 1)) \o <<s[k]>> = r \o SubSeq(s, 1, k)
<1> DEFINE t == SubSeq(s, 1, k - 1)
           e == <<s[k]>>
<1>1. t \in Seq(U) /\ e \in Seq(U)
  BY DEF HasAt
<1>2. SubSeq(s, 1, k) = t \o e
  <2>1. 1 \in 1..Len(s) /\ k \in 1..Len(s)
    BY DEF HasAt
  <2> QED
    BY <2>1, SubSeqRecursiveSecond
<1> HIDE DEF t, e
<1>3. (r \o t) \o e = r \o (t \o e)
  BY <1>1, SequencesAssociate
<1> QED
  BY <1>2, <1>3 DEF t, e

LEMMA DataReplaced ==
  ASSUME NEW b \in Buffers, NEW s
  PROVE  [b EXCEPT !.data = s] = [size |-> b.size, start |-> b.start, data |-> s]
<1>1. PICK x, y, z : b = [size |-> x, start |-> y, data |-> z]
  BY DEF Buffers
<1> QED
  BY <1>1

\* Doubling leaves the room that is asked for.
LEMMA DoubledHolds ==
  ASSUME NEW from \in Nat \ {0}, NEW used \in Nat, NEW need \in Nat
  PROVE  B!doubled(from, used, need) \in Nat /\ B!doubled(from, used, need) >= used + need
<1> DEFINE n == used + need
           G == [x \in Nat |-> IF x - used >= need THEN x ELSE 2 * x]
           size == CHOOSE f : f = [k \in 0..n |-> IF k = 0 THEN from ELSE IF f[k - 1] - used >= need THEN f[k - 1] ELSE 2 * f[k - 1]]
<1>1. n \in Nat /\ G \in [Nat -> Nat] /\ from \in Nat
  OBVIOUS
<1>2. PICK f \in [0..n -> Nat] : IsIterated(f, n, from, G)
  <2> HIDE DEF n, G
  <2> QED
    BY <1>1, IteratedExists
<1>3. f = [k \in 0..n |-> IF k = 0 THEN from ELSE IF f[k - 1] - used >= need THEN f[k - 1] ELSE 2 * f[k - 1]]
  <2>1. ASSUME NEW k \in 0..n, k # 0 PROVE G[f[k - 1]] = IF f[k - 1] - used >= need THEN f[k - 1] ELSE 2 * f[k - 1]
    <3>1. f[k - 1] \in Nat
      BY <2>1
    <3> QED
      BY <3>1
  <2>2. f = [k \in 0..n |-> IF k = 0 THEN from ELSE G[f[k - 1]]]
    BY <1>2 DEF IsIterated
  <2> HIDE DEF G
  <2> QED
    BY <2>1, <2>2
<1>4. size = [k \in 0..n |-> IF k = 0 THEN from ELSE IF size[k - 1] - used >= need THEN size[k - 1] ELSE 2 * size[k - 1]]
  BY <1>3
<1>5. B!doubled(from, used, need) = size[n]
  BY DEF B!doubled
<1> HIDE DEF size
<1> DEFINE A == {k \in 0..n : size[k] \in Nat /\ size[k] > 0 /\ (size[k] >= n \/ size[k] > k)}
<1>6. 0 \in A
  BY <1>1, <1>4
<1>7. ASSUME NEW k \in 1..n, k - 1 \in A PROVE k \in A
  <2>1. size[k - 1] \in Nat /\ size[k - 1] > 0 /\ (size[k - 1] >= n \/ size[k - 1] > k - 1)
    BY <1>7
  <2>2. size[k] = IF size[k - 1] - used >= need THEN size[k - 1] ELSE 2 * size[k - 1]
    <3>1. k \in 0..n /\ k # 0
      BY <1>1
    <3> HIDE DEF n
    <3> QED
      BY <1>4, <3>1
  <2>3. k \in 0..n /\ n \in Nat
    BY <1>1
  <2>4. size[k - 1] - used >= need <=> size[k - 1] >= n
    BY <2>1
  <2>5. CASE size[k - 1] >= n
    BY <2>1, <2>2, <2>3, <2>4, <2>5
  <2>6. CASE ~(size[k - 1] >= n)
    <3>1. size[k] = 2 * size[k - 1]
      BY <2>2, <2>4, <2>6
    <3>2. size[k] \in Nat /\ size[k] > k
      BY <2>1, <2>6, <3>1
    <3> QED
      BY <2>3, <3>2
  <2> QED
    BY <2>5, <2>6
<1>8. n \in A
  <2> HIDE DEF A
  <2>1. 0..n \subseteq A
    BY <1>1, <1>6, <1>7, AllReached
  <2> QED
    BY <1>1, <2>1
<1> QED
  BY <1>5, <1>8

LEMMA ExpandFits ==
  ASSUME NEW b, Fits(b), NEW need \in Nat
  PROVE  /\ Fits(B!expand(b, need)) /\ B!expand(b, need).data = b.data
         /\ B!freeLen(B!expand(b, need)) >= need
<1> DEFINE e == B!expand(b, need)
<1>1. /\ b.size \in Nat /\ b.start \in Nat /\ b.data \in Seq(Units) /\ Len(b.data) \in Nat
      /\ b.start + Len(b.data) <= b.size
  BY DEF Fits, Buffers, B!isBuffer
<1>2. InitialSize \in Nat \ {0}
  BY PacketStreamAssumption
<1>3. ASSUME NEW size \in Nat, size >= Len(b.data) + need
      PROVE  /\ Fits(B!moved(b, size)) /\ B!moved(b, size).data = b.data /\ B!freeLen(B!moved(b, size)) >= need
  BY <1>1, <1>3 DEF B!moved, Fits, Buffers, B!isBuffer, B!freeLen
<1>8. B!freeLen(b) \in Int /\ B!dataLen(b) = Len(b.data)
  BY <1>1 DEF B!freeLen, B!dataLen
<1>4. CASE b.size = 0
  <2>1. e = B!moved(b, B!doubled(InitialSize, 0, need)) /\ Len(b.data) = 0
    BY <1>1, <1>4 DEF B!expand
  <2>2. B!doubled(InitialSize, 0, need) \in Nat /\ B!doubled(InitialSize, 0, need) >= 0 + need
    BY <1>2, DoubledHolds
  <2> QED
    BY <1>3, <2>1, <2>2
<1>5. CASE b.size > 0 /\ B!freeLen(b) >= need
  <2>1. e = b
    BY <1>1, <1>5, <1>8 DEF B!expand
  <2> QED
    BY <1>5, <2>1
<1>6. CASE b.size > 0 /\ B!freeLen(b) < need /\ b.size - B!dataLen(b) >= need /\ (b.size - B!dataLen(b)) * 4 >= B!dataLen(b)
  <2>1. e = B!moved(b, b.size)
    BY <1>1, <1>6, <1>8 DEF B!expand
  <2>2. b.size >= Len(b.data) + need
    BY <1>1, <1>6 DEF B!dataLen
  <2> QED
    BY <1>1, <1>3, <2>1, <2>2
<1>7. CASE b.size > 0 /\ B!freeLen(b) < need
           /\ ~(b.size - B!dataLen(b) >= need /\ (b.size - B!dataLen(b)) * 4 >= B!dataLen(b))
  <2>1. e = B!moved(b, B!doubled(2 * b.size, B!dataLen(b), need))
    BY <1>1, <1>7, <1>8 DEF B!expand
  <2>2. 2 * b.size \in Nat \ {0}
    BY <1>1, <1>7
  <2>3. B!doubled(2 * b.size, B!dataLen(b), need) \in Nat /\ B!doubled(2 * b.size, B!dataLen(b), need) >= Len(b.data) + need
    BY <1>1, <1>8, <2>2, DoubledHolds
  <2> QED
    BY <1>3, <2>1, <2>3
<1> QED
  BY <1>1, <1>4, <1>5, <1>6, <1>7, <1>8

LEMMA Fitted ==
  ASSUME NEW b, Fits(b)
  PROVE  /\ b.size \in Nat /\ b.start \in Nat /\ b.data \in Seq(Units) /\ Len(b.data) \in Nat
         /\ b.start + Len(b.data) <= b.size /\ b = [size |-> b.size, start |-> b.start, data |-> b.data]
         /\ B!freeLen(b) = b.size - b.start - Len(b.data) /\ B!freeLen(b) \in Nat /\ B!dataLen(b) = Len(b.data)
BY DEF Fits, Buffers, B!isBuffer, B!freeLen, B!dataLen

LEMMA NoBufferFits == Fits(B!noBuffer) /\ B!noBuffer.data = <<>>
BY DEF Fits, Buffers, B!isBuffer, B!noBuffer

LEMMA PourFits ==
  ASSUME NEW b, Fits(b), NEW s \in Seq(Units), Len(s) <= B!freeLen(b)
  PROVE  /\ Fits(B!pourData(b, s)) /\ B!pourData(b, s).data = b.data \o s
         /\ B!freeLen(B!pourData(b, s)) = B!freeLen(b) - Len(s)
<1>0. /\ b.size \in Nat /\ b.start \in Nat /\ b.data \in Seq(Units) /\ Len(b.data) \in Nat
      /\ b = [size |-> b.size, start |-> b.start, data |-> b.data] /\ B!freeLen(b) = b.size - b.start - Len(b.data)
  BY Fitted
<1>1. b.data \o s \in Seq(Units) /\ Len(b.data \o s) = Len(b.data) + Len(s) /\ Len(s) \in Nat
  BY <1>0
<1>2. B!pourData(b, s) = [size |-> b.size, start |-> b.start, data |-> b.data \o s]
  <2> DEFINE t == b.data \o s
  <2>1. B!pourData(b, s) = [b EXCEPT !.data = t]
    BY DEF B!pourData
  <2> HIDE DEF t
  <2>2. B!pourData(b, s) = [size |-> b.size, start |-> b.start, data |-> t]
    BY <2>1, DataReplaced DEF Fits
  <2> QED
    BY <2>2 DEF t
<1> QED
  BY <1>0, <1>1, <1>2 DEF Fits, Buffers, B!isBuffer, B!freeLen

LEMMA WriteIntFits ==
  ASSUME NEW b, Fits(b), NEW u \in Units
  PROVE  /\ Fits(B!writeInt(b, u)) /\ B!writeInt(b, u).data = b.data \o <<u>>
         /\ B!freeLen(b) >= 1 => B!freeLen(B!writeInt(b, u)) = B!freeLen(b) - 1
<1> DEFINE e == B!expand(b, 1)
<1>1. Fits(e) /\ e.data = b.data /\ B!freeLen(e) >= 1
  BY ExpandFits
<1>2. B!freeLen(b) >= 1 => e = b
  BY Fitted DEF B!expand
<1>3. <<u>> \in Seq(Units) /\ Len(<<u>>) = 1
  OBVIOUS
<1>4. B!writeInt(b, u) = B!pourData(e, <<u>>)
  BY DEF B!writeInt
<1> HIDE DEF e
<1> QED
  BY <1>1, <1>2, <1>3, <1>4, PourFits

LEMMA WriteStringFits ==
  ASSUME NEW b, Fits(b), NEW len \in Units, NEW s \in Seq(Units)
  PROVE  /\ Fits(B!writeString(b, len, s)) /\ B!writeString(b, len, s).data = (b.data \o <<len>>) \o s
<1> DEFINE e == B!expand(b, Len(s) + 1)
           w == B!writeInt(e, len)
<1>1. Len(s) \in Nat /\ Len(s) + 1 \in Nat
  OBVIOUS
<1>2. Fits(e) /\ e.data = b.data /\ B!freeLen(e) >= Len(s) + 1
  BY <1>1, ExpandFits
<1> HIDE DEF e
<1>3. B!freeLen(e) \in Nat
  BY <1>2, Fitted
<1>6. B!freeLen(e) >= 1
  BY <1>1, <1>2, <1>3
<1>4. Fits(w) /\ w.data = b.data \o <<len>> /\ B!freeLen(w) >= Len(s)
  <2>1. Fits(w) /\ w.data = b.data \o <<len>> /\ B!freeLen(w) = B!freeLen(e) - 1
    BY <1>2, <1>6, WriteIntFits
  <2> QED
    BY <1>1, <1>2, <1>3, <2>1
<1>5. B!writeString(b, len, s) = B!pourData(w, s)
  BY DEF B!writeString, e
<1> HIDE DEF w
<1> QED
  BY <1>4, <1>5, PourFits

LEMMA WriteVectorFits ==
  ASSUME NEW b, Fits(b), NEW len \in Units, NEW s \in Seq(Units)
  PROVE  /\ Fits(B!writeVector(b, len, s)) /\ B!writeVector(b, len, s).data = (b.data \o <<len>>) \o s
<1> DEFINE n == Len(s)
           S == {x \in Buffers \X Nat : Fits(x[1])}
           G == [x \in S |-> <<B!writeInt(x[1], IF x[2] + 1 \in 1..n THEN s[x[2] + 1] ELSE len), x[2] + 1>>]
           first == B!writeInt(b, len)
           after == CHOOSE f : f = [k \in 0..n |-> IF k = 0 THEN B!writeInt(b, len) ELSE B!writeInt(f[k - 1], s[k])]
<1>1. n \in Nat /\ \A k \in 1..n : s[k] \in Units
  OBVIOUS
<1>2. Fits(first) /\ first.data = b.data \o <<len>>
  BY WriteIntFits
<1>3. <<first, 0>> \in S
  BY <1>2 DEF Fits
<1>4. G \in [S -> S]
  <2>1. ASSUME NEW x \in S PROVE G[x] \in S
    <3>1. (IF x[2] + 1 \in 1..n THEN s[x[2] + 1] ELSE len) \in Units /\ Fits(x[1]) /\ x[2] + 1 \in Nat
      BY <1>1
    <3> DEFINE u == IF x[2] + 1 \in 1..n THEN s[x[2] + 1] ELSE len
    <3>2. G[x] = <<B!writeInt(x[1], u), x[2] + 1>>
      OBVIOUS
    <3> HIDE DEF u
    <3>3. Fits(B!writeInt(x[1], u))
      BY <3>1, WriteIntFits DEF u
    <3> QED
      BY <3>1, <3>2, <3>3 DEF Fits
  <2> QED
    BY <2>1
<1>5. PICK f \in [0..n -> S] : IsIterated(f, n, <<first, 0>>, G)
  <2> HIDE DEF n, S, G, first
  <2> QED
    BY <1>1, <1>3, <1>4, IteratedExists
<1>15. f[0] = <<first, 0>> /\ \A k \in 1..n : f[k] = G[f[k - 1]] /\ f[k - 1] \in S
  <2> HIDE DEF G, S, first
  <2>1. \A k \in 1..n : k \in 0..n /\ k # 0 /\ k - 1 \in 0..n /\ 0 \in 0..n
    BY <1>1
  <2> HIDE DEF n
  <2>2. f = [k \in 0..n |-> IF k = 0 THEN <<first, 0>> ELSE G[f[k - 1]]]
    BY <1>5 DEF IsIterated
  <2>3. \A k \in 1..n : f[k - 1] \in S
    BY <2>1
  <2>4. 0 \in 0..n
    BY <1>1
  <2>5. f[0] = <<first, 0>>
    BY <2>2, <2>4
  <2>6. ASSUME NEW k \in 1..n PROVE f[k] = G[f[k - 1]]
    BY <2>1, <2>2
  <2> QED
    BY <2>3, <2>5, <2>6
<1>6. \A k \in 0..n : f[k][2] = k
  <2> DEFINE A == {k \in 0..n : f[k][2] = k}
  <2>1. 0 \in A
    BY <1>1, <1>15
  <2>2. ASSUME NEW k \in 1..n, k - 1 \in A PROVE k \in A
    <3>1. f[k] = G[f[k - 1]] /\ f[k - 1] \in S /\ f[k - 1][2] = k - 1
      BY <1>15, <2>2
    <3>2. k \in 0..n /\ (k - 1) + 1 = k
      BY <1>1
    <3> QED
      BY <3>1, <3>2
  <2>3. 0..n \subseteq A
    <3> HIDE DEF A, n
    <3> QED
      BY <1>1, <2>1, <2>2, AllReached
  <2> QED
    BY <2>3
<1>7. \A k \in 1..n : f[k][1] = B!writeInt(f[k - 1][1], s[k])
  <2> SUFFICES ASSUME NEW k \in 1..n PROVE f[k][1] = B!writeInt(f[k - 1][1], s[k])
    OBVIOUS
  <2>1. k - 1 \in 0..n /\ (k - 1) + 1 = k
    BY <1>1
  <2>2. f[k] = G[f[k - 1]] /\ f[k - 1] \in S /\ f[k - 1][2] = k - 1
    BY <1>6, <1>15, <2>1
  <2> QED
    BY <2>1, <2>2
<1>8. [k \in 0..n |-> f[k][1]] = [k \in 0..n |-> IF k = 0 THEN B!writeInt(b, len) ELSE B!writeInt([j \in 0..n |-> f[j][1]][k - 1], s[k])]
  <2>1. f[0][1] = first
    BY <1>15
  <2>2. \A k \in 1..n : k - 1 \in 0..n
    BY <1>1
  <2> HIDE DEF n, S, G
  <2> QED
    BY <1>7, <2>1, <2>2
<1>9. after = [k \in 0..n |-> IF k = 0 THEN B!writeInt(b, len) ELSE B!writeInt(after[k - 1], s[k])]
  <2> HIDE DEF n, S, G
  <2> QED
    BY <1>8
<1>10. B!writeVector(b, len, s) = after[n]
  BY DEF B!writeVector
<1> HIDE DEF after, G, S
<1> DEFINE A == {k \in 0..n : Fits(after[k]) /\ after[k].data = (b.data \o <<len>>) \o SubSeq(s, 1, k)}
<1>11. 0 \in A
  <2>1. after[0] = first
    BY <1>1, <1>9
  <2>2. (b.data \o <<len>>) \o SubSeq(s, 1, 0) = b.data \o <<len>>
    <3>1. b.data \o <<len>> \in Seq(Units)
      BY Fitted
    <3>2. SubSeq(s, 1, 0) = <<>>
      OBVIOUS
    <3> QED
      BY <3>1, <3>2, ConcatEmptySeq
  <2> QED
    BY <1>1, <1>2, <2>1, <2>2
<1>12. ASSUME NEW k \in 1..n, k - 1 \in A PROVE k \in A
  <2>1. after[k] = B!writeInt(after[k - 1], s[k]) /\ k \in 0..n
    BY <1>1, <1>9
  <2>2. Fits(after[k - 1]) /\ after[k - 1].data = (b.data \o <<len>>) \o SubSeq(s, 1, k - 1) /\ s[k] \in Units
    BY <1>1, <1>12
  <2>3. Fits(after[k]) /\ after[k].data = ((b.data \o <<len>>) \o SubSeq(s, 1, k - 1)) \o <<s[k]>>
    BY <2>1, <2>2, WriteIntFits
  <2>4. ((b.data \o <<len>>) \o SubSeq(s, 1, k - 1)) \o <<s[k]>> = (b.data \o <<len>>) \o SubSeq(s, 1, k)
    <3>1. b.data \o <<len>> \in Seq(Units) /\ k \in 1..Len(s)
      BY Fitted
    <3> QED
      BY <3>1, OneMore DEF HasAt
  <2> QED
    BY <2>1, <2>3, <2>4
<1>13. n \in A
  <2> HIDE DEF A, n
  <2>1. 0..n \subseteq A
    BY <1>1, <1>11, <1>12, AllReached
  <2> QED
    BY <1>1, <2>1
<1>14. SubSeq(s, 1, n) = s
  BY <1>1
<1> QED
  BY <1>10, <1>13, <1>14
-----------------------------------------------------------------------------
(* What the buffers keep *)

LEMMA DropIs ==
  ASSUME NEW U, NEW s \in Seq(U), NEW n \in 0..Len(s)
  PROVE  /\ B!drop(s, n) \in Seq(U) /\ Len(B!drop(s, n)) = Len(s) - n
         /\ \A j \in 1..Len(s) - n : B!drop(s, n)[j] = s[n + j]
<1>1. \A j \in n + 1..Len(s) : s[j] \in U
  OBVIOUS
<1>2. n + 1 \in Int /\ Len(s) \in Int
  OBVIOUS
<1>3. /\ SubSeq(s, n + 1, Len(s)) \in Seq(U)
      /\ Len(SubSeq(s, n + 1, Len(s))) = IF n + 1 <= Len(s) THEN Len(s) - (n + 1) + 1 ELSE 0
      /\ \A i \in 1..Len(s) - (n + 1) + 1 : SubSeq(s, n + 1, Len(s))[i] = s[n + 1 + i - 1]
  BY <1>1, <1>2, SubSeqProperties
<1> QED
  BY <1>3 DEF B!drop

LEMMA TakeIs ==
  ASSUME NEW U, NEW s \in Seq(U), NEW n \in 0..Len(s)
  PROVE  /\ SubSeq(s, 1, n) \in Seq(U) /\ Len(SubSeq(s, 1, n)) = n
         /\ \A j \in 1..n : SubSeq(s, 1, n)[j] = s[j]
<1>1. \A j \in 1..n : s[j] \in U
  OBVIOUS
<1>2. n \in Int /\ 1 \in Int
  OBVIOUS
<1>3. /\ SubSeq(s, 1, n) \in Seq(U)
      /\ Len(SubSeq(s, 1, n)) = IF 1 <= n THEN n - 1 + 1 ELSE 0
      /\ \A i \in 1..n - 1 + 1 : SubSeq(s, 1, n)[i] = s[1 + i - 1]
  BY <1>1, <1>2, SubSeqProperties
<1> QED
  BY <1>3

LEMMA TakeDrop ==
  ASSUME NEW U, NEW s \in Seq(U), NEW n \in 0..Len(s)
  PROVE  SubSeq(s, 1, n) \o B!drop(s, n) = s
<1> DEFINE t == SubSeq(s, 1, n)
           d == B!drop(s, n)
<1>1. t \in Seq(U) /\ Len(t) = n /\ (\A j \in 1..n : t[j] = s[j])
  BY TakeIs
<1>2. d \in Seq(U) /\ Len(d) = Len(s) - n /\ (\A j \in 1..Len(s) - n : d[j] = s[n + j])
  BY DropIs
<1> HIDE DEF t, d
<1>3. /\ t \o d \in Seq(U) /\ Len(t \o d) = Len(t) + Len(d)
      /\ \A i \in 1..Len(t) + Len(d) : (t \o d)[i] = IF i <= Len(t) THEN t[i] ELSE d[i - Len(t)]
  BY <1>1, <1>2, ConcatProperties
<1>4. ASSUME NEW i \in 1..Len(s) PROVE (t \o d)[i] = s[i]
  <2>1. i \in Int /\ 1 <= i /\ i <= Len(s) /\ i \in 1..Len(t) + Len(d) /\ Len(t) = n
    BY <1>1, <1>2
  <2>2. (t \o d)[i] = IF i <= n THEN t[i] ELSE d[i - n]
    BY <1>3, <2>1
  <2>3. CASE i <= n
    BY <1>1, <2>1, <2>2, <2>3
  <2>4. CASE ~(i <= n)
    <3>1. i - n \in 1..Len(s) - n /\ n + (i - n) = i
      BY <2>1, <2>4
    <3>2. d[i - n] = s[n + (i - n)]
      BY <1>2, <3>1
    <3> QED
      BY <2>2, <2>4, <3>1, <3>2
  <2> QED
    BY <2>3, <2>4
<1>5. Len(t \o d) = Len(s)
  BY <1>1, <1>2, <1>3
<1>6. t \o d = s
  BY <1>3, <1>4, <1>5, SeqEqual
<1> QED
  BY <1>6 DEF t, d

LEMMA DropFront ==
  ASSUME NEW U, NEW s \in Seq(U), NEW t \in Seq(U), NEW n \in 0..Len(s)
  PROVE  B!drop(s \o t, n) = B!drop(s, n) \o t /\ n \in 0..Len(s \o t)
<1> DEFINE w == s \o t
           d == B!drop(s, n)
           e == B!drop(w, n)
<1>1. /\ w \in Seq(U) /\ Len(w) = Len(s) + Len(t) /\ Len(s) \in Nat /\ Len(t) \in Nat
      /\ \A i \in 1..Len(s) + Len(t) : w[i] = IF i <= Len(s) THEN s[i] ELSE t[i - Len(s)]
  BY ConcatProperties
<1>2. d \in Seq(U) /\ Len(d) = Len(s) - n /\ (\A j \in 1..Len(s) - n : d[j] = s[n + j])
  BY DropIs
<1> HIDE DEF w, d
<1>3. n \in 0..Len(w)
  BY <1>1
<1>4. e \in Seq(U) /\ Len(e) = Len(w) - n /\ (\A j \in 1..Len(w) - n : e[j] = w[n + j])
  BY <1>1, <1>3, DropIs
<1> HIDE DEF e
<1>5. /\ d \o t \in Seq(U) /\ Len(d \o t) = Len(d) + Len(t)
      /\ \A i \in 1..Len(d) + Len(t) : (d \o t)[i] = IF i <= Len(d) THEN d[i] ELSE t[i - Len(d)]
  BY <1>2, ConcatProperties
<1>6. ASSUME NEW i \in 1..Len(e) PROVE e[i] = (d \o t)[i]
  <2>1. /\ i \in Int /\ 1 <= i /\ i <= Len(s) + Len(t) - n /\ Len(d) = Len(s) - n
    BY <1>1, <1>2, <1>4
  <2>2. e[i] = w[n + i] /\ (d \o t)[i] = IF i <= Len(d) THEN d[i] ELSE t[i - Len(d)]
    BY <1>1, <1>2, <1>4, <1>5, <2>1
  <2>3. n + i \in 1..Len(s) + Len(t)
    BY <1>1, <2>1
  <2>4. w[n + i] = IF n + i <= Len(s) THEN s[n + i] ELSE t[n + i - Len(s)]
    BY <1>1, <2>3
  <2>5. CASE i <= Len(d)
    BY <1>1, <1>2, <2>1, <2>2, <2>4, <2>5
  <2>6. CASE ~(i <= Len(d))
    <3>1. ~(n + i <= Len(s)) /\ n + i - Len(s) = i - Len(d)
      BY <1>1, <2>1, <2>6
    <3> QED
      BY <2>2, <2>4, <2>6, <3>1
  <2> QED
    BY <2>5, <2>6
<1>7. Len(e) = Len(d \o t)
  BY <1>1, <1>2, <1>4, <1>5
<1>8. e = d \o t
  BY <1>4, <1>5, <1>6, <1>7, SeqEqual
<1> QED
  BY <1>3, <1>8 DEF e, d, w

LEMMA ShrinkFits ==
  ASSUME NEW b, Fits(b)
  PROVE  Fits(B!shrink(b)) /\ B!shrink(b).data = b.data
<1>1. /\ b.size \in Nat /\ b.start \in Nat /\ b.data \in Seq(Units) /\ Len(b.data) \in Nat /\ B!dataLen(b) = Len(b.data)
  BY Fitted
<1>2. ShrinkSize \in Nat
  BY PacketStreamAssumption
<1> QED
  BY <1>1, <1>2 DEF B!shrink, B!moved, Fits, Buffers, B!isBuffer

LEMMA AdvanceFits ==
  ASSUME NEW b, Fits(b), NEW n \in 0..Len(b.data)
  PROVE  Fits(B!advance(b, n)) /\ B!advance(b, n).data = B!drop(b.data, n)
<1>1. PICK x, y, z : b = [size |-> x, start |-> y, data |-> z]
  BY DEF Fits, Buffers
<1>2. B!advance(b, n) = [size |-> b.size, start |-> b.start + n, data |-> B!drop(b.data, n)]
  <2> DEFINE d == B!drop(b.data, n)
             m == b.start + n
  <2>1. B!advance(b, n) = [b EXCEPT !.start = m, !.data = d]
    BY DEF B!advance
  <2> HIDE DEF d, m
  <2>2. B!advance(b, n) = [size |-> b.size, start |-> m, data |-> d]
    BY <1>1, <2>1
  <2> QED
    BY <2>2 DEF d, m
<1>3. /\ b.size \in Nat /\ b.start \in Nat /\ b.data \in Seq(Units) /\ Len(b.data) \in Nat
      /\ b.start + Len(b.data) <= b.size
  BY Fitted
<1>4. B!drop(b.data, n) \in Seq(Units) /\ Len(B!drop(b.data, n)) = Len(b.data) - n
  BY <1>3, DropIs
<1> QED
  BY <1>2, <1>3, <1>4 DEF Fits, Buffers, B!isBuffer

LEMMA DrainFits ==
  ASSUME NEW b, Fits(b), NEW n \in 0..Len(b.data)
  PROVE  Fits(B!drainData(b, n)) /\ B!drainData(b, n).data = B!drop(b.data, n)
<1>1. CASE n < Len(b.data)
  <2>1. B!drainData(b, n) = B!advance(b, n)
    BY <1>1, Fitted DEF B!drainData
  <2> QED
    BY <2>1, AdvanceFits
<1>2. CASE ~(n < Len(b.data))
  <2>1. /\ b.size \in Nat /\ b.data \in Seq(Units) /\ Len(b.data) \in Nat /\ B!dataLen(b) = Len(b.data)
    BY Fitted
  <2>2. n = Len(b.data) /\ B!drainData(b, n) = B!clear(b)
    BY <1>2, <2>1 DEF B!drainData
  <2>3. PICK x, y, z : b = [size |-> x, start |-> y, data |-> z]
    BY DEF Fits, Buffers
  <2>4. B!clear(b) = [size |-> b.size, start |-> 0, data |-> <<>>]
    <3> DEFINE d == <<>>
    <3>1. B!clear(b) = [b EXCEPT !.start = 0, !.data = d]
      BY DEF B!clear
    <3> HIDE DEF d
    <3>2. B!clear(b) = [size |-> b.size, start |-> 0, data |-> d]
      BY ONLY <2>3, <3>1
    <3> QED
      BY <3>2 DEF d
  <2>5. B!drop(b.data, n) = <<>>
    <3>1. Len(b.data) + 1 \in Int /\ Len(b.data) \in Int /\ Len(b.data) < Len(b.data) + 1
      BY <2>1
    <3> QED
      BY <2>2, <3>1, SubSeqEmpty DEF B!drop
  <2> QED
    BY <2>1, <2>2, <2>4, <2>5 DEF Fits, Buffers, B!isBuffer
<1> QED
  BY <1>1, <1>2

-----------------------------------------------------------------------------
(* A stream of packets: whole packets in the order of their numbers, with a first and a *)
(* last one that may be cut.                                                            *)

Known == (1..MaxPacket) \ Unencodable
unitOf(k, i) == unit(k, i, IF i = 2 THEN k ELSE IF i = 3 THEN k - 1 ELSE 0)
packetOf(k) == [i \in 1..k + HeaderLen |-> unitOf(k, i)]

IsUnit(u) == u.p \in Known /\ u.i \in 1..u.p + HeaderLen /\ u = unitOf(u.p, u.i)

\* v comes d units after u.
Follows(u, v, d) ==
  \/ u.p = v.p /\ v.i = u.i + d
  \/ u.p < v.p /\ d >= u.p + HeaderLen - u.i + v.i

Framed(c) ==
  /\ c \in Seq(Units)
  /\ \A j \in 1..Len(c) : IsUnit(c[j])
  /\ \A j, l \in 1..Len(c) : j < l => Follows(c[j], c[l], l - j)
Whole(c) == c # <<>> => c[Len(c)].i = c[Len(c)].p + HeaderLen

LEMMA PacketsAre == Known \subseteq Nat \ {0} /\ MaxPacket \in Nat /\ \A k \in Known : k <= MaxPacket
BY PacketStreamAssumption DEF Known

LEMMA UnitOfIs ==
  ASSUME NEW k \in Known, NEW i \in 1..k + HeaderLen
  PROVE  unitOf(k, i) \in Units /\ IsUnit(unitOf(k, i)) /\ unitOf(k, i).p = k /\ unitOf(k, i).i = i
<1>1. k \in Nat \ {0} /\ MaxPacket \in Nat /\ k <= MaxPacket
  BY PacketsAre
<1>2. (IF i = 2 THEN k ELSE IF i = 3 THEN k - 1 ELSE 0) \in 0..MaxPacket
  BY <1>1
<1> DEFINE n == IF i = 2 THEN k ELSE IF i = 3 THEN k - 1 ELSE 0
<1>3. unitOf(k, i) = [p |-> k, i |-> i, n |-> n]
  BY DEF unitOf, unit
<1> HIDE DEF n
<1>4. k \in 1..MaxPacket /\ i \in 1..HeaderLen + MaxPacket
  BY <1>1 DEF HeaderLen
<1> QED
  BY <1>2, <1>3, <1>4 DEF Units, IsUnit, n

LEMMA PacketOfIs ==
  ASSUME NEW k \in Known
  PROVE  /\ packetOf(k) \in Seq(Units) /\ Len(packetOf(k)) = k + HeaderLen
         /\ \A i \in 1..k + HeaderLen : packetOf(k)[i] = unitOf(k, i)
<1>1. k + HeaderLen \in Nat
  BY PacketsAre DEF HeaderLen
<1>2. \A i \in 1..k + HeaderLen : unitOf(k, i) \in Units
  BY UnitOfIs
<1> QED
  BY <1>1, <1>2, IsASeq DEF packetOf

\* Of two units of a stream the later one is of the same packet or of a later one.
LEMMA UnitsAre ==
  ASSUME NEW c, Framed(c), NEW j \in 1..Len(c)
  PROVE  /\ c[j].p \in Known /\ c[j].p \in Nat /\ c[j].i \in Nat /\ 1 <= c[j].p /\ 1 <= c[j].i
         /\ c[j].i <= c[j].p + 2 /\ c[j] = unitOf(c[j].p, c[j].i) /\ c[j] \in Units
<1>1. c[j] \in Units /\ IsUnit(c[j])
  BY DEF Framed
<1>2. c[j].p \in Known /\ c[j].i \in 1..c[j].p + 2 /\ c[j] = unitOf(c[j].p, c[j].i)
  BY <1>1 DEF IsUnit, HeaderLen
<1>3. c[j].p \in Nat /\ 1 <= c[j].p
  <2>1. \A k \in Known : k \in Nat /\ 1 <= k
    BY PacketsAre
  <2> QED
    BY <1>2, <2>1
<1> QED
  BY <1>1, <1>2, <1>3

LEMMA FramedPart ==
  ASSUME NEW c, Framed(c), NEW d \in Seq(Units), NEW m \in Nat, m + Len(d) <= Len(c),
         \A j \in 1..Len(d) : d[j] = c[m + j]
  PROVE  Framed(d)
<1>1. Len(c) \in Nat /\ Len(d) \in Nat
  BY DEF Framed
<1>2. ASSUME NEW j \in 1..Len(d) PROVE IsUnit(d[j])
  <2>1. m + j \in 1..Len(c) /\ d[j] = c[m + j]
    BY <1>1
  <2> QED
    BY <2>1 DEF Framed
<1>3. ASSUME NEW j \in 1..Len(d), NEW l \in 1..Len(d), j < l PROVE Follows(d[j], d[l], l - j)
  <2>1. m + j \in 1..Len(c) /\ m + l \in 1..Len(c) /\ m + j < m + l /\ d[j] = c[m + j] /\ d[l] = c[m + l]
    BY <1>1, <1>3
  <2>2. (m + l) - (m + j) = l - j
    OBVIOUS
  <2>3. Follows(c[m + j], c[m + l], (m + l) - (m + j))
    BY <2>1 DEF Framed
  <2> QED
    BY <2>1, <2>2, <2>3
<1> QED
  BY <1>2, <1>3 DEF Framed

LEMMA RestOfPacket ==
  ASSUME NEW x \in Nat, NEW y \in Nat, NEW a \in Nat, NEW b \in Nat, NEW d \in Int,
         (x = y /\ b = a + d) \/ (x < y /\ d >= x + 2 - a + b), b = y + 2
  PROVE  d >= x + 2 - a
OBVIOUS

LEMMA Farther ==
  ASSUME NEW l \in Int, NEW j \in Int, NEW n \in Int, NEW x \in Int, n - j >= x
  PROVE  l - j >= x + (l - n)
OBVIOUS

LEMMA FramedMore ==
  ASSUME NEW c, Framed(c), Whole(c), NEW k \in Known, \A j \in 1..Len(c) : c[j].p < k
  PROVE  LET d == c \o packetOf(k) IN /\ Framed(d) /\ Whole(d) /\ d # <<>>
<1> DEFINE q == packetOf(k)
           d == c \o q
<1>1. /\ q \in Seq(Units) /\ Len(q) = k + 2 /\ (\A i \in 1..k + 2 : q[i] = unitOf(k, i)) /\ k \in Nat /\ k > 0
  BY PacketOfIs, PacketsAre DEF HeaderLen
<1>2. \A i \in 1..k + 2 : IsUnit(q[i]) /\ q[i].p = k /\ q[i].i = i
  BY <1>1, UnitOfIs DEF HeaderLen
<1>3. c \in Seq(Units) /\ Len(c) \in Nat
  BY DEF Framed
<1> HIDE DEF q
<1>4. /\ d \in Seq(Units) /\ Len(d) = Len(c) + (k + 2)
      /\ \A i \in 1..Len(c) + (k + 2) : d[i] = IF i <= Len(c) THEN c[i] ELSE q[i - Len(c)]
  <2>1. /\ d \in Seq(Units) /\ Len(d) = Len(c) + Len(q)
        /\ \A i \in 1..Len(c) + Len(q) : d[i] = IF i <= Len(c) THEN c[i] ELSE q[i - Len(c)]
    BY <1>1, <1>3, ConcatProperties
  <2> HIDE DEF d
  <2> QED
    BY <1>1, <2>1
<1> HIDE DEF d
<1>5. \A i \in 1..Len(d) : IF i <= Len(c) THEN i \in 1..Len(c) /\ d[i] = c[i]
                           ELSE i - Len(c) \in 1..k + 2 /\ d[i] = q[i - Len(c)]
  BY <1>1, <1>3, <1>4
<1>6. ASSUME NEW j \in 1..Len(d) PROVE IsUnit(d[j])
  BY <1>2, <1>5 DEF Framed
<1>7. ASSUME NEW j \in 1..Len(d), NEW l \in 1..Len(d), j < l PROVE Follows(d[j], d[l], l - j)
  <2>0. j \in Int /\ l \in Int
    OBVIOUS
  <2>1. CASE l <= Len(c)
    <3>1. j \in 1..Len(c) /\ l \in 1..Len(c) /\ d[j] = c[j] /\ d[l] = c[l]
      BY <1>3, <1>5, <1>7, <2>0, <2>1
    <3> QED
      BY <1>7, <3>1 DEF Framed
  <2>2. CASE ~(l <= Len(c)) /\ j <= Len(c)
    <3>1. j \in 1..Len(c) /\ d[j] = c[j] /\ d[l] = q[l - Len(c)] /\ l - Len(c) \in 1..k + 2
      BY <1>5, <2>2
    <3>2. d[l].p = k /\ d[l].i = l - Len(c)
      BY <1>2, <3>1
    <3>3. Len(c) \in 1..Len(c) /\ c # <<>>
      BY <1>3, <3>1
    <3>4. c[Len(c)].i = c[Len(c)].p + 2
      BY <3>3 DEF Whole, HeaderLen
    <3>5. c[j].p \in Nat /\ c[j].i \in Nat /\ c[Len(c)].p \in Nat /\ c[Len(c)].i \in Nat /\ c[Len(c)].i <= c[Len(c)].p + 2
      BY <3>1, <3>3, UnitsAre
    <3>6. j < Len(c) => Follows(c[j], c[Len(c)], Len(c) - j)
      BY <3>1, <3>3 DEF Framed
    <3>7. Len(c) - j >= c[j].p + 2 - c[j].i
      <4>1. CASE j = Len(c)
        <5>1. c[j].i = c[j].p + 2
          BY <3>4, <4>1
        <5>2. Len(c) - j = 0 /\ c[j].p + 2 - c[j].i = 0
          BY ONLY <5>1, <3>5, <4>1, <1>3, <2>0
        <5> QED
          BY <5>2
      <4>2. CASE j < Len(c)
        <5> DEFINE u == c[j]
                   v == c[Len(c)]
                   n == Len(c)
        <5>1. Follows(u, v, n - j)
          BY <3>6, <4>2
        <5>2. u.p \in Nat /\ u.i \in Nat /\ v.p \in Nat /\ v.i \in Nat /\ v.i = v.p + 2 /\ n \in Nat /\ j \in Int
          BY <1>3, <2>0, <3>4, <3>5
        <5> HIDE DEF u, v, n
        <5>4. n - j \in Int
          BY <5>2
        <5>5. (u.p = v.p /\ v.i = u.i + (n - j)) \/ (u.p < v.p /\ n - j >= u.p + 2 - u.i + v.i)
          BY <5>1 DEF Follows, HeaderLen
        <5>3. n - j >= u.p + 2 - u.i
          BY ONLY <5>2, <5>4, <5>5, RestOfPacket
        <5> QED
          BY <5>3 DEF u, n
      <4> QED
        BY <1>3, <2>0, <2>2, <4>1, <4>2
    <3>8. l - j >= c[j].p + 2 - c[j].i + (l - Len(c))
      <4>1. c[j].p + 2 - c[j].i \in Int
        <5> DEFINE x == c[j].p
                   y == c[j].i
        <5>1. x \in Nat /\ y \in Nat
          BY <3>5
        <5> HIDE DEF x, y
        <5>2. x + 2 - y \in Int
          BY ONLY <5>1
        <5> QED
          BY ONLY <5>2 DEF x, y
      <4> QED
        BY ONLY <1>3, <2>0, <4>1, <3>7, Farther
    <3>9. c[j].p < k
      BY <3>1
    <3> QED
      BY <3>1, <3>2, <3>8, <3>9 DEF Follows, HeaderLen
  <2>3. CASE ~(l <= Len(c)) /\ ~(j <= Len(c))
    <3>1. d[j] = q[j - Len(c)] /\ j - Len(c) \in 1..k + 2 /\ d[l] = q[l - Len(c)] /\ l - Len(c) \in 1..k + 2
      BY <1>5, <2>3
    <3>2. d[j].p = k /\ d[j].i = j - Len(c) /\ d[l].p = k /\ d[l].i = l - Len(c)
      BY <1>2, <3>1
    <3> QED
      BY <1>3, <2>0, <3>2 DEF Follows
  <2> QED
    BY <2>1, <2>2, <2>3
<1>8. Framed(d)
  BY <1>4, <1>6, <1>7 DEF Framed
<1>9. Whole(d) /\ d # <<>>
  <2>1. Len(d) \in 1..Len(d) /\ ~(Len(d) <= Len(c)) /\ Len(d) - Len(c) = k + 2 /\ k + 2 \in 1..k + 2
    BY <1>1, <1>3, <1>4
  <2>2. d[Len(d)] = q[k + 2]
    BY <1>5, <2>1
  <2>3. d[Len(d)].p = k /\ d[Len(d)].i = k + 2
    BY <1>2, <2>1, <2>2
  <2>4. d # <<>>
    BY <2>1
  <2> QED
    BY <2>3, <2>4 DEF Whole, HeaderLen
<1> QED
  BY <1>8, <1>9 DEF d, q

\* What follows the first unit.
LEMMA AfterFirst ==
  ASSUME NEW c, Framed(c), NEW j \in 2..Len(c)
  PROVE  /\ j \in 1..Len(c) /\ 1 \in 1..Len(c)
         /\ \/ c[1].p = c[j].p /\ c[j].i = c[1].i + (j - 1)
            \/ c[1].p < c[j].p /\ j - 1 >= c[1].p + 2 - c[1].i + c[j].i
<1>1. j \in 1..Len(c) /\ 1 \in 1..Len(c) /\ 1 < j
  BY DEF Framed
<1>2. Follows(c[1], c[j], j - 1)
  BY <1>1 DEF Framed
<1> QED
  BY <1>1, <1>2 DEF Follows, HeaderLen

LEMMA InPacket ==
  ASSUME NEW p \in Nat, NEW i \in Nat, NEW q \in Nat, NEW l \in Nat, NEW d \in Nat, 1 <= l, l <= q + 2,
         (p = q /\ l = i + d) \/ (p < q /\ d >= p + 2 - i + l), i <= 3
  PROVE  /\ i + d <= p + 2 => q = p /\ l = i + d
         /\ i + d > p + 2 => p < q
         /\ i + d = p + 3 => l = 1
         /\ p <= q
OBVIOUS

LEMMA Body ==
  ASSUME NEW c, Framed(c), c # <<>>, NEW k, c[1].p = k, NEW i \in 1..3, c[1].i = i,
         NEW j \in 1..Len(c), NEW e, e = j + i - 1
  PROVE  /\ k \in Known /\ k \in Nat /\ 1 <= k /\ k <= c[j].p
         /\ e <= k + 2 => c[j] = unitOf(k, e)
         /\ e > k + 2 => k < c[j].p
         /\ e = k + 3 => c[j].i = 1
<1>1. Len(c) \in Nat /\ 1 \in 1..Len(c) /\ j \in Int /\ e \in Int
  BY DEF Framed
<1>2. k \in Known /\ k \in Nat /\ 1 <= k /\ i <= k + 2 /\ c[1] = unitOf(k, i)
  BY <1>1, UnitsAre
<1>3. CASE j = 1
  <2>1. e = i
    BY <1>3
  <2> QED
    BY <1>1, <1>2, <1>3, <2>1
<1>4. CASE j # 1
  <2>1. j \in 2..Len(c) /\ j - 1 \in Nat /\ i + (j - 1) = e
    BY <1>1, <1>4
  <2>2. (k = c[j].p /\ c[j].i = i + (j - 1)) \/ (k < c[j].p /\ j - 1 >= k + 2 - i + c[j].i)
    BY <2>1, AfterFirst
  <2>3. c[j].p \in Nat /\ c[j].i \in Nat /\ 1 <= c[j].i /\ c[j].i <= c[j].p + 2 /\ c[j] = unitOf(c[j].p, c[j].i)
    BY UnitsAre
  <2>4. /\ i + (j - 1) <= k + 2 => c[j].p = k /\ c[j].i = i + (j - 1)
        /\ i + (j - 1) > k + 2 => k < c[j].p
        /\ i + (j - 1) = k + 3 => c[j].i = 1
        /\ k <= c[j].p
    BY ONLY <1>2, <2>1, <2>2, <2>3, i \in 1..3, InPacket
  <2> QED
    BY <1>2, <2>1, <2>3, <2>4
<1> QED
  BY <1>3, <1>4

LEMMA FromHeader ==
  ASSUME NEW c, Framed(c), c # <<>>, NEW k, c[1].p = k, c[1].i = 1, NEW j \in 1..Len(c)
  PROVE  k \in Known /\ k \in Nat /\ 1 <= k /\ k <= c[j].p /\ (j <= k + 2 => c[j] = unitOf(k, j))
<1> DEFINE e == j + 1 - 1
<1>1. e = j /\ 1 \in 1..3 /\ e = j + 1 - 1
  OBVIOUS
<1> HIDE DEF e
<1>2. /\ k \in Known /\ k \in Nat /\ 1 <= k /\ k <= c[j].p
      /\ e <= k + 2 => c[j] = unitOf(k, e)
  BY <1>1, Body
<1> QED
  BY <1>1, <1>2

LEMMA FromBody ==
  ASSUME NEW c, Framed(c), c # <<>>, NEW k, c[1].p = k, c[1].i = 3, NEW j \in 1..Len(c)
  PROVE  /\ k \in Known /\ k \in Nat /\ 1 <= k /\ k <= c[j].p
         /\ j <= k => c[j] = unitOf(k, j + 2)
         /\ j > k => k < c[j].p
         /\ j = k + 1 => c[j].i = 1
<1> DEFINE e == j + 3 - 1
<1>1. e = j + 2 /\ 3 \in 1..3 /\ e = j + 3 - 1
  OBVIOUS
<1> HIDE DEF e
<1>2. /\ k \in Known /\ k \in Nat /\ 1 <= k /\ k <= c[j].p
      /\ e <= k + 2 => c[j] = unitOf(k, e)
      /\ e > k + 2 => k < c[j].p
      /\ e = k + 3 => c[j].i = 1
  BY <1>1, Body
<1>3. (e <= k + 2 <=> j <= k) /\ (e > k + 2 <=> j > k) /\ (e = k + 3 <=> j = k + 1)
  BY <1>1, <1>2
<1> QED
  BY <1>1, <1>2, <1>3

-----------------------------------------------------------------------------
(* The stream, what is at its head, and the packets that were taken from it *)

Heard == [p : 0..MaxPacket, how : {"ok", "corrupt", "bad", "dropped"}]

AtHead(got, h, c) ==
  IF got THEN /\ h.p \in Known /\ h.len = h.p
              /\ c # <<>> => c[1].p = h.p /\ c[1].i = 3
  ELSE c # <<>> => c[1].i = 1

\* What was taken is earlier than what is there, and of that nothing is later than enc.
Later(got, h, c, all, enc) ==
  /\ \A j \in 1..Len(all) : /\ all[j].p <= enc
                            /\ got => all[j].p < h.p
                            /\ \A l \in 1..Len(c) : all[j].p < c[l].p
  /\ got => h.p <= enc
  /\ \A l \in 1..Len(c) : c[l].p <= enc

InOrder(rd, all) ==
  /\ all \in Seq(Heard)
  /\ \A j \in 1..Len(all) : all[j].how # "corrupt"
  /\ \A l, j \in 1..Len(all) : l < j =>
       /\ all[l].p # all[j].p
       /\ (rd = "batch" /\ "bad" \in {all[l].how, all[j].how}) \/ all[l].p < all[j].p

InStep(up, got, h, c, all, enc, rd) ==
  /\ Framed(c) /\ AtHead(got, h, c) /\ Later(got, h, c, all, enc) /\ InOrder(rd, all)
  /\ up => Whole(c) /\ (c = <<>> => ~got)

\* Where a packet can be.
AllThere(got, h, c, all, enc) ==
  \A k \in 1..enc : k \notin Unencodable =>
    (\E j \in 1..Len(all) : all[j].p = k) \/ (got /\ h.p = k) \/ (\E j \in 1..Len(c) : c[j].p = k)

LEMMA HeardAre ==
  ASSUME NEW rd, NEW all, InOrder(rd, all)
  PROVE  Len(all) \in Nat /\ \A j \in 1..Len(all) : all[j] \in Heard /\ all[j].p \in Nat
<1>1. all \in Seq(Heard)
  BY DEF InOrder
<1>2. \A x \in Heard : x.p \in Nat
  BY PacketsAre DEF Heard
<1>3. Len(all) \in Nat /\ \A j \in 1..Len(all) : all[j] \in Heard
  BY <1>1
<1> QED
  BY <1>2, <1>3

LEMMA InStepHas ==
  ASSUME NEW up, NEW got, NEW h, NEW c, NEW all, NEW enc, NEW rd, InStep(up, got, h, c, all, enc, rd)
  PROVE  /\ Framed(c) /\ AtHead(got, h, c) /\ Later(got, h, c, all, enc) /\ InOrder(rd, all)
         /\ (up => Whole(c)) /\ c \in Seq(Units) /\ Len(c) \in Nat /\ (Len(c) # 0 <=> c # <<>>)
<1>1. /\ Framed(c) /\ AtHead(got, h, c) /\ Later(got, h, c, all, enc) /\ InOrder(rd, all)
      /\ (up => Whole(c))
  BY DEF InStep
<1>2. c \in Seq(Units)
  BY <1>1 DEF Framed
<1> QED
  BY <1>1, <1>2

LEMMA InStepAnew ==
  ASSUME NEW h, NEW all, NEW enc \in Nat, NEW more \in Nat, NEW rd, NEW up, NEW got, NEW c,
         InStep(up, got, h, c, all, enc, rd), enc <= more
  PROVE  InStep(TRUE, FALSE, h, <<>>, all, more, rd)
<1>1. Framed(<<>>) /\ Whole(<<>>)
  BY DEF Framed, Whole
<1>2. InOrder(rd, all) /\ \A j \in 1..Len(all) : all[j].p <= enc
  BY DEF InStep, Later
<1>3. \A j \in 1..Len(all) : all[j].p <= more
  <2> SUFFICES ASSUME NEW j \in 1..Len(all) PROVE all[j].p <= more
    OBVIOUS
  <2>1. all[j].p \in Nat
    BY <1>2, HeardAre
  <2> QED
    BY <1>2, <2>1
<1>4. Later(FALSE, h, <<>>, all, more)
  BY <1>3 DEF Later
<1> QED
  BY <1>1, <1>2, <1>4 DEF InStep, AtHead

LEMMA InStepPrefix ==
  ASSUME NEW up, NEW got, NEW h, NEW c, NEW all, NEW enc, NEW rd, InStep(up, got, h, c, all, enc, rd),
         NEW d \in Seq(Units), Len(d) <= Len(c), \A j \in 1..Len(d) : d[j] = c[j]
  PROVE  InStep(FALSE, got, h, d, all, enc, rd)
<1>1. Framed(c) /\ Len(c) \in Nat /\ Len(d) \in Nat
  BY DEF InStep, Framed
<1>2. \A j \in 1..Len(d) : d[j] = c[0 + j] /\ j \in 1..Len(c)
  BY <1>1
<1>3. Framed(d)
  BY <1>1, <1>2, FramedPart
<1>4. d # <<>> => c # <<>> /\ d[1] = c[1]
  BY <1>1, <1>2
<1>5. AtHead(got, h, d)
  BY <1>4 DEF InStep, AtHead
<1>6. Later(got, h, d, all, enc)
  BY <1>2 DEF InStep, Later
<1> QED
  BY <1>3, <1>5, <1>6 DEF InStep

LEMMA InStepEncoded ==
  ASSUME NEW got, NEW h, NEW c, NEW all, NEW rd, NEW enc \in Nat, InStep(TRUE, got, h, c, all, enc, rd),
         h.p \in Nat
  PROVE  /\ enc + 1 \in Known => InStep(TRUE, got, h, c \o packetOf(enc + 1), all, enc + 1, rd)
         /\ InStep(TRUE, got, h, c, all, enc + 1, rd)
         /\ enc + 1 \in Known /\ AllThere(got, h, c, all, enc) => AllThere(got, h, c \o packetOf(enc + 1), all, enc + 1)
         /\ enc + 1 \in Unencodable /\ AllThere(got, h, c, all, enc) => AllThere(got, h, c, all, enc + 1)
<1> DEFINE k == enc + 1
           q == packetOf(k)
           d == c \o q
<1>1. /\ Framed(c) /\ Whole(c) /\ AtHead(got, h, c) /\ Later(got, h, c, all, enc) /\ InOrder(rd, all) /\ (c = <<>> => ~got)
      /\ c \in Seq(Units) /\ Len(c) \in Nat
  BY DEF InStep, Framed
<1>2. \A j \in 1..Len(c) : c[j].p \in Nat /\ c[j].p <= enc
  BY <1>1, UnitsAre DEF Later
<1>3. \A j \in 1..Len(all) : all[j].p \in Nat /\ all[j].p <= enc
  BY <1>1, HeardAre DEF Later
<1>4. Later(got, h, c, all, k)
  <2>1. \A x \in Nat : x <= enc => x <= k
    OBVIOUS
  <2> HIDE DEF k
  <2> QED
    BY <1>1, <1>2, <1>3, <2>1 DEF Later
<1>5. InStep(TRUE, got, h, c, all, k, rd)
  BY <1>1, <1>4 DEF InStep
<1>6. ASSUME k \in Known
      PROVE  /\ InStep(TRUE, got, h, d, all, k, rd)
             /\ AllThere(got, h, c, all, enc) => AllThere(got, h, d, all, k)
  <2>1. \A j \in 1..Len(c) : c[j].p < k
    BY <1>2
  <2>2. Framed(d) /\ Whole(d) /\ d # <<>>
    BY <1>1, <1>6, <2>1, FramedMore
  <2>3. q \in Seq(Units) /\ Len(q) = k + 2 /\ \A i \in 1..k + 2 : q[i].p = k /\ q[i].i = i
    <3>1. q \in Seq(Units) /\ Len(q) = k + HeaderLen /\ \A i \in 1..k + HeaderLen : q[i] = unitOf(k, i)
      BY <1>6, PacketOfIs
    <3>2. \A i \in 1..k + HeaderLen : unitOf(k, i).p = k /\ unitOf(k, i).i = i
      BY <1>6, UnitOfIs
    <3> QED
      BY <3>1, <3>2 DEF HeaderLen
  <2> HIDE DEF q
  <2>4. /\ d \in Seq(Units) /\ Len(d) = Len(c) + Len(q)
        /\ \A i \in 1..Len(c) + Len(q) : d[i] = IF i <= Len(c) THEN c[i] ELSE q[i - Len(c)]
    BY <1>1, <2>3, ConcatProperties
  <2> HIDE DEF d
  <2>5. ASSUME NEW l \in 1..Len(d)
        PROVE  (l \in 1..Len(c) /\ d[l] = c[l]) \/ (l - Len(c) \in 1..k + 2 /\ d[l] = q[l - Len(c)])
    <3>0. Len(q) \in Nat /\ l \in 1..Len(c) + Len(q) /\ l \in Int /\ Len(q) = k + 2
      BY <1>1, <2>3, <2>4
    <3>1. CASE l <= Len(c)
      <4>1. l \in 1..Len(c)
        BY <1>1, <3>0, <3>1
      <4> QED
        BY <2>4, <3>0, <3>1, <4>1
    <3>2. CASE ~(l <= Len(c))
      <4>1. l - Len(c) \in 1..Len(q)
        BY <1>1, <3>0, <3>2
      <4>2. d[l] = q[l - Len(c)]
        BY <2>4, <3>0, <3>2
      <4>3. l - Len(c) \in 1..k + 2
        BY <3>0, <4>1
      <4> QED
        BY <4>2, <4>3
    <3> QED
      BY <3>1, <3>2
  <2>6. \A l \in 1..Len(d) : (l \in 1..Len(c) /\ d[l] = c[l]) \/ d[l].p = k
    BY <2>3, <2>5
  <2>7. \A l \in 1..Len(c) : l \in 1..Len(d) /\ d[l] = c[l]
    BY <1>1, <2>3, <2>4
  <2>8. AtHead(got, h, d)
    <3>1. CASE c # <<>>
      <4>1. 1 \in 1..Len(c)
        BY <1>1, <3>1
      <4>2. d[1] = c[1]
        BY <2>7, <4>1
      <4> QED
        BY <1>1, <3>1, <4>2 DEF AtHead
    <3>2. CASE c = <<>>
      <4>1. Len(c) = 0 /\ ~got
        BY <1>1, <3>2
      <4>2. d[1] = q[1] /\ 1 \in 1..k + 2
        <5>1. 1 \in 1..Len(c) + Len(q) /\ ~(1 <= Len(c)) /\ 1 - Len(c) = 1
          BY <2>3, <4>1
        <5>2. d[1] = q[1]
          BY <2>4, <5>1
        <5> QED
          BY <5>2
      <4>3. d[1].i = 1
        BY <2>3, <4>2
      <4> QED
        BY <4>1, <4>3 DEF AtHead
    <3> QED
      BY <3>1, <3>2
  <2>9. Later(got, h, d, all, k)
    <3>1. \A j \in 1..Len(all) : all[j].p < k
      BY <1>3
    <3>2. k <= k
      OBVIOUS
    <3> HIDE DEF k
    <3> QED
      BY <1>4, <2>6, <3>1, <3>2 DEF Later
  <2>10. InStep(TRUE, got, h, d, all, k, rd)
    BY <1>1, <2>2, <2>8, <2>9 DEF InStep
  <2>11. ASSUME AllThere(got, h, c, all, enc) PROVE AllThere(got, h, d, all, k)
    <3> SUFFICES ASSUME NEW e \in 1..k, e \notin Unencodable
                 PROVE  (\E j \in 1..Len(all) : all[j].p = e) \/ (got /\ h.p = e) \/ (\E j \in 1..Len(d) : d[j].p = e)
      BY DEF AllThere
    <3>1. CASE e = k
      <4>1. Len(c) + 1 \in 1..Len(d) /\ ~(Len(c) + 1 <= Len(c)) /\ (Len(c) + 1) - Len(c) = 1 /\ 1 \in 1..k + 2
        BY <1>1, <2>3, <2>4
      <4>2. d[Len(c) + 1] = q[1]
        BY <2>4, <4>1
      <4> QED
        BY <2>3, <3>1, <4>1, <4>2
    <3>2. CASE e # k
      <4>1. e \in 1..enc
        BY <3>2
      <4>2. (\E j \in 1..Len(all) : all[j].p = e) \/ (got /\ h.p = e) \/ (\E j \in 1..Len(c) : c[j].p = e)
        BY <2>11, <4>1 DEF AllThere
      <4> QED
        BY <2>7, <4>2
    <3> QED
      BY <3>1, <3>2
  <2> QED
    BY <2>10, <2>11
<1>7. ASSUME k \in Unencodable, AllThere(got, h, c, all, enc) PROVE AllThere(got, h, c, all, k)
  <2>1. \A e \in 1..k : e = k \/ e \in 1..enc
    OBVIOUS
  <2> HIDE DEF k
  <2> QED
    BY <1>7, <2>1 DEF AllThere
<1> HIDE DEF k
<1>8. enc + 1 = k
  BY DEF k
<1> QED
  BY <1>5, <1>6, <1>7, <1>8 DEF d, q

\* The stream without its first m units.
LEMMA FramedDrop ==
  ASSUME NEW c, Framed(c), NEW m \in 0..Len(c)
  PROVE  /\ Framed(B!drop(c, m)) /\ Len(B!drop(c, m)) = Len(c) - m /\ Len(c) \in Nat
         /\ \A j \in 1..Len(c) - m : B!drop(c, m)[j] = c[m + j] /\ m + j \in 1..Len(c)
         /\ Whole(c) => Whole(B!drop(c, m))
<1> DEFINE d == B!drop(c, m)
<1>1. c \in Seq(Units) /\ Len(c) \in Nat /\ m \in Nat
  BY DEF Framed
<1>2. d \in Seq(Units) /\ Len(d) = Len(c) - m /\ \A j \in 1..Len(c) - m : d[j] = c[m + j]
  BY <1>1, DropIs
<1> HIDE DEF d
<1>3. Framed(d)
  <2>1. m + Len(d) <= Len(c) /\ \A j \in 1..Len(d) : d[j] = c[m + j]
    BY <1>1, <1>2
  <2> QED
    BY <1>1, <1>2, <2>1, FramedPart
<1>4. \A j \in 1..Len(c) - m : m + j \in 1..Len(c)
  BY <1>1
<1>5. ASSUME Whole(c) PROVE Whole(d)
  <2> SUFFICES ASSUME d # <<>> PROVE d[Len(d)].i = d[Len(d)].p + HeaderLen
    BY DEF Whole
  <2>1. Len(d) \in 1..Len(c) - m /\ m + Len(d) = Len(c) /\ c # <<>>
    BY <1>1, <1>2
  <2>2. d[Len(d)] = c[Len(c)]
    BY <1>2, <2>1
  <2> QED
    BY <1>5, <2>1, <2>2 DEF Whole
<1> QED
  BY <1>1, <1>2, <1>3, <1>4, <1>5 DEF d

LEMMA InStepHeader ==
  ASSUME NEW up, NEW h, NEW c, NEW all, NEW enc \in Nat, NEW rd, InStep(up, FALSE, h, c, all, enc, rd),
         Len(c) >= 2, NEW g, g = [p |-> c[1].p, len |-> c[2].n]
  PROVE  /\ c[1].i = 1 /\ InStep(up, TRUE, g, B!drop(c, 2), all, enc, rd)
         /\ AllThere(FALSE, h, c, all, enc) => AllThere(TRUE, g, B!drop(c, 2), all, enc)
<1> DEFINE k == c[1].p
           d == B!drop(c, 2)
<1>1. /\ Framed(c) /\ AtHead(FALSE, h, c) /\ Later(FALSE, h, c, all, enc) /\ InOrder(rd, all)
      /\ (up => Whole(c)) /\ c \in Seq(Units) /\ Len(c) \in Nat /\ c # <<>>
  <2>1. /\ Framed(c) /\ AtHead(FALSE, h, c) /\ Later(FALSE, h, c, all, enc) /\ InOrder(rd, all)
        /\ (up => Whole(c)) /\ c \in Seq(Units) /\ Len(c) \in Nat /\ (Len(c) # 0 <=> c # <<>>)
    BY InStepHas
  <2>2. Len(c) # 0
    OBVIOUS
  <2> QED
    BY <2>1, <2>2
<1>2. c[1].i = 1
  BY <1>1 DEF AtHead
<1>3. 1 \in 1..Len(c) /\ 2 \in 1..Len(c) /\ 2 \in 0..Len(c)
  BY <1>1
<1>4. /\ k \in Known /\ k \in Nat /\ 1 <= k
      /\ \A j \in 1..Len(c) : k <= c[j].p /\ (j <= k + 2 => c[j] = unitOf(k, j))
  <2>1. ASSUME NEW j \in 1..Len(c)
        PROVE  k \in Known /\ k \in Nat /\ 1 <= k /\ k <= c[j].p /\ (j <= k + 2 => c[j] = unitOf(k, j))
    BY <1>1, <1>2, FromHeader
  <2> QED
    BY <1>3, <2>1
<1>5. g.p = k /\ g.len = k
  <2>1. c[2] = unitOf(k, 2)
    <3>1. 2 <= k + 2
      BY <1>4
    <3> QED
      BY <1>3, <1>4, <3>1
  <2>2. c[2].n = k
    BY <2>1 DEF unitOf, unit
  <2> QED
    BY <2>2
<1>6. /\ Framed(d) /\ Len(d) = Len(c) - 2 /\ (\A j \in 1..Len(c) - 2 : d[j] = c[2 + j] /\ 2 + j \in 1..Len(c))
      /\ (up => Whole(d))
  BY <1>1, <1>3, FramedDrop
<1> HIDE DEF d, k
<1>7. \A l \in 1..Len(d) : d[l] = c[2 + l] /\ 2 + l \in 1..Len(c)
  BY <1>6
<1>8. AtHead(TRUE, g, d)
  <2>1. ASSUME d # <<>> PROVE d[1].p = k /\ d[1].i = 3
    <3>1. 1 \in 1..Len(d)
      BY <1>6, <2>1 DEF Framed
    <3>2. d[1] = c[3] /\ 3 \in 1..Len(c)
      BY <1>7, <3>1
    <3>3. c[3] = unitOf(k, 3)
      <4>1. 3 <= k + 2
        BY <1>4
      <4> QED
        BY <1>4, <3>2, <4>1
    <3> QED
      BY <3>2, <3>3 DEF unitOf, unit
  <2> QED
    BY <1>4, <1>5, <2>1 DEF AtHead
<1>9. Later(TRUE, g, d, all, enc)
  <2>1. k <= enc /\ \A j \in 1..Len(all) : all[j].p < k
    BY <1>1, <1>3 DEF Later, k
  <2> QED
    BY <1>1, <1>5, <1>7, <2>1 DEF Later
<1>10. up => Whole(d) /\ (d = <<>> => ~TRUE)
  <2> SUFFICES ASSUME up, d = <<>> PROVE FALSE
    BY <1>6
  <2>1. Len(c) = 2
    BY <1>1, <1>6
  <2>2. Whole(c) /\ c[2] = unitOf(k, 2)
    <3>1. 2 <= k + 2
      BY <1>4
    <3> QED
      BY <1>1, <1>3, <1>4, <3>1
  <2>3. c[2].i = 2 /\ c[2].p = k
    BY <2>2 DEF unitOf, unit
  <2>4. c[2].i = c[2].p + 2
    BY <1>1, <2>1, <2>2 DEF Whole, HeaderLen
  <2> QED
    BY <1>4, <2>3, <2>4
<1>11. InStep(up, TRUE, g, d, all, enc, rd)
  BY <1>1, <1>6, <1>8, <1>9, <1>10 DEF InStep
<1>12. ASSUME AllThere(FALSE, h, c, all, enc) PROVE AllThere(TRUE, g, d, all, enc)
  <2> SUFFICES ASSUME NEW e \in 1..enc, e \notin Unencodable
               PROVE  (\E j \in 1..Len(all) : all[j].p = e) \/ g.p = e \/ (\E j \in 1..Len(d) : d[j].p = e)
    BY DEF AllThere
  <2>1. (\E j \in 1..Len(all) : all[j].p = e) \/ (\E j \in 1..Len(c) : c[j].p = e)
    BY <1>12 DEF AllThere
  <2>2. ASSUME NEW j \in 1..Len(c), c[j].p = e PROVE g.p = e \/ (\E l \in 1..Len(d) : d[l].p = e)
    <3>1. CASE j <= 2
      <4>1. c[j] = unitOf(k, j)
        <5>1. j <= k + 2
          BY <1>4, <3>1
        <5> QED
          BY <1>4, <5>1
      <4> QED
        BY <1>5, <2>2, <4>1 DEF unitOf, unit
    <3>2. CASE j > 2
      <4>1. j - 2 \in 1..Len(d) /\ 2 + (j - 2) = j
        BY <1>1, <1>6, <3>2
      <4>2. d[j - 2] = c[j]
        BY <1>7, <4>1
      <4> QED
        BY <2>2, <4>1, <4>2
    <3> QED
      BY <3>1, <3>2
  <2> QED
    BY <2>1, <2>2
<1> QED
  BY <1>2, <1>11, <1>12 DEF d

\* t is s with x after its first m elements.
Inserted(s, x, m, t) ==
  /\ m \in 0..Len(s) /\ t[m + 1] = x /\ m + 1 \in 1..Len(t)
  /\ \A j \in 1..Len(s) : LET a == IF j <= m THEN j ELSE j + 1 IN a \in 1..Len(t) /\ t[a] = s[j]
  /\ \A j \in 1..Len(t) : j # m + 1 => LET a == IF j <= m THEN j ELSE j - 1 IN a \in 1..Len(s) /\ t[j] = s[a]

LEMMA InOrderMore ==
  ASSUME NEW rd, NEW all, InOrder(rd, all), NEW x \in Heard, NEW m, NEW more \in Seq(Heard), Inserted(all, x, m, more),
         x.how # "corrupt", m = Len(all) \/ (rd = "batch" /\ x.how = "bad"),
         \A j \in 1..Len(all) : all[j].p < x.p
  PROVE  InOrder(rd, more)
<1>1. /\ Len(all) \in Nat /\ Len(more) \in Nat /\ m \in Int /\ more[m + 1] = x
      /\ \A j \in 1..Len(all) : all[j].p # x.p /\ all[j].p < x.p
  <2>1. \A j \in 1..Len(all) : all[j].p \in Nat
    BY HeardAre
  <2>2. x.p \in Nat
    BY PacketsAre DEF Heard
  <2> QED
    BY <2>1, <2>2, HeardAre DEF Inserted
<1> DEFINE was(j) == IF j <= m THEN j ELSE j - 1
<1>2. \A j \in 1..Len(more) : j # m + 1 => was(j) \in 1..Len(all) /\ more[j] = all[was(j)]
  BY DEF Inserted
<1>3. ASSUME NEW j \in 1..Len(more) PROVE more[j].how # "corrupt"
  BY <1>1, <1>2 DEF InOrder
<1>4. ASSUME NEW l \in 1..Len(more), NEW j \in 1..Len(more), l < j
      PROVE  /\ more[l].p # more[j].p
             /\ (rd = "batch" /\ "bad" \in {more[l].how, more[j].how}) \/ more[l].p < more[j].p
  <2>1. CASE l # m + 1 /\ j # m + 1
    <3>1. was(l) < was(j)
      BY <1>1, <1>4, <2>1
    <3>2. was(l) \in 1..Len(all) /\ was(j) \in 1..Len(all) /\ more[l] = all[was(l)] /\ more[j] = all[was(j)]
      BY <1>2, <2>1
    <3> HIDE DEF was
    <3> QED
      BY <3>1, <3>2 DEF InOrder
  <2>2. CASE l # m + 1 /\ j = m + 1
    <3>1. was(l) \in 1..Len(all) /\ more[l] = all[was(l)]
      BY <1>2, <2>2
    <3> HIDE DEF was
    <3> QED
      BY <1>1, <2>2, <3>1
  <2>3. CASE l = m + 1
    <3>1. j # m + 1 /\ ~(j <= m) /\ j \in Int
      BY <1>1, <1>4, <2>3
    <3>2. was(j) = j - 1 /\ was(j) \in 1..Len(all) /\ more[j] = all[was(j)]
      BY <1>2, <3>1
    <3>3. m # Len(all)
      BY <1>1, <1>4, <2>3, <3>1, <3>2
    <3> HIDE DEF was
    <3> QED
      BY <1>1, <2>3, <3>2, <3>3
  <2> QED
    BY <2>1, <2>2, <2>3
<1> QED
  BY <1>3, <1>4 DEF InOrder

LEMMA InStepBody ==
  ASSUME NEW up, NEW h, NEW c, NEW all, NEW enc \in Nat, NEW rd, InStep(up, TRUE, h, c, all, enc, rd),
         Len(c) >= h.len, NEW g, NEW x \in Heard, x.p = h.p, x.how # "corrupt",
         NEW m, NEW more \in Seq(Heard), Inserted(all, x, m, more), m = Len(all) \/ (rd = "batch" /\ x.how = "bad")
  PROVE  /\ InStep(up, FALSE, g, B!drop(c, h.len), more, enc, rd)
         /\ AllThere(TRUE, h, c, all, enc) => AllThere(FALSE, g, B!drop(c, h.len), more, enc)
<1> DEFINE k == h.len
           d == B!drop(c, k)
<1>1. /\ Framed(c) /\ AtHead(TRUE, h, c) /\ Later(TRUE, h, c, all, enc) /\ InOrder(rd, all)
      /\ (up => Whole(c)) /\ c \in Seq(Units) /\ Len(c) \in Nat
  BY InStepHas
<1>2. h.p = k /\ k \in Known /\ k \in Nat /\ 1 <= k /\ c # <<>> /\ Len(c) >= k
  <2>1. h.p = k /\ k \in Known
    BY <1>1 DEF AtHead
  <2> HIDE DEF k
  <2>2. k \in Nat /\ 1 <= k
    BY <2>1, PacketsAre
  <2>3. Len(c) >= k
    BY DEF k
  <2> QED
    BY <1>1, <2>1, <2>2, <2>3
<1>3. c[1].p = k /\ c[1].i = 3
  BY <1>1, <1>2 DEF AtHead
<1> HIDE DEF k
<1>4. \A j \in 1..Len(c) :
         /\ j <= k => c[j].p = k
         /\ j > k => k < c[j].p
         /\ j = k + 1 => c[j].i = 1
  <2> SUFFICES ASSUME NEW j \in 1..Len(c)
               PROVE  /\ j <= k => c[j].p = k
                      /\ j > k => k < c[j].p
                      /\ j = k + 1 => c[j].i = 1
    OBVIOUS
  <2>1. /\ j <= k => c[j] = unitOf(k, j + 2)
        /\ j > k => k < c[j].p
        /\ j = k + 1 => c[j].i = 1
    BY <1>1, <1>2, <1>3, FromBody
  <2>2. unitOf(k, j + 2).p = k
    BY DEF unitOf, unit
  <2> QED
    BY <2>1, <2>2
<1>5. k \in 0..Len(c)
  BY <1>1, <1>2
<1>6. /\ Framed(d) /\ Len(d) = Len(c) - k /\ (\A j \in 1..Len(c) - k : d[j] = c[k + j] /\ k + j \in 1..Len(c))
      /\ (up => Whole(d))
  BY <1>1, <1>5, FramedDrop
<1> HIDE DEF d
<1>7. \A l \in 1..Len(d) : d[l] = c[k + l] /\ k + l \in 1..Len(c)
  BY <1>6
<1>8. \A l \in 1..Len(d) : k < d[l].p
  <2> SUFFICES ASSUME NEW l \in 1..Len(d) PROVE k < d[l].p
    OBVIOUS
  <2> DEFINE a == k + l
  <2>1. a > k /\ d[l] = c[a] /\ a \in 1..Len(c)
    BY <1>2, <1>7
  <2> HIDE DEF a
  <2> QED
    BY <1>2, <1>4, <2>1
<1>9. AtHead(FALSE, g, d)
  <2>1. ASSUME d # <<>> PROVE d[1].i = 1
    <3>1. 1 \in 1..Len(d)
      BY <1>6, <2>1 DEF Framed
    <3> DEFINE a == k + 1
    <3>2. d[1] = c[a] /\ a \in 1..Len(c) /\ a = k + 1
      BY <1>2, <1>7, <3>1
    <3> HIDE DEF a
    <3> QED
      BY <1>2, <1>4, <3>2
  <2> QED
    BY <2>1 DEF AtHead
<1>10. /\ k <= enc
       /\ \A j \in 1..Len(all) : /\ all[j].p < k /\ all[j].p <= enc
                                 /\ \A l \in 1..Len(c) : all[j].p < c[l].p
       /\ \A l \in 1..Len(c) : c[l].p <= enc
  BY <1>1, <1>2 DEF Later
<1>11. \A j \in 1..Len(more) : more[j] = x \/ \E i \in 1..Len(all) : more[j] = all[i]
  BY DEF Inserted
<1>12. x.p = k
  BY <1>2
<1>13. Later(FALSE, g, d, more, enc)
  BY <1>7, <1>8, <1>10, <1>11, <1>12 DEF Later
<1>14. InOrder(rd, more)
  BY <1>1, <1>10, <1>12, InOrderMore
<1>15. InStep(up, FALSE, g, d, more, enc, rd)
  BY <1>6, <1>9, <1>13, <1>14 DEF InStep
<1>16. ASSUME AllThere(TRUE, h, c, all, enc) PROVE AllThere(FALSE, g, d, more, enc)
  <2> SUFFICES ASSUME NEW e \in 1..enc, e \notin Unencodable
               PROVE  (\E j \in 1..Len(more) : more[j].p = e) \/ (\E j \in 1..Len(d) : d[j].p = e)
    BY DEF AllThere
  <2>1. (\E j \in 1..Len(all) : all[j].p = e) \/ h.p = e \/ (\E j \in 1..Len(c) : c[j].p = e)
    BY <1>16 DEF AllThere
  <2>2. \A j \in 1..Len(all) : \E i \in 1..Len(more) : more[i] = all[j]
    BY DEF Inserted
  <2>3. h.p = e => \E i \in 1..Len(more) : more[i].p = e
    BY DEF Inserted
  <2>4. ASSUME NEW j \in 1..Len(c), c[j].p = e PROVE h.p = e \/ (\E l \in 1..Len(d) : d[l].p = e)
    <3>1. CASE j <= k
      <4>1. c[j].p = k
        BY <1>2, <1>4, <3>1
      <4> QED
        BY <1>2, <2>4, <4>1
    <3>2. CASE j > k
      <4>1. j - k \in 1..Len(d) /\ k + (j - k) = j
        BY <1>1, <1>2, <1>6, <3>2
      <4>2. d[j - k] = c[j]
        BY <1>7, <4>1
      <4> QED
        BY <2>4, <4>1, <4>2
    <3> QED
      BY <1>2, <3>1, <3>2
  <2> QED
    BY <2>1, <2>2, <2>3, <2>4
<1>17. B!drop(c, h.len) = d
  BY DEF d, k
<1> QED
  BY <1>15, <1>16, <1>17

\* The body of a packet at the head of the stream.
LEMMA BodyIs ==
  ASSUME NEW up, NEW h, NEW c, NEW all, NEW enc, NEW rd, InStep(up, TRUE, h, c, all, enc, rd), Len(c) >= h.len
  PROVE  /\ h.len \in Nat /\ 1 <= h.len /\ h.p = h.len /\ c[1].n = h.len - 1
         /\ \A j \in 2..h.len : c[j] = unit(h.len, j + 2, 0)
<1> DEFINE k == h.len
<1>1. Framed(c) /\ AtHead(TRUE, h, c) /\ Len(c) \in Nat /\ (Len(c) # 0 <=> c # <<>>)
  BY InStepHas
<1>2. h.p = k /\ k \in Known
  BY <1>1 DEF AtHead
<1> HIDE DEF k
<1>3. k \in Nat /\ 1 <= k
  BY <1>2, PacketsAre
<1>4. Len(c) >= k
  BY DEF k
<1>5. c # <<>>
  BY <1>1, <1>3, <1>4
<1>6. c[1].p = k /\ c[1].i = 3
  BY <1>1, <1>2, <1>5 DEF AtHead
<1>7. ASSUME NEW j \in 1..Len(c), j <= k PROVE c[j] = unitOf(k, j + 2)
  BY <1>1, <1>5, <1>6, <1>7, FromBody
<1>8. c[1].n = k - 1
  <2>1. 1 \in 1..Len(c) /\ 1 + 2 = 3
    BY <1>1, <1>3, <1>4
  <2>2. c[1] = unitOf(k, 3)
    BY <1>3, <1>7, <2>1
  <2> QED
    BY <2>2 DEF unitOf, unit
<1>9. ASSUME NEW j \in 2..k PROVE c[j] = unit(k, j + 2, 0)
  <2>1. j \in 1..Len(c) /\ j <= k /\ j + 2 # 2 /\ j + 2 # 3
    BY <1>1, <1>3, <1>4
  <2>2. c[j] = unitOf(k, j + 2)
    BY <1>7, <2>1
  <2> QED
    BY <2>1, <2>2 DEF unitOf
<1>10. h.len = k
  BY DEF k
<1> QED
  BY <1>2, <1>3, <1>8, <1>9, <1>10

-----------------------------------------------------------------------------
(* What encode() writes, and what moves from buffer to buffer *)

\* Concatenation, to be used without its definition.
Joined(s, t) == s \o t
IsOver(U, s) == s \in Seq(U)

LEMMA JoinedIs ==
  ASSUME NEW U, NEW a, NEW b, NEW c, IsOver(U, a), IsOver(U, b), IsOver(U, c)
  PROVE  Joined(Joined(a, b), c) = Joined(a, Joined(b, c)) /\ IsOver(U, Joined(a, b))
<1>1. a \in Seq(U) /\ b \in Seq(U) /\ c \in Seq(U)
  BY DEF IsOver
<1>2. (a \o b) \o c = a \o (b \o c)
  BY ONLY <1>1, SequencesAssociate
<1>3. a \o b \in Seq(U)
  BY <1>1
<1> QED
  BY <1>2, <1>3 DEF Joined, IsOver

LEMMA MovedOn ==
  ASSUME NEW U, NEW a, NEW t, NEW d, NEW b, IsOver(U, a), IsOver(U, t), IsOver(U, d), b = Joined(t, d)
  PROVE  Joined(Joined(a, t), d) = Joined(a, b)
BY JoinedIs

LEMMA MovedOut ==
  ASSUME NEW U, NEW a, NEW b, NEW t, NEW d, NEW c,
         IsOver(U, a), IsOver(U, b), IsOver(U, t), IsOver(U, d), c = Joined(t, d)
  PROVE  Joined(Joined(a, Joined(b, t)), d) = Joined(Joined(a, b), c)
<1>1. Joined(Joined(a, b), t) = Joined(a, Joined(b, t)) /\ IsOver(U, Joined(a, b))
  BY JoinedIs
<1>2. Joined(Joined(Joined(a, b), t), d) = Joined(Joined(a, b), Joined(t, d))
  BY <1>1, JoinedIs
<1> QED
  BY <1>1, <1>2

LEMMA ContentIs ==
  ASSUME NEW k \in 1..MaxPacket
  PROVE  /\ contentOf(k) \in Seq(Units) /\ Len(contentOf(k)) = k - 1 /\ k \in Nat /\ MaxPacket \in Nat
         /\ \A j \in 1..k - 1 : contentOf(k)[j] = unit(k, 3 + j, 0)
         /\ unit(k, 1, 0) \in Units /\ unit(k, 2, 0) \in Units /\ unit(k, 3, k - 1) \in Units
<1>1. k \in Nat /\ 1 <= k /\ k <= MaxPacket /\ MaxPacket \in Nat /\ k - 1 \in Nat
  BY PacketStreamAssumption
<1>2. \A i \in 1..k + 2 : \A n \in 0..MaxPacket : unit(k, i, n) \in Units
  BY <1>1 DEF unit, Units, HeaderLen
<1>3. \A j \in 1..k - 1 : 3 + j \in 1..k + 2 /\ HeaderLen + 1 + j = 3 + j
  BY <1>1 DEF HeaderLen
<1>4. 0 \in 0..MaxPacket /\ k - 1 \in 0..MaxPacket /\ 1 \in 1..k + 2 /\ 2 \in 1..k + 2 /\ 3 \in 1..k + 2
  BY <1>1
<1>5. contentOf(k) = [j \in 1..k - 1 |-> unit(k, 3 + j, 0)]
  BY <1>3 DEF contentOf
<1>6. \A j \in 1..k - 1 : unit(k, 3 + j, 0) \in Units
  BY <1>2, <1>3, <1>4
<1>7. [j \in 1..k - 1 |-> unit(k, 3 + j, 0)] \in Seq(Units) /\ Len([j \in 1..k - 1 |-> unit(k, 3 + j, 0)]) = k - 1
  BY <1>1, <1>6, IsASeq
<1> QED
  BY <1>1, <1>2, <1>4, <1>5, <1>7

LEMMA HeadWritten ==
  ASSUME NEW b, Fits(b), NEW k \in 1..MaxPacket
  PROVE  LET headed == B!writeInt(B!writeInt(b, unit(k, 1, 0)), unit(k, 2, 0))
         IN Fits(headed) /\ headed.data = (b.data \o <<unit(k, 1, 0)>>) \o <<unit(k, 2, 0)>>
<1> DEFINE e == B!writeInt(b, unit(k, 1, 0))
           u == unit(k, 2, 0)
<1>1. Fits(e) /\ e.data = b.data \o <<unit(k, 1, 0)>> /\ u \in Units
  BY ContentIs, WriteIntFits
<1> HIDE DEF e, u
<1>2. Fits(B!writeInt(e, u)) /\ B!writeInt(e, u).data = e.data \o <<u>>
  BY <1>1, WriteIntFits
<1> QED
  BY <1>1, <1>2 DEF e, u

LEMMA FillFits ==
  ASSUME NEW b, Fits(b), NEW at \in 1..Len(b.data), NEW n \in 0..MaxPacket
  PROVE  /\ Fits(B!fillInt(b, at, n)) /\ Len(B!fillInt(b, at, n).data) = Len(b.data)
         /\ \A j \in 1..Len(b.data) : B!fillInt(b, at, n).data[j] = IF j = at THEN [b.data[j] EXCEPT !.n = n] ELSE b.data[j]
<1> DEFINE v == [b.data[at] EXCEPT !.n = n]
           d == [b.data EXCEPT ![at] = v]
<1>1. B!fillInt(b, at, n) = [b EXCEPT !.data = d]
  <2>1. PICK x, y, z : b = [size |-> x, start |-> y, data |-> z]
    BY DEF Fits, Buffers
  <2> QED
    BY <2>1 DEF B!fillInt
<1>2. b.data \in Seq(Units) /\ b.size \in Nat /\ b.start \in Nat /\ b.start + Len(b.data) <= b.size /\ b \in Buffers
  BY Fitted DEF Fits
<1>3. v \in Units
  <2>1. b.data[at] \in Units
    BY <1>2
  <2> QED
    BY <2>1 DEF Units
<1> HIDE DEF v
<1>4. d \in Seq(Units) /\ Len(d) = Len(b.data) /\ \A j \in 1..Len(b.data) : d[j] = IF j = at THEN v ELSE b.data[j]
  BY <1>2, <1>3, ExceptSeq
<1> HIDE DEF d
<1>5. B!fillInt(b, at, n) = [size |-> b.size, start |-> b.start, data |-> d]
  BY <1>1, <1>2, DataReplaced
<1>6. Fits(B!fillInt(b, at, n)) /\ B!fillInt(b, at, n).data = d
  BY <1>2, <1>4, <1>5 DEF Fits, Buffers, B!isBuffer
<1> QED
  BY <1>4, <1>6 DEF v

LEMMA EncodeFails ==
  ASSUME NEW b, Fits(b), NEW k \in Unencodable
  PROVE  Fits(encode(b, k)) /\ encode(b, k).data = b.data
<1> DEFINE headed == B!writeInt(B!writeInt(b, unit(k, 1, 0)), unit(k, 2, 0))
           done == B!writeInt(headed, unit(k, 3, k - 1))
           p == b.data
           s == ((p \o <<unit(k, 1, 0)>>) \o <<unit(k, 2, 0)>>) \o <<unit(k, 3, k - 1)>>
<1>1. k \in 1..MaxPacket
  BY PacketStreamAssumption
<1>2. Fits(headed) /\ headed.data = (p \o <<unit(k, 1, 0)>>) \o <<unit(k, 2, 0)>>
  BY <1>1, HeadWritten
<1> HIDE DEF headed
<1>3. Fits(done) /\ done.data = s
  BY <1>1, <1>2, ContentIs, WriteIntFits
<1>4. encode(b, k) = B!stripData(done, B!dataLen(done) - B!dataLen(b))
  BY DEF encode, encodeBody, headed, HeaderLen
<1>5. p \in Seq(Units) /\ Len(p) \in Nat /\ B!dataLen(b) = Len(p)
  BY Fitted
<1> HIDE DEF done, p
<1>6. s \in Seq(Units) /\ Len(s) = Len(p) + 3 /\ SubSeq(s, 1, Len(p)) = p
  <2> DEFINE u == unit(k, 1, 0)
             v == unit(k, 2, 0)
             w == unit(k, 3, k - 1)
  <2>1. u \in Units /\ v \in Units /\ w \in Units
    BY <1>1, ContentIs
  <2> HIDE DEF u, v, w
  <2>2. s = ((p \o <<u>>) \o <<v>>) \o <<w>>
    BY DEF u, v, w
  <2>3. s \in Seq(Units) /\ Len(s) = Len(p) + 3 /\ \A j \in 1..Len(p) : s[j] = p[j]
    BY <1>5, <2>1, <2>2
  <2> HIDE DEF s
  <2>4. Len(p) \in 0..Len(s)
    BY <1>5, <2>3
  <2>5. /\ SubSeq(s, 1, Len(p)) \in Seq(Units) /\ Len(SubSeq(s, 1, Len(p))) = Len(p)
        /\ \A j \in 1..Len(p) : SubSeq(s, 1, Len(p))[j] = s[j]
    BY <2>3, <2>4, TakeIs
  <2>6. SubSeq(s, 1, Len(p)) = p
    BY <1>5, <2>3, <2>5, SeqEqual
  <2> QED
    BY <2>3, <2>6
<1> HIDE DEF s
<1>7. B!dataLen(done) = Len(p) + 3
  BY <1>3, <1>6, Fitted
<1>8. B!stripData(done, 3) = [done EXCEPT !.data = p]
  <2>1. PICK x, y, z : done = [size |-> x, start |-> y, data |-> z]
    BY <1>3 DEF Fits, Buffers
  <2>2. Len(s) - 3 = Len(p)
    BY <1>5, <1>6
  <2>3. SubSeq(done.data, 1, Len(done.data) - 3) = p
    BY <1>3, <1>6, <2>2
  <2> QED
    BY <2>1, <2>3 DEF B!stripData
<1>9. B!dataLen(done) - B!dataLen(b) = 3
  BY <1>5, <1>7
<1>10. encode(b, k) = [size |-> done.size, start |-> done.start, data |-> p]
  BY <1>3, <1>4, <1>8, <1>9, DataReplaced DEF Fits
<1>11. /\ done.size \in Nat /\ done.start \in Nat /\ done.start + Len(done.data) <= done.size
       /\ Len(done.data) = Len(p) + 3
  BY <1>3, <1>6, Fitted
<1> QED
  BY <1>5, <1>10, <1>11 DEF Fits, Buffers, B!isBuffer, p

LEMMA EncodeWorks ==
  ASSUME NEW b, Fits(b), NEW k \in Known
  PROVE  Fits(encode(b, k)) /\ encode(b, k).data = b.data \o packetOf(k)
<1> DEFINE headed == B!writeInt(B!writeInt(b, unit(k, 1, 0)), unit(k, 2, 0))
           done == encodeBody(headed, k)
           p == b.data
           q == contentOf(k)
           l == unit(k, 3, k - 1)
<1>1. k \in 1..MaxPacket /\ k \notin Unencodable
  BY DEF Known
<1>2. Fits(headed) /\ headed.data = (p \o <<unit(k, 1, 0)>>) \o <<unit(k, 2, 0)>>
  BY <1>1, HeadWritten
<1> HIDE DEF headed
<1>3. q \in Seq(Units) /\ Len(q) = k - 1 /\ l \in Units /\ k \in Nat /\ k > 0 /\ \A j \in 1..k - 1 : q[j] = unit(k, 3 + j, 0)
  BY <1>1, ContentIs
<1> HIDE DEF q, l
<1>4. Fits(done) /\ done.data = (headed.data \o <<l>>) \o q
  <2>1. done = IF isString(k) THEN B!writeString(headed, l, q) ELSE B!writeVector(headed, l, q)
    BY <1>1 DEF encodeBody, l, q, HeaderLen
  <2>2. Fits(B!writeString(headed, l, q)) /\ B!writeString(headed, l, q).data = (headed.data \o <<l>>) \o q
    BY <1>2, <1>3, WriteStringFits
  <2>3. Fits(B!writeVector(headed, l, q)) /\ B!writeVector(headed, l, q).data = (headed.data \o <<l>>) \o q
    BY <1>2, <1>3, WriteVectorFits
  <2> QED
    BY <2>1, <2>2, <2>3
<1>5. encode(b, k) = B!fillInt(done, B!dataLen(b) + HeaderLen, filledLen(done, B!dataLen(b)))
  BY <1>1 DEF encode, headed
<1>6. p \in Seq(Units) /\ Len(p) \in Nat /\ B!dataLen(b) = Len(p)
  BY Fitted
<1> HIDE DEF done, p
<1> DEFINE u == unit(k, 1, 0)
           v == unit(k, 2, 0)
           s == (((p \o <<u>>) \o <<v>>) \o <<l>>) \o q
<1>7. u \in Units /\ v \in Units
  BY <1>1, ContentIs
<1>8. done.data = s
  BY <1>2, <1>4
<1> HIDE DEF u, v
<1>9. /\ s \in Seq(Units) /\ Len(s) = Len(p) + 3 + (k - 1)
      /\ \A j \in 1..Len(p) : s[j] = p[j]
      /\ s[Len(p) + 1] = u /\ s[Len(p) + 2] = v /\ s[Len(p) + 3] = l
      /\ \A j \in 1..k - 1 : s[Len(p) + 3 + j] = q[j]
  <2> DEFINE r == ((p \o <<u>>) \o <<v>>) \o <<l>>
  <2>1. /\ r \in Seq(Units) /\ Len(r) = Len(p) + 3 /\ \A j \in 1..Len(p) : r[j] = p[j]
        /\ r[Len(p) + 1] = u /\ r[Len(p) + 2] = v /\ r[Len(p) + 3] = l
    BY <1>3, <1>6, <1>7
  <2> HIDE DEF r
  <2>2. s = r \o q
    BY DEF r
  <2> HIDE DEF s
  <2>3. /\ s \in Seq(Units) /\ Len(s) = Len(r) + Len(q)
        /\ \A j \in 1..Len(r) + Len(q) : s[j] = IF j <= Len(r) THEN r[j] ELSE q[j - Len(r)]
    BY <1>3, <2>1, <2>2, ConcatProperties
  <2>4. \A j \in 1..Len(p) + 3 : s[j] = r[j]
    <3> SUFFICES ASSUME NEW j \in 1..Len(p) + 3 PROVE s[j] = r[j]
      OBVIOUS
    <3>1. j \in 1..Len(r) + Len(q) /\ j <= Len(r)
      BY <1>3, <1>6, <2>1
    <3> QED
      BY <2>3, <3>1
  <2>5. \A j \in 1..k - 1 : s[Len(p) + 3 + j] = q[j]
    <3> SUFFICES ASSUME NEW j \in 1..k - 1 PROVE s[Len(p) + 3 + j] = q[j]
      OBVIOUS
    <3> DEFINE a == Len(p) + 3 + j
    <3>1. a \in 1..Len(r) + Len(q) /\ ~(a <= Len(r)) /\ a - Len(r) = j
      BY <1>3, <1>6, <2>1
    <3> HIDE DEF a
    <3>2. s[a] = q[j]
      BY <2>3, <3>1
    <3> QED
      BY <3>2 DEF a
  <2>6. /\ \A j \in 1..Len(p) : j \in 1..Len(p) + 3
        /\ Len(p) + 1 \in 1..Len(p) + 3 /\ Len(p) + 2 \in 1..Len(p) + 3 /\ Len(p) + 3 \in 1..Len(p) + 3
    BY <1>6
  <2> QED
    BY <1>3, <2>1, <2>3, <2>4, <2>5, <2>6
<1> HIDE DEF s
<1>10. B!dataLen(done) = Len(p) + 2 + k
  BY <1>3, <1>4, <1>6, <1>8, <1>9, Fitted
<1>11. filledLen(done, B!dataLen(b)) = k /\ B!dataLen(b) + HeaderLen = Len(p) + 2
  BY <1>3, <1>6, <1>10 DEF filledLen, HeaderLen
<1> DEFINE at == Len(p) + 2
           f == B!fillInt(done, at, k)
<1>12. at \in 1..Len(done.data) /\ k \in 0..MaxPacket
  BY <1>1, <1>3, <1>6, <1>8, <1>9
<1> HIDE DEF at
<1>13. /\ Fits(f) /\ Len(f.data) = Len(s)
       /\ \A j \in 1..Len(s) : f.data[j] = IF j = at THEN [s[j] EXCEPT !.n = k] ELSE s[j]
  <2>1. /\ Fits(f) /\ Len(f.data) = Len(done.data)
        /\ \A j \in 1..Len(done.data) : f.data[j] = IF j = at THEN [done.data[j] EXCEPT !.n = k] ELSE done.data[j]
    BY <1>4, <1>12, FillFits
  <2> HIDE DEF f
  <2> QED
    BY <1>8, <2>1
<1> HIDE DEF f
<1>14. /\ packetOf(k) \in Seq(Units) /\ Len(packetOf(k)) = k + 2
       /\ \A i \in 1..k + 2 : packetOf(k)[i] = unitOf(k, i)
  BY PacketOfIs DEF HeaderLen
<1> DEFINE t == p \o packetOf(k)
<1>15. /\ t \in Seq(Units) /\ Len(t) = Len(p) + (k + 2)
       /\ \A j \in 1..Len(p) + (k + 2) : t[j] = IF j <= Len(p) THEN p[j] ELSE packetOf(k)[j - Len(p)]
  <2>1. /\ t \in Seq(Units) /\ Len(t) = Len(p) + Len(packetOf(k))
        /\ \A j \in 1..Len(p) + Len(packetOf(k)) : t[j] = IF j <= Len(p) THEN p[j] ELSE packetOf(k)[j - Len(p)]
    BY <1>6, <1>14, ConcatProperties
  <2> HIDE DEF t
  <2> QED
    BY <1>14, <2>1
<1> HIDE DEF t
<1>16. Len(s) = Len(p) + (k + 2)
  BY <1>3, <1>6, <1>9
<1>17. ASSUME NEW j \in 1..Len(f.data) PROVE f.data[j] = t[j]
  <2>0. j \in 1..Len(s) /\ j \in Int /\ 1 <= j /\ j <= Len(p) + (k + 2) /\ at = Len(p) + 2
    BY <1>6, <1>13, <1>16 DEF at
  <2>1. CASE j <= Len(p)
    <3>1. j \in 1..Len(p) /\ j # at /\ j \in 1..Len(p) + (k + 2)
      BY <1>3, <1>6, <2>0, <2>1
    <3> QED
      BY <1>9, <1>13, <1>15, <2>0, <2>1, <3>1
  <2>2. CASE ~(j <= Len(p))
    <3> DEFINE i == j - Len(p)
    <3>1. i \in 1..k + 2 /\ j = Len(p) + i /\ i \in Int /\ j \in 1..Len(p) + (k + 2)
      BY <1>3, <1>6, <2>0, <2>2
    <3>2. t[j] = unitOf(k, i)
      BY <1>14, <1>15, <2>2, <3>1
    <3> HIDE DEF i
    <3>3. CASE i = 1
      <4>1. f.data[j] = u
        <5>1. j # at /\ j = Len(p) + 1
          BY <1>6, <2>0, <3>1, <3>3
        <5>2. f.data[j] = s[j]
          BY <1>13, <2>0, <5>1
        <5> QED
          BY <1>9, <5>1, <5>2
      <4> QED
        BY <3>2, <3>3, <4>1 DEF u, unitOf
    <3>4. CASE i = 2
      <4>1. f.data[j] = [v EXCEPT !.n = k]
        BY <1>6, <1>9, <1>13, <2>0, <3>1, <3>4
      <4> QED
        BY <3>2, <3>4, <4>1 DEF v, unitOf, unit
    <3>5. CASE i = 3
      <4>1. f.data[j] = l
        <5>1. j # at /\ j = Len(p) + 3
          BY <1>6, <2>0, <3>1, <3>5
        <5>2. f.data[j] = s[j]
          BY <1>13, <2>0, <5>1
        <5> QED
          BY <1>9, <5>1, <5>2
      <4> QED
        BY <3>2, <3>5, <4>1 DEF l, unitOf
    <3>6. CASE i > 3
      <4>1. i - 3 \in 1..k - 1 /\ j = Len(p) + 3 + (i - 3) /\ j # at
        BY <1>3, <1>6, <2>0, <3>1, <3>6
      <4>2. f.data[j] = q[i - 3]
        BY <1>9, <1>13, <2>0, <4>1
      <4>3. q[i - 3] = unit(k, 3 + (i - 3), 0) /\ 3 + (i - 3) = i
        BY <1>3, <3>1, <4>1
      <4> QED
        BY <3>1, <3>2, <3>6, <4>2, <4>3 DEF unitOf
    <3> QED
      BY <3>1, <3>3, <3>4, <3>5, <3>6
  <2> QED
    BY <2>1, <2>2
<1>18. f.data = t
  <2>1. f.data \in Seq(Units) /\ Len(f.data) = Len(t)
    BY <1>13, <1>15, <1>16, Fitted
  <2> QED
    BY <1>15, <1>17, <2>1, SeqEqual
<1>19. encode(b, k) = f
  BY <1>5, <1>11 DEF f, at
<1> QED
  BY <1>13, <1>18, <1>19 DEF t, p

-----------------------------------------------------------------------------
(* The inductive invariant of PacketStream *)

\* Everything that is on its way to the reader, and everything that it took.
coming == IF streamUp THEN (inBuf.data \o net) \o outBuf.data ELSE inBuf.data \o net
heard == handled \o inputQueue

StreamTyped ==
  /\ Fits(outBuf) /\ Fits(inBuf) /\ net \in Seq(Units) /\ Len(net) <= NetSize
  /\ encoded \in 0..posted /\ posted \in 0..MaxPacket
  /\ header \in [p : 0..MaxPacket, len : 0..MaxPacket]
  /\ handled \in Seq(Heard) /\ inputQueue \in Seq(Heard) /\ Len(inputQueue) < BatchSize
  /\ streamUp \in BOOLEAN /\ gotHeader \in BOOLEAN /\ full \in BOOLEAN
  /\ broken \in BOOLEAN /\ cutOff \in BOOLEAN
  /\ streamPc \in {"idle", "read", "parse", "more", "finish", "lost", "closed"}
  /\ readCnt \in 0..MaxReads /\ breaks \in 0..MaxBreaks /\ reader \in {"client", "server", "batch"}

StreamPlaces ==
  /\ streamPc = "read" => B!freeLen(inBuf) > 0
  /\ streamPc = "more" => readCnt < MaxReads
  /\ streamPc = "closed" => ~streamUp
  /\ streamPc \in {"idle", "closed"} => inputQueue = <<>>
  /\ inputQueue # <<>> => reader = "batch"

StaysInStep == ~cutOff => ~broken /\ InStep(streamUp, gotHeader, header, coming, heard, encoded, reader)

\* Until the connection breaks.
HoldsOn == breaks = 0 => streamUp /\ ~cutOff /\ streamPc \notin {"lost", "closed"}
IsParsed ==
  breaks = 0 /\ streamPc \in {"idle", "read", "more", "finish"} =>
    Len(inBuf.data) < IF gotHeader THEN header.len ELSE 2
Arrives == breaks = 0 => AllThere(gotHeader, header, coming, heard, encoded)

StreamInv == StreamTyped /\ StreamPlaces /\ StaysInStep /\ HoldsOn /\ IsParsed /\ Arrives

SameStream ==
  /\ coming' = coming /\ heard' = heard /\ encoded' = encoded /\ reader' = reader
  /\ gotHeader' = gotHeader /\ header' = header /\ cutOff' = cutOff /\ broken' = broken
  /\ streamUp' = streamUp /\ breaks' = breaks

LEMMA SameStreamKeeps == StaysInStep /\ Arrives /\ SameStream => StaysInStep' /\ Arrives'
BY DEF StaysInStep, Arrives, SameStream

LEMMA StreamStarts == StreamInit => StreamInv
<1> SUFFICES ASSUME StreamInit PROVE StreamInv
  OBVIOUS
<1> USE DEF StreamInit
<1>1. StreamTyped
  <2>1. 0 \in 0..0 /\ 0 \in 0..MaxPacket /\ 0 \in 0..MaxReads /\ 0 \in 0..MaxBreaks /\ 0 <= NetSize /\ 0 < BatchSize
    BY PacketStreamAssumption
  <2>2. Fits(outBuf) /\ Fits(inBuf)
    BY NoBufferFits
  <2>3. header \in [p : 0..MaxPacket, len : 0..MaxPacket]
    BY <2>1 DEF NoHeader
  <2>4. /\ net \in Seq(Units) /\ Len(net) <= NetSize
        /\ handled \in Seq(Heard) /\ inputQueue \in Seq(Heard) /\ Len(inputQueue) < BatchSize
    <3>1. <<>> \in Seq(Units) /\ <<>> \in Seq(Heard) /\ Len(<<>>) = 0
      OBVIOUS
    <3> QED
      BY <2>1, <3>1
  <2>5. encoded \in 0..posted /\ posted \in 0..MaxPacket /\ readCnt \in 0..MaxReads /\ breaks \in 0..MaxBreaks
    BY <2>1
  <2> QED
    BY <2>2, <2>3, <2>4, <2>5 DEF StreamTyped
<1>2. StreamPlaces
  BY DEF StreamPlaces
<1>3. coming = <<>> /\ heard = <<>>
  <2>1. inBuf.data = <<>> /\ outBuf.data = <<>>
    BY NoBufferFits
  <2> QED
    BY <2>1 DEF coming, heard
<1>4. InStep(streamUp, gotHeader, header, coming, heard, encoded, reader)
  <2>1. Framed(<<>>) /\ Whole(<<>>) /\ InOrder(reader, <<>>)
    BY DEF Framed, Whole, InOrder
  <2> QED
    BY <1>3, <2>1 DEF InStep, AtHead, Later
<1>5. StaysInStep
  BY <1>4 DEF StaysInStep
<1>6. HoldsOn /\ IsParsed /\ Arrives
  BY NoBufferFits DEF HoldsOn, IsParsed, Arrives, AllThere
<1> QED
  BY <1>1, <1>2, <1>5, <1>6 DEF StreamInv

LEMMA StreamHas ==
  StreamTyped =>
    /\ inBuf.data \in Seq(Units) /\ outBuf.data \in Seq(Units) /\ net \in Seq(Units) /\ <<>> \in Seq(Units)
    /\ Len(inBuf.data) \in Nat /\ Len(outBuf.data) \in Nat /\ Len(net) \in Nat
    /\ handled \in Seq(Heard) /\ inputQueue \in Seq(Heard)
    /\ encoded \in Nat /\ posted \in Nat /\ encoded <= posted /\ posted <= MaxPacket
    /\ header.p \in Nat /\ header.len \in Nat
BY Fitted, PacketsAre DEF StreamTyped

LEMMA NumbersAre ==
  /\ ReadWriteSize \in Nat /\ 0 < ReadWriteSize /\ NetSize \in Nat /\ BatchSize \in Nat /\ 0 < BatchSize
  /\ MaxReads \in Nat /\ MaxBreaks \in Nat /\ MaxPacket \in Nat
BY PacketStreamAssumption

LEMMA PostKeeps == StreamInv /\ postStream => StreamInv'
<1> SUFFICES ASSUME StreamInv, postStream PROVE StreamInv'
  OBVIOUS
<1> USE DEF postStream, readerVars, linkVars
<1>1. StreamTyped'
  <2>1. posted \in Nat /\ encoded \in Nat /\ MaxPacket \in Nat /\ encoded <= posted /\ posted < MaxPacket
    BY StreamHas, NumbersAre DEF StreamInv
  <2>2. posted + 1 \in 0..MaxPacket /\ encoded \in 0..posted + 1
    BY <2>1
  <2> QED
    BY <2>2 DEF StreamInv, StreamTyped
<1>2. SameStream
  BY DEF SameStream, coming, heard
<1>3. StaysInStep' /\ Arrives'
  BY <1>2, SameStreamKeeps DEF StreamInv
<1>4. StreamPlaces' /\ HoldsOn' /\ IsParsed'
  BY DEF StreamInv, StreamPlaces, HoldsOn, IsParsed
<1> QED
  BY <1>1, <1>3, <1>4 DEF StreamInv

LEMMA EncodeKeeps == StreamInv /\ encodeNext => StreamInv'
<1> SUFFICES ASSUME StreamInv, encodeNext PROVE StreamInv'
  OBVIOUS
<1> DEFINE k == encoded + 1
<1>0. StreamTyped /\ StreamPlaces /\ StaysInStep /\ HoldsOn /\ IsParsed /\ Arrives
  BY DEF StreamInv
<1>1. /\ encoded \in Nat /\ posted \in Nat /\ MaxPacket \in Nat /\ encoded < posted /\ posted <= MaxPacket
      /\ Fits(outBuf) /\ header.p \in Nat
      /\ inBuf.data \in Seq(Units) /\ outBuf.data \in Seq(Units) /\ net \in Seq(Units)
  BY <1>0, StreamHas, NumbersAre DEF encodeNext, StreamTyped
<1>2. k \in 1..MaxPacket /\ k \in 0..posted
  BY <1>1
<1>3. k \in Unencodable \/ k \in Known
  BY <1>2 DEF Known
<1>4. encoded' = k /\ outBuf' = encode(outBuf, k) /\ streamUp /\ streamUp' = streamUp
  BY DEF encodeNext, linkVars
<1> HIDE DEF k
<1>5. Fits(outBuf') /\ (k \in Unencodable => outBuf'.data = outBuf.data) /\ (k \in Known => outBuf'.data = outBuf.data \o packetOf(k))
  BY <1>1, <1>3, <1>4, EncodeFails, EncodeWorks
<1>6. UNCHANGED <<posted, net, readerVars, linkVars>>
  BY DEF encodeNext
<1>7. StreamTyped'
  BY <1>0, <1>2, <1>4, <1>5, <1>6 DEF StreamTyped, readerVars, linkVars
<1>8. StreamPlaces' /\ HoldsOn' /\ IsParsed'
  BY <1>0, <1>6 DEF StreamPlaces, HoldsOn, IsParsed, readerVars, linkVars
<1>9. /\ heard' = heard
      /\ k \in Unencodable => coming' = coming
      /\ k \in Known => coming' = coming \o packetOf(k)
  <2>1. coming = (inBuf.data \o net) \o outBuf.data /\ coming' = (inBuf.data \o net) \o outBuf'.data
    BY <1>4, <1>6 DEF coming, readerVars
  <2>2. heard' = heard
    BY <1>6 DEF heard, readerVars
  <2>3. ASSUME k \in Known PROVE coming' = coming \o packetOf(k)
    <3> DEFINE e == inBuf.data \o net
               o == outBuf.data
               q == packetOf(k)
    <3>1. e \in Seq(Units) /\ o \in Seq(Units) /\ q \in Seq(Units)
      BY <1>1, <2>3, PacketOfIs
    <3>2. coming = e \o o /\ coming' = e \o (o \o q)
      BY <1>5, <2>1, <2>3
    <3> HIDE DEF e, o, q
    <3>3. (e \o o) \o q = e \o (o \o q)
      BY ONLY <3>1, SequencesAssociate
    <3> QED
      BY <3>2, <3>3 DEF q
  <2> QED
    BY <1>5, <2>1, <2>2, <2>3
<1>10. gotHeader' = gotHeader /\ header' = header /\ cutOff' = cutOff /\ broken' = broken /\ reader' = reader /\ breaks' = breaks
  BY <1>6 DEF readerVars, linkVars
<1>11. ASSUME InStep(streamUp, gotHeader, header, coming, heard, encoded, reader)
       PROVE  /\ InStep(streamUp', gotHeader', header', coming', heard', encoded', reader')
              /\ AllThere(gotHeader, header, coming, heard, encoded) => AllThere(gotHeader', header', coming', heard', encoded')
  <2> DEFINE got == gotHeader
             h == header
             c == coming
             all == heard
             rd == reader
             enc == encoded
  <2>0. InStep(TRUE, got, h, c, all, enc, rd)
    BY <1>4, <1>11
  <2>1. /\ k \in Known => InStep(TRUE, got, h, c \o packetOf(k), all, k, rd)
        /\ InStep(TRUE, got, h, c, all, k, rd)
        /\ k \in Known /\ AllThere(got, h, c, all, enc) => AllThere(got, h, c \o packetOf(k), all, k)
        /\ k \in Unencodable /\ AllThere(got, h, c, all, enc) => AllThere(got, h, c, all, k)
    <3>1. enc + 1 = k /\ enc \in Nat /\ h.p \in Nat
      BY <1>1 DEF k
    <3> HIDE DEF got, h, c, all, rd, enc
    <3> QED
      BY ONLY <2>0, <3>1, InStepEncoded
  <2>2. gotHeader' = got /\ header' = h /\ heard' = all /\ reader' = rd /\ encoded' = k /\ streamUp' = TRUE
    BY <1>4, <1>9, <1>10
  <2>3. CASE k \in Known
    <3>1. coming' = c \o packetOf(k)
      BY <1>9, <2>3
    <3> QED
      BY <2>1, <2>2, <2>3, <3>1
  <2>4. CASE k \in Unencodable
    <3>1. coming' = c
      BY <1>9, <2>4
    <3> QED
      BY <2>1, <2>2, <2>4, <3>1
  <2> QED
    BY <1>3, <2>3, <2>4
<1>12. StaysInStep' /\ Arrives'
  BY <1>0, <1>10, <1>11 DEF StaysInStep, Arrives, HoldsOn
<1> QED
  BY <1>7, <1>8, <1>12 DEF StreamInv

LEMMA WriteKeeps == StreamInv /\ writeSome => StreamInv'
<1> SUFFICES ASSUME StreamInv, writeSome PROVE StreamInv'
  OBVIOUS
<1>0. StreamTyped /\ StreamPlaces /\ StaysInStep /\ HoldsOn /\ IsParsed /\ Arrives
  BY DEF StreamInv
<1>1. /\ Fits(outBuf) /\ inBuf.data \in Seq(Units) /\ outBuf.data \in Seq(Units) /\ net \in Seq(Units)
      /\ B!dataLen(outBuf) = Len(outBuf.data)
  BY <1>0, StreamHas, Fitted DEF StreamTyped
<1>2. PICK n \in 1..Len(outBuf.data) :
        /\ Len(net) + n <= NetSize
        /\ net' = net \o SubSeq(outBuf.data, 1, n)
        /\ outBuf' \in {B!drainData(outBuf, n), B!shrink(B!drainData(outBuf, n))}
  BY <1>1 DEF writeSome
<1>3. n \in 0..Len(outBuf.data) /\ n \in Nat
  BY <1>1
<1>4. UNCHANGED <<posted, encoded, readerVars, linkVars>> /\ streamUp
  BY DEF writeSome
<1>5. Fits(outBuf') /\ outBuf'.data = B!drop(outBuf.data, n)
  <2> DEFINE d == B!drainData(outBuf, n)
  <2>1. Fits(d) /\ d.data = B!drop(outBuf.data, n)
    BY <1>1, <1>3, DrainFits
  <2> HIDE DEF d
  <2>2. Fits(B!shrink(d)) /\ B!shrink(d).data = d.data
    BY <2>1, ShrinkFits
  <2>3. outBuf' = d \/ outBuf' = B!shrink(d)
    BY <1>2 DEF d
  <2> QED
    BY <2>1, <2>2, <2>3
<1>6. SubSeq(outBuf.data, 1, n) \in Seq(Units) /\ Len(SubSeq(outBuf.data, 1, n)) = n
  BY <1>1, <1>3, TakeIs
<1>7. net' \in Seq(Units) /\ Len(net') = Len(net) + n
  <2> DEFINE t == SubSeq(outBuf.data, 1, n)
  <2>1. net' = net \o t /\ t \in Seq(Units) /\ Len(t) = n
    BY <1>2, <1>6
  <2> HIDE DEF t
  <2> QED
    BY <1>1, <2>1, ConcatProperties
<1>8. StreamTyped'
  BY <1>0, <1>2, <1>4, <1>5, <1>7 DEF StreamTyped, readerVars, linkVars
<1>9. StreamPlaces' /\ HoldsOn' /\ IsParsed'
  BY <1>0, <1>4 DEF StreamPlaces, HoldsOn, IsParsed, readerVars, linkVars
<1>10. SameStream
  <2>1. (inBuf.data \o (net \o SubSeq(outBuf.data, 1, n))) \o B!drop(outBuf.data, n) = (inBuf.data \o net) \o outBuf.data
    <3> DEFINE a == inBuf.data
               b == net
               c == outBuf.data
               t == SubSeq(c, 1, n)
               d == B!drop(c, n)
    <3>1. c = Joined(t, d)
      BY <1>1, <1>3, TakeDrop DEF Joined
    <3>2. IsOver(Units, a) /\ IsOver(Units, b) /\ IsOver(Units, t) /\ IsOver(Units, d)
      BY <1>1, <1>3, TakeIs, DropIs DEF IsOver
    <3> HIDE DEF a, b, c, t, d
    <3>3. Joined(Joined(a, Joined(b, t)), d) = Joined(Joined(a, b), c)
      BY ONLY <3>1, <3>2, MovedOut
    <3> QED
      BY <3>3 DEF a, b, c, t, d, Joined
  <2>2. coming' = (inBuf.data \o net') \o outBuf'.data /\ coming = (inBuf.data \o net) \o outBuf.data
    BY <1>4 DEF coming, readerVars, linkVars
  <2>3. coming' = coming
    BY <1>2, <1>5, <2>1, <2>2
  <2> QED
    BY <1>4, <2>3 DEF SameStream, heard, readerVars, linkVars
<1>11. StaysInStep' /\ Arrives'
  BY <1>0, <1>10, SameStreamKeeps
<1> QED
  BY <1>8, <1>9, <1>11 DEF StreamInv

IsFront(d, c) == d \in Seq(Units) /\ Len(d) <= Len(c) /\ \A j \in 1..Len(d) : d[j] = c[j]

LEMMA PrefixIs ==
  ASSUME NEW a \in Seq(Units), NEW b \in Seq(Units)
  PROVE  IsFront(a, a \o b) /\ a \o b \in Seq(Units) /\ a \o <<>> = a /\ IsFront(a, a)
<1>1. /\ a \o b \in Seq(Units) /\ Len(a \o b) = Len(a) + Len(b) /\ Len(a) \in Nat /\ Len(b) \in Nat
      /\ \A i \in 1..Len(a) + Len(b) : (a \o b)[i] = IF i <= Len(a) THEN a[i] ELSE b[i - Len(a)]
  BY ConcatProperties
<1>2. a \o <<>> = a
  BY ConcatEmptySeq
<1> DEFINE c == a \o b
<1> HIDE DEF c
<1>3. /\ Len(c) = Len(a) + Len(b) /\ \A i \in 1..Len(a) + Len(b) : c[i] = IF i <= Len(a) THEN a[i] ELSE b[i - Len(a)]
  BY <1>1 DEF c
<1>4. IsFront(a, c)
  BY <1>1, <1>3 DEF IsFront
<1>5. IsFront(a, a)
  BY <1>1 DEF IsFront
<1> QED
  BY <1>1, <1>2, <1>4, <1>5 DEF c

\* When the connection is gone only what is on the wire comes, if that.
LEMMA ComingPrefix ==
  StreamTyped => /\ IsFront(inBuf.data \o net, coming) /\ IsFront(inBuf.data \o <<>>, coming)
                 /\ IsFront(inBuf.data, coming)
<1> SUFFICES ASSUME StreamTyped
             PROVE  IsFront(inBuf.data \o net, coming) /\ IsFront(inBuf.data \o <<>>, coming) /\ IsFront(inBuf.data, coming)
  OBVIOUS
<1> DEFINE a == inBuf.data
           b == net
           o == outBuf.data
           e == a \o b
<1>1. a \in Seq(Units) /\ b \in Seq(Units) /\ o \in Seq(Units)
  BY StreamHas
<1>2. coming = e \o o \/ coming = e
  BY DEF coming
<1> HIDE DEF a, b, o
<1>3. e \in Seq(Units) /\ IsFront(a, e) /\ a \o <<>> = a
  BY <1>1, PrefixIs
<1> HIDE DEF e
<1>4. IsFront(e, e \o o) /\ IsFront(e, e) /\ e \o o \in Seq(Units)
  BY <1>1, <1>3, PrefixIs
<1>5. IsFront(e, coming)
  BY <1>2, <1>4
<1>6. coming \in Seq(Units)
  BY <1>2, <1>3, <1>4
<1>7. IsFront(a, coming)
  <2>1. Len(a) \in Nat /\ Len(e) \in Nat /\ Len(coming) \in Nat
    BY <1>1, <1>3, <1>6
  <2> QED
    BY <1>3, <1>5, <2>1 DEF IsFront
<1> QED
  BY <1>3, <1>5, <1>7 DEF a, b, e

LEMMA PrefixKeeps ==
  ASSUME StreamTyped, StaysInStep, NEW d, IsFront(d, coming), ~cutOff
  PROVE  InStep(FALSE, gotHeader, header, d, heard, encoded, reader)
<1>1. InStep(streamUp, gotHeader, header, coming, heard, encoded, reader)
  BY DEF StaysInStep
<1>2. d \in Seq(Units) /\ Len(d) <= Len(coming) /\ \A j \in 1..Len(d) : d[j] = coming[j]
  BY DEF IsFront
<1> DEFINE up == streamUp
           got == gotHeader
           h == header
           c == coming
           all == heard
           enc == encoded
           rd == reader
<1> HIDE DEF up, got, h, c, all, enc, rd
<1>3. InStep(up, got, h, c, all, enc, rd) /\ d \in Seq(Units) /\ Len(d) <= Len(c) /\ \A j \in 1..Len(d) : d[j] = c[j]
  BY <1>1, <1>2 DEF up, got, h, c, all, enc, rd
<1>4. InStep(FALSE, got, h, d, all, enc, rd)
  BY ONLY <1>3, InStepPrefix
<1> QED
  BY <1>4 DEF got, h, all, enc, rd

LEMMA BreakKeeps == StreamInv /\ breakLink => StreamInv'
<1> SUFFICES ASSUME StreamInv, breakLink PROVE StreamInv'
  OBVIOUS
<1>0. StreamTyped /\ StreamPlaces /\ StaysInStep /\ HoldsOn /\ IsParsed /\ Arrives
  BY DEF StreamInv
<1>1. /\ streamUp /\ breaks < MaxBreaks /\ streamUp' = FALSE /\ breaks' = breaks + 1 /\ net' \in {net, <<>>}
      /\ UNCHANGED <<writerVars, readerVars, cutOff, reader>>
  BY DEF breakLink
<1>2. breaks' \in 0..MaxBreaks /\ breaks' # 0
  <2>1. breaks \in 0..MaxBreaks /\ MaxBreaks \in Nat
    BY <1>0, NumbersAre DEF StreamTyped
  <2> QED
    BY <1>1, <2>1
<1>3. net' \in Seq(Units) /\ Len(net') <= NetSize
  <2>1. net \in Seq(Units) /\ Len(net) <= NetSize /\ 0 <= NetSize
    BY <1>0, NumbersAre DEF StreamTyped
  <2>2. <<>> \in Seq(Units) /\ Len(<<>>) = 0
    OBVIOUS
  <2> QED
    BY <1>1, <2>1, <2>2
<1>4. StreamTyped'
  BY <1>0, <1>1, <1>2, <1>3 DEF StreamTyped, writerVars, readerVars
<1>5. StreamPlaces'
  BY <1>0, <1>1 DEF StreamPlaces, readerVars
<1>6. HoldsOn' /\ IsParsed' /\ Arrives'
  BY <1>2 DEF HoldsOn, IsParsed, Arrives
<1>7. IsFront(coming', coming)
  <2>1. coming' = inBuf.data \o net' /\ (net' = net \/ net' = <<>>)
    BY <1>1 DEF coming, readerVars
  <2>2. IsFront(inBuf.data \o net, coming) /\ IsFront(inBuf.data \o <<>>, coming)
    BY <1>0, ComingPrefix
  <2> QED
    BY <2>1, <2>2
<1>8. StaysInStep'
  <2> SUFFICES ASSUME ~cutOff
               PROVE  ~broken /\ InStep(FALSE, gotHeader, header, coming', heard, encoded, reader)
    BY <1>1 DEF StaysInStep, heard, writerVars, readerVars
  <2> QED
    BY <1>0, <1>7, PrefixKeeps DEF StaysInStep
<1> QED
  BY <1>4, <1>5, <1>6, <1>8 DEF StreamInv

LEMMA ReconnectKeeps == StreamInv /\ reconnectStream => StreamInv'
<1> SUFFICES ASSUME StreamInv, reconnectStream PROVE StreamInv'
  OBVIOUS
<1>0. StreamTyped /\ StreamPlaces /\ StaysInStep /\ HoldsOn /\ IsParsed /\ Arrives
  BY DEF StreamInv
<1>1. /\ streamPc = "closed" /\ streamUp' = TRUE /\ net' = <<>> /\ streamPc' = "idle"
      /\ encoded' = posted /\ outBuf' = B!noBuffer
      /\ UNCHANGED <<posted, readCnt, full, inputQueue, handled, broken, breaks, reader>>
  BY DEF reconnectStream
<1>2. \/ /\ cutOff' = (cutOff \/ gotHeader \/ inBuf.data # <<>>) /\ inBuf' = inBuf
         /\ gotHeader' = gotHeader /\ header' = header
      \/ /\ inBuf' = B!noBuffer /\ gotHeader' = FALSE /\ header' = NoHeader /\ cutOff' = cutOff
  BY DEF reconnectStream
<1>3. breaks' # 0
  BY <1>0, <1>1 DEF HoldsOn
<1>4. encoded \in Nat /\ posted \in Nat /\ encoded <= posted /\ MaxPacket \in Nat
  BY <1>0, StreamHas, NumbersAre
<1>5. StreamTyped'
  <2>1. net' \in Seq(Units) /\ Len(net') <= NetSize
    <3>1. <<>> \in Seq(Units) /\ Len(<<>>) = 0 /\ 0 <= NetSize
      BY NumbersAre
    <3> QED
      BY <1>1, <3>1
  <2>2. Fits(outBuf') /\ Fits(inBuf')
    BY <1>0, <1>1, <1>2, NoBufferFits DEF StreamTyped
  <2>3. header' \in [p : 0..MaxPacket, len : 0..MaxPacket] /\ gotHeader' \in BOOLEAN
    <3>1. NoHeader \in [p : 0..MaxPacket, len : 0..MaxPacket]
      BY <1>4 DEF NoHeader
    <3> QED
      BY <1>0, <1>2, <3>1 DEF StreamTyped
  <2>4. cutOff' \in BOOLEAN
    <3>1. cutOff \in BOOLEAN
      BY <1>0 DEF StreamTyped
    <3> QED
      BY <1>2, <3>1
  <2>5. encoded' \in 0..posted'
    BY <1>1, <1>4
  <2> QED
    BY <1>0, <1>1, <2>1, <2>2, <2>3, <2>4, <2>5 DEF StreamTyped
<1>6. StreamPlaces'
  BY <1>0, <1>1 DEF StreamPlaces
<1>7. HoldsOn' /\ IsParsed' /\ Arrives'
  BY <1>3 DEF HoldsOn, IsParsed, Arrives
<1>8. StaysInStep'
  <2> SUFFICES ASSUME ~cutOff'
               PROVE  ~broken' /\ InStep(streamUp', gotHeader', header', coming', heard', encoded', reader')
    BY DEF StaysInStep
  <2>1. ~cutOff /\ gotHeader' = FALSE /\ inBuf'.data = <<>>
    <3>1. cutOff \in BOOLEAN /\ gotHeader \in BOOLEAN
      BY <1>0 DEF StreamTyped
    <3>2. B!noBuffer.data = <<>>
      BY NoBufferFits
    <3>3. CASE cutOff' = (cutOff \/ gotHeader \/ inBuf.data # <<>>) /\ inBuf' = inBuf /\ gotHeader' = gotHeader
      BY <3>1, <3>3
    <3>4. CASE inBuf' = B!noBuffer /\ gotHeader' = FALSE /\ cutOff' = cutOff
      BY <3>2, <3>4
    <3> QED
      BY <1>2, <3>3, <3>4
  <2>2. coming' = <<>>
    <3>1. outBuf'.data = <<>>
      BY <1>1, NoBufferFits
    <3>2. coming' = (<<>> \o <<>>) \o <<>>
      BY <1>1, <2>1, <3>1 DEF coming
    <3> QED
      BY <3>2
  <2>3. ~broken /\ InStep(streamUp, gotHeader, header, coming, heard, encoded, reader)
    BY <1>0, <2>1 DEF StaysInStep
  <2>4. heard' = heard
    BY <1>1 DEF heard
  <2>5. InStep(TRUE, FALSE, header', <<>>, heard, posted, reader)
    <3>1. InStep(TRUE, FALSE, header, <<>>, heard, posted, reader)
      <4> DEFINE up == streamUp
                 got == gotHeader
                 h == header
                 c == coming
                 all == heard
                 enc == encoded
                 more == posted
                 rd == reader
      <4> HIDE DEF up, got, h, c, all, enc, more, rd
      <4>1. InStep(up, got, h, c, all, enc, rd) /\ enc \in Nat /\ more \in Nat /\ enc <= more
        BY <1>4, <2>3 DEF up, got, h, c, all, enc, more, rd
      <4>2. InStep(TRUE, FALSE, h, <<>>, all, more, rd)
        BY ONLY <4>1, InStepAnew
      <4> QED
        BY <4>2 DEF h, all, more, rd
    <3> QED
      BY <3>1 DEF InStep, AtHead, Later
  <2> QED
    BY <1>1, <2>1, <2>2, <2>3, <2>4, <2>5
<1> QED
  BY <1>5, <1>6, <1>7, <1>8 DEF StreamInv

LEMMA StartReadKeeps == StreamInv /\ startRead => StreamInv'
<1> SUFFICES ASSUME StreamInv, startRead PROVE StreamInv'
  OBVIOUS
<1>0. StreamTyped /\ StreamPlaces /\ StaysInStep /\ HoldsOn /\ IsParsed /\ Arrives
  BY DEF StreamInv
<1>1. /\ streamPc = "idle" /\ inBuf' = B!ensureFree(inBuf, ReadWriteSize) /\ readCnt' = 0 /\ streamPc' = "read"
      /\ UNCHANGED <<writerVars, net, gotHeader, header, full, inputQueue, handled, broken, linkVars>>
  BY DEF startRead
<1>2. Fits(inBuf') /\ inBuf'.data = inBuf.data /\ B!freeLen(inBuf') >= ReadWriteSize
  BY <1>0, <1>1, ExpandFits, NumbersAre DEF B!ensureFree, StreamTyped
<1>3. B!freeLen(inBuf') > 0
  <2>1. B!freeLen(inBuf') \in Nat
    BY <1>2, Fitted
  <2> QED
    BY <1>2, <2>1, NumbersAre
<1>4. 0 \in 0..MaxReads
  BY NumbersAre
<1>5. StreamTyped'
  BY <1>0, <1>1, <1>2, <1>4 DEF StreamTyped, writerVars, linkVars
<1>6. StreamPlaces' /\ HoldsOn' /\ IsParsed'
  BY <1>0, <1>1, <1>2, <1>3 DEF StreamPlaces, HoldsOn, IsParsed, linkVars
<1>7. SameStream
  BY <1>1, <1>2 DEF SameStream, coming, heard, writerVars, linkVars
<1>8. StaysInStep' /\ Arrives'
  BY <1>0, <1>7, SameStreamKeeps
<1> QED
  BY <1>5, <1>6, <1>8 DEF StreamInv

LEMMA ReadMoreKeeps == StreamInv /\ readMore => StreamInv'
<1> SUFFICES ASSUME StreamInv, readMore PROVE StreamInv'
  OBVIOUS
<1> DEFINE m == IF header.len > B!dataLen(inBuf) + ReadWriteSize THEN header.len - B!dataLen(inBuf) ELSE ReadWriteSize
<1>0. StreamTyped /\ StreamPlaces /\ StaysInStep /\ HoldsOn /\ IsParsed /\ Arrives
  BY DEF StreamInv
<1>1. /\ streamPc = "more" /\ inBuf' = B!ensureFree(inBuf, m) /\ readCnt' = readCnt + 1 /\ streamPc' = "read"
      /\ UNCHANGED <<writerVars, net, gotHeader, header, full, inputQueue, handled, broken, linkVars>>
  BY DEF readMore
<1>2. m \in Nat /\ m > 0
  <2>1. header.len \in Nat /\ B!dataLen(inBuf) \in Nat /\ ReadWriteSize \in Nat /\ 0 < ReadWriteSize
    BY <1>0, StreamHas, NumbersAre DEF B!dataLen
  <2> QED
    BY <2>1
<1> HIDE DEF m
<1>3. Fits(inBuf') /\ inBuf'.data = inBuf.data /\ B!freeLen(inBuf') >= m
  BY <1>0, <1>1, <1>2, ExpandFits DEF B!ensureFree, StreamTyped
<1>4. B!freeLen(inBuf') > 0
  <2>1. B!freeLen(inBuf') \in Nat
    BY <1>3, Fitted
  <2> QED
    BY <1>2, <1>3, <2>1
<1>5. readCnt' \in 0..MaxReads
  <2>1. readCnt \in 0..MaxReads /\ readCnt < MaxReads /\ MaxReads \in Nat
    BY <1>0, <1>1, NumbersAre DEF StreamTyped, StreamPlaces
  <2> QED
    BY <1>1, <2>1
<1>6. StreamTyped'
  BY <1>0, <1>1, <1>3, <1>5 DEF StreamTyped, writerVars, linkVars
<1>7. StreamPlaces' /\ HoldsOn' /\ IsParsed'
  BY <1>0, <1>1, <1>3, <1>4 DEF StreamPlaces, HoldsOn, IsParsed, linkVars
<1>8. SameStream
  BY <1>1, <1>3 DEF SameStream, coming, heard, writerVars, linkVars
<1>9. StaysInStep' /\ Arrives'
  BY <1>0, <1>8, SameStreamKeeps
<1> QED
  BY <1>6, <1>7, <1>9 DEF StreamInv

LEMMA ParseEndKeeps == StreamInv /\ parseEnd => StreamInv'
<1> SUFFICES ASSUME StreamInv, parseEnd PROVE StreamInv'
  OBVIOUS
<1>0. StreamTyped /\ StreamPlaces /\ StaysInStep /\ HoldsOn /\ IsParsed /\ Arrives
  BY DEF StreamInv
<1>1. /\ streamPc = "parse" /\ ~isComplete /\ (gotHeader \/ B!dataLen(inBuf) < HeaderLen)
      /\ streamPc' = (IF ~full \/ readCnt >= MaxReads THEN "finish" ELSE "more")
      /\ UNCHANGED <<writerVars, net, inBuf, gotHeader, header, readCnt, full, inputQueue, handled, broken, linkVars>>
  BY DEF parseEnd
<1>2. streamPc' = "finish" \/ (streamPc' = "more" /\ readCnt < MaxReads)
  <2>1. readCnt \in Int /\ MaxReads \in Int
    BY <1>0, NumbersAre DEF StreamTyped
  <2> QED
    BY <1>1, <2>1
<1>3. StreamTyped'
  BY <1>0, <1>1, <1>2 DEF StreamTyped, writerVars, linkVars
<1>4. StreamPlaces' /\ HoldsOn'
  BY <1>0, <1>1, <1>2 DEF StreamPlaces, HoldsOn, linkVars
<1>5. Len(inBuf.data) < IF gotHeader THEN header.len ELSE 2
  <2>1. header.len \in Nat /\ Len(inBuf.data) \in Nat
    BY <1>0, StreamHas
  <2>2. CASE gotHeader
    BY <1>1, <2>1, <2>2 DEF isComplete, B!dataLen
  <2>3. CASE ~gotHeader
    BY <1>1, <2>1, <2>3 DEF B!dataLen, HeaderLen
  <2> QED
    BY <2>2, <2>3
<1>6. IsParsed'
  BY <1>1, <1>5 DEF IsParsed
<1>7. SameStream
  BY <1>1 DEF SameStream, coming, heard, writerVars, linkVars
<1>8. StaysInStep' /\ Arrives'
  BY <1>0, <1>7, SameStreamKeeps
<1> QED
  BY <1>3, <1>4, <1>6, <1>8 DEF StreamInv

LEMMA ReadEndKeeps == StreamInv /\ readEnd => StreamInv'
<1> SUFFICES ASSUME StreamInv, readEnd PROVE StreamInv'
  OBVIOUS
<1>0. StreamTyped /\ StreamPlaces /\ StaysInStep /\ HoldsOn /\ IsParsed /\ Arrives
  BY DEF StreamInv
<1>1. /\ streamPc \in {"finish", "lost"} /\ handled' = handled \o inputQueue /\ inputQueue' = <<>>
      /\ inBuf' = B!shrink(inBuf)
      /\ streamPc' = (IF streamPc = "finish" THEN "idle" ELSE "closed")
      /\ streamUp' = (streamUp /\ streamPc = "finish")
      /\ UNCHANGED <<writerVars, net, gotHeader, header, readCnt, full, broken, breaks, cutOff, reader>>
  BY DEF readEnd, batchEnd
<1>2. Fits(inBuf') /\ inBuf'.data = inBuf.data
  BY <1>0, <1>1, ShrinkFits DEF StreamTyped
<1>3. handled' \in Seq(Heard) /\ inputQueue' \in Seq(Heard) /\ Len(inputQueue') < BatchSize /\ heard' = heard
  <2>1. handled \in Seq(Heard) /\ inputQueue \in Seq(Heard)
    BY <1>0, StreamHas
  <2>2. handled \o inputQueue \in Seq(Heard) /\ <<>> \in Seq(Heard) /\ Len(<<>>) = 0
    BY <2>1
  <2>3. (handled \o inputQueue) \o <<>> = handled \o inputQueue
    BY <2>2, ConcatEmptySeq
  <2>4. 0 < BatchSize
    BY NumbersAre
  <2> QED
    BY <1>1, <2>2, <2>3, <2>4 DEF heard
<1>4. streamUp' \in BOOLEAN /\ (streamPc = "finish" => streamUp' = streamUp) /\ (streamPc = "lost" => streamUp' = FALSE)
  <2>1. streamUp \in BOOLEAN
    BY <1>0 DEF StreamTyped
  <2> QED
    BY <1>1, <2>1
<1>5. StreamTyped'
  BY <1>0, <1>1, <1>2, <1>3, <1>4 DEF StreamTyped, writerVars
<1>6. StreamPlaces' /\ HoldsOn' /\ IsParsed'
  <2>1. CASE streamPc = "finish"
    BY <1>0, <1>1, <1>2, <1>4, <2>1 DEF StreamPlaces, HoldsOn, IsParsed
  <2>2. CASE streamPc = "lost"
    BY <1>0, <1>1, <1>2, <1>4, <2>2 DEF StreamPlaces, HoldsOn, IsParsed
  <2> QED
    BY <1>1, <2>1, <2>2
<1>7. StaysInStep' /\ Arrives'
  <2>1. CASE streamPc = "finish"
    <3>1. SameStream
      BY <1>1, <1>2, <1>3, <1>4, <2>1 DEF SameStream, coming, writerVars
    <3> QED
      BY <1>0, <3>1, SameStreamKeeps
  <2>2. CASE streamPc = "lost"
    <3>1. breaks' # 0
      BY <1>0, <1>1, <2>2 DEF HoldsOn
    <3>2. coming' = inBuf.data \o net
      BY <1>1, <1>2, <1>4, <2>2 DEF coming
    <3>3. IsFront(inBuf.data \o net, coming)
      BY <1>0, ComingPrefix
    <3>4. StaysInStep'
      <4> SUFFICES ASSUME ~cutOff
                   PROVE  ~broken /\ InStep(FALSE, gotHeader, header, inBuf.data \o net, heard, encoded, reader)
        BY <1>1, <1>3, <1>4, <2>2, <3>2 DEF StaysInStep, writerVars
      <4> QED
        BY <1>0, <3>3, PrefixKeeps DEF StaysInStep
    <3> QED
      BY <3>1, <3>4 DEF Arrives
  <2> QED
    BY <1>1, <2>1, <2>2
<1> QED
  BY <1>5, <1>6, <1>7 DEF StreamInv

LEMMA LeastIs ==
  ASSUME NEW m \in Nat, NEW n \in Nat
  PROVE  least(m, n) \in Nat /\ least(m, n) <= m /\ least(m, n) <= n /\ least(m, n) \in {m, n}
BY DEF least

LEMMA ReadKeeps == StreamInv /\ readSocket => StreamInv'
<1> SUFFICES ASSUME StreamInv, readSocket PROVE StreamInv'
  OBVIOUS
<1> DEFINE n == least(Len(net), B!freeLen(inBuf))
           t == SubSeq(net, 1, n)
           d == B!drop(net, n)
<1>0. StreamTyped /\ StreamPlaces /\ StaysInStep /\ HoldsOn /\ IsParsed /\ Arrives
  BY DEF StreamInv
<1>1. /\ streamPc = "read" /\ inBuf' = B!pourData(inBuf, t) /\ net' = d
      /\ full' = (B!freeLen(inBuf) = n)
      /\ streamPc' = (CASE n > 0 -> "parse"
                         [] n = 0 /\ streamUp /\ net = <<>> -> "finish"
                         [] OTHER -> "lost")
      /\ UNCHANGED <<writerVars, gotHeader, header, readCnt, inputQueue, handled, broken, linkVars>>
  BY DEF readSocket
<1>2. /\ Len(net) \in Nat /\ B!freeLen(inBuf) \in Nat /\ B!freeLen(inBuf) > 0 /\ net \in Seq(Units)
      /\ Fits(inBuf) /\ inBuf.data \in Seq(Units) /\ outBuf.data \in Seq(Units) /\ Len(inBuf.data) \in Nat
      /\ Len(net) <= NetSize /\ NetSize \in Nat /\ (Len(net) = 0 <=> net = <<>>)
  BY <1>0, <1>1, StreamHas, Fitted, NumbersAre DEF StreamTyped, StreamPlaces
<1>3. /\ n \in Nat /\ n <= Len(net) /\ n <= B!freeLen(inBuf) /\ n \in 0..Len(net)
      /\ n = 0 => Len(net) = 0
  <2> DEFINE x == Len(net)
             y == B!freeLen(inBuf)
  <2>1. x \in Nat /\ y \in Nat /\ y > 0 /\ n = least(x, y)
    BY <1>2
  <2> HIDE DEF x, y, n
  <2>2. n \in Nat /\ n <= x /\ n <= y /\ (n = x \/ n = y)
    BY <2>1, LeastIs
  <2>3. n \in 0..x /\ (n = 0 => x = 0)
    BY ONLY <2>1, <2>2
  <2> QED
    BY <2>2, <2>3 DEF x, y
<1> HIDE DEF n
<1>4. t \in Seq(Units) /\ Len(t) = n /\ d \in Seq(Units) /\ Len(d) = Len(net) - n /\ t \o d = net
  BY <1>2, <1>3, TakeIs, DropIs, TakeDrop
<1> HIDE DEF t, d
<1>5. Fits(inBuf') /\ inBuf'.data = inBuf.data \o t
  BY <1>1, <1>2, <1>3, <1>4, PourFits
<1>6. /\ n = 0 => streamPc' = IF streamUp THEN "finish" ELSE "lost"
      /\ n # 0 => streamPc' = "parse"
  BY <1>1, <1>2, <1>3
<1>7. StreamTyped'
  <2>1. net' \in Seq(Units) /\ Len(net') <= NetSize
    BY <1>1, <1>2, <1>3, <1>4
  <2>2. full' \in BOOLEAN /\ streamPc' \in {"parse", "finish", "lost"}
    BY <1>1, <1>6
  <2> QED
    BY <1>0, <1>1, <1>5, <2>1, <2>2 DEF StreamTyped, writerVars, linkVars
<1>8. StreamPlaces' /\ HoldsOn'
  BY <1>0, <1>1, <1>6 DEF StreamPlaces, HoldsOn, linkVars
<1>9. IsParsed'
  <2> SUFFICES ASSUME breaks = 0, streamPc' = "finish"
               PROVE  Len(inBuf'.data) < IF gotHeader THEN header.len ELSE 2
    BY <1>1, <1>6 DEF IsParsed, linkVars
  <2>1. n = 0
    BY <1>6
  <2>2. Len(inBuf'.data) = Len(inBuf.data) + Len(t)
    BY <1>2, <1>4, <1>5, ConcatProperties
  <2>3. Len(inBuf'.data) = Len(inBuf.data)
    BY <1>2, <1>4, <2>1, <2>2
  <2> QED
    BY <1>0, <1>1, <2>3 DEF IsParsed
<1>10. SameStream
  <2> DEFINE a == inBuf.data
             o == outBuf.data
  <2>1. IsOver(Units, a) /\ IsOver(Units, t) /\ IsOver(Units, d) /\ net = Joined(t, d)
    BY <1>2, <1>4 DEF IsOver, Joined
  <2>2. coming = IF streamUp THEN (a \o net) \o o ELSE a \o net
    BY DEF coming
  <2>3. coming' = IF streamUp THEN ((a \o t) \o d) \o o ELSE (a \o t) \o d
    BY <1>1, <1>5 DEF coming, writerVars, linkVars
  <2> HIDE DEF a, o
  <2>4. Joined(Joined(a, t), d) = Joined(a, net)
    BY ONLY <2>1, MovedOn
  <2>5. (a \o t) \o d = a \o net
    BY <2>4 DEF Joined
  <2>6. coming' = coming
    BY ONLY <2>2, <2>3, <2>5
  <2> QED
    BY <1>1, <2>6 DEF SameStream, heard, linkVars, writerVars
<1>11. StaysInStep' /\ Arrives'
  BY <1>0, <1>10, SameStreamKeeps
<1> QED
  BY <1>7, <1>8, <1>9, <1>11 DEF StreamInv

\* What the reader takes from _input it takes from the front of the stream.
LEMMA FrontTakenOff ==
  ASSUME StreamTyped, NEW n \in 0..Len(inBuf.data), inBuf'.data = B!drop(inBuf.data, n),
         UNCHANGED <<net, outBuf, streamUp>>
  PROVE  /\ coming' = B!drop(coming, n) /\ n \in 0..Len(coming) /\ Len(inBuf.data) <= Len(coming) /\ Len(coming) \in Nat
         /\ \A j \in 1..Len(inBuf.data) : coming[j] = inBuf.data[j]
<1> DEFINE a == inBuf.data
           b == net
           o == outBuf.data
           e == a \o b
           x == B!drop(a, n)
<1>1. a \in Seq(Units) /\ b \in Seq(Units) /\ o \in Seq(Units) /\ n \in 0..Len(a)
  BY StreamHas
<1>2. coming = (IF streamUp THEN e \o o ELSE e) /\ coming' = (IF streamUp THEN (x \o b) \o o ELSE x \o b)
  BY DEF coming
<1> HIDE DEF a, b, o
<1>3. B!drop(e, n) = x \o b /\ n \in 0..Len(e)
  BY <1>1, DropFront
<1>4. e \in Seq(Units)
  BY <1>1, ConcatProperties
<1> HIDE DEF e, x
<1>5. B!drop(e \o o, n) = B!drop(e, n) \o o /\ n \in 0..Len(e \o o)
  BY <1>1, <1>3, <1>4, DropFront
<1>6. coming' = B!drop(coming, n) /\ n \in 0..Len(coming)
  BY <1>2, <1>3, <1>5
<1>7. IsFront(a, coming)
  BY ComingPrefix DEF a
<1>8. Len(coming) \in Nat
  <2>1. e \o o \in Seq(Units)
    BY <1>1, <1>4
  <2>2. coming \in Seq(Units)
    BY <1>2, <1>4, <2>1
  <2> QED
    BY <2>2
<1>9. /\ Len(a) <= Len(coming) /\ \A j \in 1..Len(a) : coming[j] = a[j]
  BY <1>7 DEF IsFront
<1> QED
  BY <1>6, <1>8, <1>9 DEF a

LEMMA HeaderKeeps == StreamInv /\ getPacketInfo => StreamInv'
<1> SUFFICES ASSUME StreamInv, getPacketInfo PROVE StreamInv'
  OBVIOUS
<1>0. StreamTyped /\ StreamPlaces /\ StaysInStep /\ HoldsOn /\ IsParsed /\ Arrives
  BY DEF StreamInv
<1>1. /\ streamPc = "parse" /\ ~gotHeader /\ B!dataLen(inBuf) >= 2
      /\ gotHeader' = (inBuf.data[1].i = 1)
      /\ header' = [p |-> inBuf.data[1].p, len |-> inBuf.data[2].n]
      /\ inBuf' = B!advance(inBuf, 2)
      /\ IF inBuf.data[1].i = 1 THEN UNCHANGED <<streamPc, broken>> ELSE streamPc' = "lost" /\ broken' = TRUE
      /\ UNCHANGED <<writerVars, net, readCnt, full, inputQueue, handled, linkVars>>
  BY DEF getPacketInfo, HeaderLen
<1>2. /\ Fits(inBuf) /\ inBuf.data \in Seq(Units) /\ Len(inBuf.data) \in Nat /\ Len(inBuf.data) >= 2
      /\ 2 \in 0..Len(inBuf.data) /\ 1 \in 1..Len(inBuf.data) /\ 2 \in 1..Len(inBuf.data)
  <2>1. Fits(inBuf)
    BY <1>0 DEF StreamTyped
  <2>2. inBuf.data \in Seq(Units) /\ Len(inBuf.data) \in Nat /\ B!dataLen(inBuf) = Len(inBuf.data)
    BY <2>1, Fitted
  <2> QED
    BY <1>1, <2>1, <2>2
<1>3. Fits(inBuf') /\ inBuf'.data = B!drop(inBuf.data, 2)
  BY <1>1, <1>2, AdvanceFits
<1>4. inBuf.data[1] \in Units /\ inBuf.data[2] \in Units
  BY <1>2
<1>5. StreamTyped'
  <2>1. header' \in [p : 0..MaxPacket, len : 0..MaxPacket]
    <3>1. inBuf.data[1].p \in 0..MaxPacket /\ inBuf.data[2].n \in 0..MaxPacket
      BY <1>4, NumbersAre DEF Units
    <3> QED
      BY <1>1, <3>1
  <2>2. gotHeader' \in BOOLEAN /\ broken' \in BOOLEAN /\ streamPc' \in {"parse", "lost"}
    BY <1>0, <1>1 DEF StreamTyped
  <2> QED
    BY <1>0, <1>1, <1>3, <2>1, <2>2 DEF StreamTyped, writerVars, linkVars
<1>6. StreamPlaces'
  BY <1>0, <1>1 DEF StreamPlaces, linkVars
<1>7. IsParsed'
  BY <1>1 DEF IsParsed
<1>8. /\ coming' = B!drop(coming, 2) /\ Len(inBuf.data) <= Len(coming) /\ Len(coming) \in Nat
      /\ \A j \in 1..Len(inBuf.data) : coming[j] = inBuf.data[j]
  BY <1>0, <1>1, <1>2, <1>3, FrontTakenOff DEF writerVars, linkVars
<1>9. ASSUME InStep(streamUp, gotHeader, header, coming, heard, encoded, reader)
      PROVE  /\ inBuf.data[1].i = 1
             /\ InStep(streamUp', gotHeader', header', coming', heard', encoded', reader')
             /\ AllThere(gotHeader, header, coming, heard, encoded) => AllThere(gotHeader', header', coming', heard', encoded')
  <2> DEFINE up == streamUp
             h == header
             c == coming
             all == heard
             enc == encoded
             rd == reader
             g == header'
  <2>1. InStep(up, FALSE, h, c, all, enc, rd)
    <3>1. gotHeader = FALSE
      BY <1>0, <1>1 DEF StreamTyped
    <3> QED
      BY <1>9, <3>1
  <2>2. Len(c) >= 2 /\ c[1] = inBuf.data[1] /\ c[2] = inBuf.data[2]
    BY <1>2, <1>8
  <2>3. g = [p |-> c[1].p, len |-> c[2].n] /\ enc \in Nat
    BY <1>0, <1>1, <2>2, StreamHas
  <2>4. /\ coming' = B!drop(c, 2) /\ heard' = all /\ encoded' = enc /\ reader' = rd /\ streamUp' = up
        /\ AllThere(gotHeader, header, coming, heard, encoded) => AllThere(FALSE, h, c, all, enc)
    <3>1. gotHeader = FALSE
      BY <1>0, <1>1 DEF StreamTyped
    <3> QED
      BY <1>1, <1>8, <3>1 DEF heard, writerVars, linkVars
  <2> HIDE DEF up, h, c, all, enc, rd, g
  <2>5. /\ c[1].i = 1 /\ InStep(up, TRUE, g, B!drop(c, 2), all, enc, rd)
        /\ AllThere(FALSE, h, c, all, enc) => AllThere(TRUE, g, B!drop(c, 2), all, enc)
    <3>1. Len(c) >= 2
      BY <2>2
    <3> QED
      BY ONLY <2>1, <3>1, <2>3, InStepHeader
  <2>6. gotHeader' = TRUE /\ inBuf.data[1].i = 1
    BY <1>1, <2>2, <2>5
  <2>7. header' = g
    BY DEF g
  <2> QED
    BY <2>4, <2>5, <2>6, <2>7
<1>10. StaysInStep'
  <2>1. cutOff' = cutOff
    BY <1>1 DEF linkVars
  <2> QED
    BY <1>0, <1>1, <1>9, <2>1 DEF StaysInStep
<1>11. HoldsOn' /\ Arrives'
  <2> SUFFICES ASSUME breaks' = 0 PROVE HoldsOn' /\ Arrives'
    BY DEF HoldsOn, Arrives
  <2>1. breaks = 0 /\ ~cutOff /\ streamUp /\ streamUp' = streamUp /\ cutOff' = cutOff
    BY <1>0, <1>1 DEF HoldsOn, linkVars
  <2>2. InStep(streamUp, gotHeader, header, coming, heard, encoded, reader)
    BY <1>0, <2>1 DEF StaysInStep
  <2>3. streamPc' = "parse"
    BY <1>1, <1>9, <2>2
  <2>4. AllThere(gotHeader, header, coming, heard, encoded)
    BY <1>0, <2>1 DEF Arrives
  <2>5. AllThere(gotHeader', header', coming', heard', encoded')
    BY <1>9, <2>2, <2>4
  <2> QED
    BY <2>1, <2>3, <2>5 DEF HoldsOn, Arrives
<1> QED
  BY <1>5, <1>6, <1>7, <1>10, <1>11 DEF StreamInv

\* The packet at the front: how much it takes, and what is made of it.
LEMMA FirstIs ==
  ASSUME NEW s \in Seq(Units), s # <<>>
  PROVE  Head(s) = s[1] /\ s[1] \in Units /\ s[1].n \in Nat /\ Len(s) \in Nat /\ 1 <= Len(s)
<1>1. Len(s) \in Nat /\ 1 <= Len(s) /\ s[1] \in Units /\ Head(s) = s[1]
  OBVIOUS
<1>2. \A u \in Units : u.n \in Nat
  BY NumbersAre DEF Units
<1> QED
  BY <1>1, <1>2

LEMMA BodySizeIs == StreamTyped => \A k : bodySize(k) \in Nat
<1> SUFFICES ASSUME StreamTyped, NEW k PROVE bodySize(k) \in Nat
  OBVIOUS
<1>1. inBuf.data \in Seq(Units) /\ B!dataLen(inBuf) = Len(inBuf.data)
  BY StreamHas DEF B!dataLen
<1>2. CASE inBuf.data = <<>>
  BY <1>2 DEF bodySize
<1>3. CASE inBuf.data # <<>>
  <2> DEFINE n == inBuf.data[1].n
             l == Len(inBuf.data)
  <2>1. Head(inBuf.data) = inBuf.data[1] /\ n \in Nat /\ l \in Nat /\ 1 <= l
    BY <1>1, <1>3, FirstIs
  <2>2. B!stringSize(inBuf) = 1 + (IF n > l - 1 THEN l - 1 ELSE n) /\ B!vectorSize(inBuf) = 1 + n
    BY <1>1, <2>1 DEF B!stringSize, B!vectorSize
  <2> HIDE DEF n, l
  <2>3. B!stringSize(inBuf) \in Nat /\ B!vectorSize(inBuf) \in Nat
    BY <2>1, <2>2
  <2> QED
    BY <1>3, <2>3 DEF bodySize
<1> QED
  BY <1>2, <1>3

LEMMA Decodes ==
  ASSUME StreamTyped, NEW up, NEW all, NEW enc, NEW rd, InStep(up, TRUE, header, coming, all, enc, rd),
         Len(inBuf.data) >= header.len
  PROVE  bodySize(header.p) = header.len /\ decoded(header.p) = "ok"
<1> DEFINE k == header.len
           s == inBuf.data
<1>1. s \in Seq(Units) /\ Len(s) \in Nat /\ B!dataLen(inBuf) = Len(s) /\ IsFront(s, coming) /\ k \in Nat /\ Len(s) >= k
  BY StreamHas, ComingPrefix DEF B!dataLen
<1>2. Len(s) <= Len(coming) /\ \A j \in 1..Len(s) : s[j] = coming[j]
  BY <1>1 DEF IsFront
<1>3. Len(coming) >= header.len
  <2>1. Len(coming) \in Nat
    BY InStepHas
  <2> QED
    BY <1>1, <1>2, <2>1
<1>4. 1 <= k /\ header.p = k /\ coming[1].n = k - 1 /\ \A j \in 2..k : coming[j] = unit(k, j + 2, 0)
  <2> DEFINE c == coming
             h == header
  <2>1. InStep(up, TRUE, h, c, all, enc, rd) /\ Len(c) >= h.len
    BY <1>3
  <2> HIDE DEF c, h
  <2>2. /\ 1 <= h.len /\ h.p = h.len /\ c[1].n = h.len - 1
        /\ \A j \in 2..h.len : c[j] = unit(h.len, j + 2, 0)
    BY <2>1, BodyIs
  <2> QED
    BY <2>2 DEF c, h
<1> HIDE DEF k, s
<1>5. s # <<>> /\ s[1].n = k - 1 /\ \A j \in 2..k : s[j] = unit(k, j + 2, 0)
  <2>1. 1 \in 1..Len(s) /\ \A j \in 2..k : j \in 1..Len(s)
    BY <1>1, <1>4
  <2>2. s # <<>>
    BY <2>1
  <2> QED
    BY <1>2, <1>4, <2>1, <2>2
<1>6. Head(s) = s[1]
  BY <1>1, <1>5, FirstIs
<1>7. bodySize(k) = k
  <2> DEFINE l == Len(s)
  <2>1. B!stringSize(inBuf) = 1 + (IF k - 1 > l - 1 THEN l - 1 ELSE k - 1) /\ B!vectorSize(inBuf) = 1 + (k - 1)
    BY <1>1, <1>5, <1>6 DEF B!stringSize, B!vectorSize, s
  <2>2. l \in Nat /\ k \in Nat /\ l >= k
    BY <1>1
  <2> HIDE DEF l
  <2>3. B!stringSize(inBuf) = k /\ B!vectorSize(inBuf) = k
    BY <2>1, <2>2
  <2> QED
    BY <1>5, <2>3 DEF bodySize, s
<1>8. SubSeq(s, 2, k) = contentOf(k)
  <2>1. k \in 1..MaxPacket
    <3>1. header.p \in 0..MaxPacket
      BY DEF StreamTyped
    <3> QED
      BY <1>1, <1>4, <3>1, NumbersAre
  <2>2. contentOf(k) \in Seq(Units) /\ Len(contentOf(k)) = k - 1 /\ \A j \in 1..k - 1 : contentOf(k)[j] = unit(k, 3 + j, 0)
    BY <2>1, ContentIs
  <2>3. \A j \in 2..k : s[j] \in Units
    BY <1>1
  <2>4. /\ SubSeq(s, 2, k) \in Seq(Units) /\ Len(SubSeq(s, 2, k)) = (IF 2 <= k THEN k - 2 + 1 ELSE 0)
        /\ \A i \in 1..k - 2 + 1 : SubSeq(s, 2, k)[i] = s[2 + i - 1]
    BY <1>1, <2>3, SubSeqProperties
  <2>5. Len(SubSeq(s, 2, k)) = k - 1 /\ k - 2 + 1 = k - 1
    BY <1>1, <1>4, <2>4
  <2>6. ASSUME NEW i \in 1..k - 1 PROVE SubSeq(s, 2, k)[i] = contentOf(k)[i]
    <3> DEFINE j == i + 1
    <3>1. 2 + i - 1 = j /\ i \in 1..k - 2 + 1 /\ j \in 2..k /\ j + 2 = 3 + i
      BY <1>1, <2>5
    <3>2. SubSeq(s, 2, k)[i] = s[j]
      BY <2>4, <3>1
    <3>3. s[j] = unit(k, 3 + i, 0)
      <4> HIDE DEF j
      <4>1. s[j] = unit(k, j + 2, 0)
        BY <1>5, <3>1
      <4> QED
        BY <3>1, <4>1
    <3> QED
      BY <2>2, <3>2, <3>3
  <2> QED
    BY <2>2, <2>4, <2>5, <2>6, SeqEqual
<1>9. decoded(k) = "ok"
  BY <1>7, <1>8 DEF decoded, s
<1> QED
  BY <1>4, <1>7, <1>9 DEF k

LEMMA InsertedLast ==
  ASSUME NEW s \in Seq(Heard), NEW x \in Heard
  PROVE  Inserted(s, x, Len(s), Append(s, x)) /\ Append(s, x) \in Seq(Heard)
<1> DEFINE t == Append(s, x)
<1>1. /\ t \in Seq(Heard) /\ Len(t) = Len(s) + 1 /\ Len(s) \in Nat /\ t[Len(s) + 1] = x
      /\ \A j \in 1..Len(s) : t[j] = s[j]
  BY AppendProperties
<1> HIDE DEF t
<1>2. \A j \in 1..Len(t) : j # Len(s) + 1 => j <= Len(s) /\ j \in 1..Len(s)
  BY <1>1
<1>3. \A j \in 1..Len(s) : j <= Len(s) /\ j \in 1..Len(t)
  BY <1>1
<1>4. Len(s) \in 0..Len(s) /\ Len(s) + 1 \in 1..Len(t)
  BY <1>1
<1>5. Inserted(s, x, Len(s), t)
  BY <1>1, <1>2, <1>3, <1>4 DEF Inserted
<1> QED
  BY <1>1, <1>5 DEF t

LEMMA InsertedBetween ==
  ASSUME NEW a \in Seq(Heard), NEW q \in Seq(Heard), NEW x \in Heard
  PROVE  Inserted(a \o q, x, Len(a), Append(a, x) \o q) /\ Append(a, x) \o q \in Seq(Heard)
<1> DEFINE b == Append(a, x)
           s == a \o q
<1>1. /\ b \in Seq(Heard) /\ Len(b) = Len(a) + 1 /\ Len(a) \in Nat /\ b[Len(a) + 1] = x /\ Len(q) \in Nat
      /\ \A j \in 1..Len(a) : b[j] = a[j]
  BY AppendProperties
<1>2. /\ s \in Seq(Heard) /\ Len(s) = Len(a) + Len(q)
      /\ \A j \in 1..Len(a) + Len(q) : s[j] = IF j <= Len(a) THEN a[j] ELSE q[j - Len(a)]
  BY ConcatProperties
<1> HIDE DEF b, s
<1> DEFINE t == b \o q
<1>3. /\ t \in Seq(Heard) /\ Len(t) = Len(b) + Len(q)
      /\ \A j \in 1..Len(b) + Len(q) : t[j] = IF j <= Len(b) THEN b[j] ELSE q[j - Len(b)]
  BY <1>1, ConcatProperties
<1> HIDE DEF t
<1> DEFINE m == Len(a)
           n == Len(q)
<1>4. m \in Nat /\ n \in Nat /\ Len(s) = m + n /\ Len(t) = m + 1 + n /\ Len(b) = m + 1
  BY <1>1, <1>2, <1>3
<1>5. ASSUME NEW j \in 1..m + 1 + n PROVE t[j] = IF j <= m THEN a[j] ELSE IF j = m + 1 THEN x ELSE q[j - (m + 1)]
  <2>1. t[j] = IF j <= m + 1 THEN b[j] ELSE q[j - (m + 1)]
    BY <1>1, <1>3
  <2>2. CASE j <= m
    <3>1. j \in 1..m /\ j <= m + 1
      BY <1>4, <2>2
    <3> QED
      BY <1>1, <2>1, <2>2, <3>1
  <2>3. CASE j = m + 1
    BY <1>1, <1>4, <2>1, <2>3
  <2>4. CASE ~(j <= m) /\ j # m + 1
    <3>1. ~(j <= m + 1)
      BY <1>4, <2>4
    <3> QED
      BY <2>1, <2>4, <3>1
  <2> QED
    BY <2>2, <2>3, <2>4
<1>6. \A j \in 1..m + n : s[j] = IF j <= m THEN a[j] ELSE q[j - m]
  BY <1>2
<1>7. s \in Seq(Heard) /\ t \in Seq(Heard)
  BY <1>2, <1>3
<1> HIDE DEF m, n
<1>8. t[m + 1] = x /\ m \in 0..Len(s) /\ m + 1 \in 1..Len(t)
  BY <1>4, <1>5
<1>9. ASSUME NEW j \in 1..Len(s) PROVE LET e == IF j <= m THEN j ELSE j + 1 IN e \in 1..Len(t) /\ t[e] = s[j]
  <2>1. CASE j <= m
    BY <1>4, <1>5, <1>6, <2>1
  <2>2. CASE ~(j <= m)
    <3> DEFINE e == j + 1
    <3>1. e \in 1..m + 1 + n /\ ~(e <= m) /\ e # m + 1 /\ e - (m + 1) = j - m /\ j \in 1..m + n
      BY <1>4, <2>2
    <3> HIDE DEF e
    <3>2. t[e] = q[j - m] /\ s[j] = q[j - m]
      BY <1>5, <1>6, <2>2, <3>1
    <3> QED
      BY <1>4, <2>2, <3>1, <3>2 DEF e
  <2> QED
    BY <2>1, <2>2
<1>10. ASSUME NEW j \in 1..Len(t), j # m + 1 PROVE LET e == IF j <= m THEN j ELSE j - 1 IN e \in 1..Len(s) /\ t[j] = s[e]
  <2>1. CASE j <= m
    BY <1>4, <1>5, <1>6, <2>1
  <2>2. CASE ~(j <= m)
    <3> DEFINE e == j - 1
    <3>1. e \in 1..m + n /\ ~(e <= m) /\ e - m = j - (m + 1) /\ j \in 1..m + 1 + n
      BY <1>4, <1>10, <2>2
    <3> HIDE DEF e
    <3>2. t[j] = q[j - (m + 1)] /\ s[e] = q[e - m]
      BY <1>5, <1>6, <1>10, <2>2, <3>1
    <3> QED
      BY <1>4, <2>2, <3>1, <3>2 DEF e
  <2> QED
    BY <2>1, <2>2
<1>11. Inserted(s, x, m, t)
  BY <1>8, <1>9, <1>10 DEF Inserted
<1> QED
  BY <1>7, <1>11 DEF s, t, b, m

\* A packet that is handled comes after all that were taken before it, but a BadPacket
\* comes before those that wait for their batch.
LEMMA Handling ==
  ASSUME StreamTyped, StreamPlaces, NEW x \in Heard, UNCHANGED reader,
         \/ handle(x)
         \/ reader = "client" /\ handled' = Append(handled, x) /\ UNCHANGED inputQueue
  PROVE  /\ handled' \in Seq(Heard) /\ inputQueue' \in Seq(Heard) /\ Len(inputQueue') < BatchSize
         /\ inputQueue' # <<>> => reader = "batch"
         /\ heard' \in Seq(Heard)
         /\ \E m : Inserted(heard, x, m, heard') /\ (m = Len(heard) \/ (reader = "batch" /\ x.how = "bad"))
<1> DEFINE a == handled
           q == inputQueue
<1>1. a \in Seq(Heard) /\ q \in Seq(Heard) /\ Len(q) < BatchSize /\ heard = a \o q /\ a \o q \in Seq(Heard)
  <2>1. a \in Seq(Heard) /\ q \in Seq(Heard)
    BY StreamHas
  <2>2. a \o q \in Seq(Heard)
    BY <2>1
  <2> QED
    BY <2>1, <2>2 DEF StreamTyped, heard
<1>2. CASE reader = "batch" /\ x.how # "bad"
  <2> DEFINE p == Append(q, x)
  <2>1. inputQueue' = leftOver(p) /\ handled' = a \o delivered(p)
    BY <1>2 DEF handle
  <2>2. p \in Seq(Heard) /\ <<>> \in Seq(Heard) /\ Len(<<>>) = 0 /\ Len(p) \in Nat /\ a \o p \in Seq(Heard)
    BY <1>1, AppendProperties
  <2>3. a \o p = Append(a \o q, x)
    <3> DEFINE e == <<x>>
               s == a \o q
    <3>1. e \in Seq(Heard) /\ p = q \o e
      BY <1>1, AppendIsConcat
    <3>2. Append(s, x) = s \o e
      BY <1>1, AppendIsConcat
    <3>3. IsOver(Heard, a) /\ IsOver(Heard, q) /\ IsOver(Heard, e)
      BY <1>1, <3>1 DEF IsOver
    <3> HIDE DEF p, e, a, q
    <3>4. Joined(Joined(a, q), e) = Joined(a, Joined(q, e))
      BY ONLY <3>3, JoinedIs
    <3>5. (a \o q) \o e = a \o (q \o e)
      BY <3>4 DEF Joined
    <3> QED
      BY <3>1, <3>2, <3>5
  <2>4. Inserted(heard, x, Len(heard), a \o p)
    BY <1>1, <2>3, InsertedLast
  <2> HIDE DEF p
  <2>5. CASE Len(p) >= BatchSize
    <3>1. inputQueue' = <<>> /\ handled' = a \o p
      BY <2>1, <2>5 DEF leftOver, delivered
    <3>2. (a \o p) \o <<>> = a \o p
      BY <2>2, ConcatEmptySeq
    <3>3. heard' = a \o p
      BY <3>1, <3>2 DEF heard
    <3>4. 0 < BatchSize
      BY NumbersAre
    <3> QED
      BY <2>2, <2>4, <3>1, <3>3, <3>4
  <2>6. CASE ~(Len(p) >= BatchSize)
    <3>1. inputQueue' = p /\ handled' = a \o <<>>
      BY <2>1, <2>6 DEF leftOver, delivered
    <3>2. a \o <<>> = a
      BY <1>1, ConcatEmptySeq
    <3>3. heard' = a \o p
      BY <3>1, <3>2 DEF heard
    <3>4. Len(p) < BatchSize
      BY <2>2, <2>6, NumbersAre
    <3> QED
      BY <1>1, <1>2, <2>2, <2>4, <3>1, <3>2, <3>3, <3>4
  <2> QED
    BY <2>5, <2>6
<1>3. CASE ~(reader = "batch" /\ x.how # "bad")
  <2>1. handled' = Append(a, x) /\ inputQueue' = q
    BY <1>3 DEF handle
  <2>2. Append(a, x) \in Seq(Heard)
    BY <1>1, InsertedLast
  <2>3. heard' = Append(a, x) \o q
    BY <2>1 DEF heard
  <2>4. Inserted(heard, x, Len(a), heard') /\ heard' \in Seq(Heard)
    BY <1>1, <2>3, InsertedBetween
  <2>5. q # <<>> => reader = "batch"
    BY DEF StreamPlaces
  <2>6. Len(a) = Len(heard) \/ (reader = "batch" /\ x.how = "bad")
    <3>1. CASE reader = "batch"
      BY <1>3, <3>1
    <3>2. CASE reader # "batch"
      <4>1. q = <<>>
        BY <2>5, <3>2
      <4>2. a \o <<>> = a
        BY <1>1, ConcatEmptySeq
      <4> QED
        BY <1>1, <4>1, <4>2
    <3> QED
      BY <3>1, <3>2
  <2> QED
    BY <1>1, <2>1, <2>2, <2>4, <2>5, <2>6
<1> QED
  BY <1>2, <1>3

LEMMA HandleKeeps == StreamInv /\ handlePacket => StreamInv'
<1> SUFFICES ASSUME StreamInv, handlePacket PROVE StreamInv'
  OBVIOUS
<1> DEFINE k == header.p
<1>0. StreamTyped /\ StreamPlaces /\ StaysInStep /\ HoldsOn /\ IsParsed /\ Arrives
  BY DEF StreamInv
<1>1. /\ streamPc = "parse" /\ gotHeader = TRUE /\ B!dataLen(inBuf) >= header.len
      /\ gotHeader' = FALSE /\ header' = [header EXCEPT !.len = 0]
      /\ UNCHANGED <<writerVars, net, streamPc, readCnt, full, broken, linkVars>>
  BY <1>0 DEF handlePacket, isComplete, StreamTyped
<1>2. /\ Fits(inBuf) /\ inBuf.data \in Seq(Units) /\ Len(inBuf.data) \in Nat /\ B!dataLen(inBuf) = Len(inBuf.data)
      /\ header.len \in Nat /\ k \in Nat /\ k \in 0..MaxPacket /\ header.len \in 0..Len(inBuf.data)
  <2>1. Fits(inBuf) /\ header \in [p : 0..MaxPacket, len : 0..MaxPacket]
    BY <1>0 DEF StreamTyped
  <2>2. inBuf.data \in Seq(Units) /\ Len(inBuf.data) \in Nat /\ B!dataLen(inBuf) = Len(inBuf.data) /\ header.len \in Nat /\ k \in Nat
    BY <1>0, <2>1, StreamHas, Fitted
  <2>3. header.len \in 0..Len(inBuf.data) /\ k \in 0..MaxPacket
    BY <1>1, <2>1, <2>2
  <2> QED
    BY <2>1, <2>2, <2>3
<1>3. PICK x \in Heard, n \in 0..Len(inBuf.data) :
        /\ x.p = k /\ inBuf'.data = B!drop(inBuf.data, n) /\ Fits(inBuf')
        /\ \/ handle(x)
           \/ reader = "client" /\ handled' = Append(handled, x) /\ UNCHANGED inputQueue
        /\ \/ n = header.len /\ x.how # "corrupt"
           \/ n = least(bodySize(k), Len(inBuf.data)) /\ x.how = decoded(k)
  <2> DEFINE m == least(bodySize(k), Len(inBuf.data))
             known == [p |-> k, how |-> decoded(k)]
             bad == [p |-> k, how |-> "bad"]
             dropped == [p |-> k, how |-> "dropped"]
  <2>1. \/ inBuf' = B!advance(inBuf, m) /\ handle(known)
        \/ inBuf' = B!drainData(inBuf, header.len) /\ handle(bad)
        \/ /\ inBuf' = B!drainData(inBuf, header.len)
           /\ reader = "client" /\ handled' = Append(handled, dropped) /\ UNCHANGED inputQueue
    BY <1>2 DEF handlePacket
  <2>2. m \in 0..Len(inBuf.data)
    <3>1. bodySize(k) \in Nat
      BY <1>0, BodySizeIs
    <3> DEFINE y == bodySize(k)
               z == Len(inBuf.data)
    <3>2. y \in Nat /\ z \in Nat
      BY <1>2, <3>1
    <3> HIDE DEF y, z
    <3>3. least(y, z) \in 0..z
      BY <3>2, LeastIs
    <3> QED
      BY <3>3 DEF y, z
  <2>3. known \in Heard /\ known.p = k /\ known.how = decoded(k) /\ decoded(k) \in {"ok", "corrupt"}
    BY <1>2 DEF decoded, Heard
  <2>4. bad \in Heard /\ bad.p = k /\ bad.how # "corrupt" /\ dropped \in Heard /\ dropped.p = k /\ dropped.how # "corrupt"
    BY <1>2 DEF Heard
  <2>5. Fits(B!drainData(inBuf, header.len)) /\ B!drainData(inBuf, header.len).data = B!drop(inBuf.data, header.len)
    BY <1>2, DrainFits
  <2> HIDE DEF m, known, bad, dropped
  <2>6. Fits(B!advance(inBuf, m)) /\ B!advance(inBuf, m).data = B!drop(inBuf.data, m)
    BY <1>2, <2>2, AdvanceFits
  <2>10. m = least(bodySize(k), Len(inBuf.data))
    BY DEF m
  <2> HIDE DEF k
  <2>7. CASE inBuf' = B!advance(inBuf, m) /\ handle(known)
    BY <2>2, <2>3, <2>6, <2>7, <2>10
  <2>8. CASE inBuf' = B!drainData(inBuf, header.len) /\ handle(bad)
    BY <1>2, <2>4, <2>5, <2>8
  <2>9. CASE /\ inBuf' = B!drainData(inBuf, header.len)
             /\ reader = "client" /\ handled' = Append(handled, dropped) /\ UNCHANGED inputQueue
    BY <1>2, <2>4, <2>5, <2>9
  <2> QED
    BY <2>1, <2>7, <2>8, <2>9
<1>4. /\ handled' \in Seq(Heard) /\ inputQueue' \in Seq(Heard) /\ Len(inputQueue') < BatchSize
      /\ (inputQueue' # <<>> => reader = "batch")
      /\ heard' \in Seq(Heard)
      /\ \E m : Inserted(heard, x, m, heard') /\ (m = Len(heard) \/ (reader = "batch" /\ x.how = "bad"))
  <2>1. /\ reader' = reader
        /\ \/ handle(x)
           \/ reader = "client" /\ handled' = Append(handled, x) /\ UNCHANGED inputQueue
    BY <1>1, <1>3 DEF linkVars
  <2> QED
    BY <1>0, <2>1, Handling
<1>5. header' \in [p : 0..MaxPacket, len : 0..MaxPacket]
  <2>1. header \in [p : 0..MaxPacket, len : 0..MaxPacket] /\ 0 \in 0..MaxPacket
    BY <1>0, NumbersAre DEF StreamTyped
  <2> QED
    BY <1>1, <2>1
<1>6. StreamTyped'
  BY <1>0, <1>1, <1>3, <1>4, <1>5 DEF StreamTyped, writerVars, linkVars
<1>7. StreamPlaces' /\ HoldsOn' /\ IsParsed'
  BY <1>0, <1>1, <1>4 DEF StreamPlaces, HoldsOn, IsParsed, linkVars
<1>8. /\ coming' = B!drop(coming, n) /\ Len(inBuf.data) <= Len(coming) /\ Len(coming) \in Nat
  BY <1>0, <1>1, <1>3, FrontTakenOff DEF writerVars, linkVars
<1>9. ASSUME InStep(streamUp, gotHeader, header, coming, heard, encoded, reader)
      PROVE  /\ InStep(streamUp', gotHeader', header', coming', heard', encoded', reader')
             /\ AllThere(gotHeader, header, coming, heard, encoded) => AllThere(gotHeader', header', coming', heard', encoded')
  <2> DEFINE up == streamUp
             h == header
             c == coming
             all == heard
             enc == encoded
             rd == reader
             g == header'
             more == heard'
  <2>1. InStep(up, TRUE, h, c, all, enc, rd)
    BY <1>1, <1>9
  <2>2. bodySize(h.p) = h.len /\ decoded(h.p) = "ok"
    BY <1>0, <1>1, <1>2, <2>1, Decodes
  <2>3. n = h.len /\ x.how # "corrupt"
    <3>1. CASE n = least(bodySize(k), Len(inBuf.data)) /\ x.how = decoded(k)
      <4>1. x.how = "ok" /\ n = least(h.len, Len(inBuf.data))
        BY <2>2, <3>1
      <4>2. least(h.len, Len(inBuf.data)) = h.len
        BY <1>2 DEF least
      <4> QED
        BY <4>1, <4>2
    <3> QED
      BY <1>3, <3>1
  <2>4. Len(c) >= h.len /\ x.p = h.p /\ enc \in Nat
    BY <1>0, <1>2, <1>3, <1>8, StreamHas
  <2>5. PICK m : Inserted(all, x, m, more) /\ (m = Len(all) \/ (rd = "batch" /\ x.how = "bad"))
    BY <1>4
  <2>6. more \in Seq(Heard) /\ x \in Heard
    BY <1>4
  <2>7. /\ coming' = B!drop(c, h.len) /\ encoded' = enc /\ reader' = rd /\ streamUp' = up /\ gotHeader' = FALSE
        /\ header' = g /\ heard' = more
        /\ (AllThere(gotHeader, header, coming, heard, encoded) => AllThere(TRUE, h, c, all, enc))
    BY <1>1, <1>8, <2>3 DEF writerVars, linkVars
  <2> HIDE DEF up, h, c, all, enc, rd, g, more
  <2>8. /\ InStep(up, FALSE, g, B!drop(c, h.len), more, enc, rd)
        /\ AllThere(TRUE, h, c, all, enc) => AllThere(FALSE, g, B!drop(c, h.len), more, enc)
    BY ONLY <2>1, <2>3, <2>4, <2>5, <2>6, InStepBody
  <2> QED
    BY <2>7, <2>8
<1>10. StaysInStep'
  <2>1. cutOff' = cutOff /\ broken' = broken
    BY <1>1 DEF linkVars
  <2> QED
    BY <1>0, <1>9, <2>1 DEF StaysInStep
<1>11. Arrives'
  <2> SUFFICES ASSUME breaks' = 0 PROVE AllThere(gotHeader', header', coming', heard', encoded')
    BY DEF Arrives
  <2>1. breaks = 0 /\ ~cutOff
    BY <1>0, <1>1 DEF HoldsOn, linkVars
  <2>2. InStep(streamUp, gotHeader, header, coming, heard, encoded, reader) /\ AllThere(gotHeader, header, coming, heard, encoded)
    BY <1>0, <2>1 DEF StaysInStep, Arrives
  <2> QED
    BY <1>9, <2>2
<1> QED
  BY <1>6, <1>7, <1>10, <1>11 DEF StreamInv

LEMMA StreamStep == StreamInv /\ [StreamNext]_streamVars => StreamInv'
<1> SUFFICES ASSUME StreamInv, [StreamNext]_streamVars PROVE StreamInv'
  OBVIOUS
<1>1. CASE UNCHANGED streamVars
  <2>1. /\ UNCHANGED <<posted, encoded, outBuf>> /\ UNCHANGED net
        /\ UNCHANGED <<inBuf, gotHeader, header, streamPc, readCnt, full, inputQueue, handled, broken>>
        /\ UNCHANGED <<streamUp, breaks, cutOff, reader>>
    BY <1>1 DEF streamVars, writerVars, readerVars, linkVars
  <2>2. StreamTyped' /\ StreamPlaces' /\ HoldsOn' /\ IsParsed'
    BY <2>1 DEF StreamInv, StreamTyped, StreamPlaces, HoldsOn, IsParsed
  <2>3. SameStream
    BY <2>1 DEF SameStream, coming, heard
  <2>4. StaysInStep' /\ Arrives'
    BY <2>3, SameStreamKeeps DEF StreamInv
  <2> QED
    BY <2>2, <2>4 DEF StreamInv
<1>2. CASE StreamNext
  BY <1>2, EncodeKeeps, WriteKeeps, StartReadKeeps, ReadKeeps, HeaderKeeps, HandleKeeps, ParseEndKeeps,
     ReadMoreKeeps, ReadEndKeeps, PostKeeps, BreakKeeps, ReconnectKeeps
  DEF StreamNext, writerStep, readerStep
<1> QED
  BY <1>1, <1>2

\* What is at the head of stream c is not all there: a packet without its body, or no header.
IsCut(got, h, c) == Len(c) < IF got THEN h.len ELSE 2

\* The stream while the connection holds.
HoldsInStep(got, h, c, all, enc, rd) == InStep(TRUE, got, h, c, all, enc, rd)

\* A stream has ended: nothing at its head and nothing coming.
IsOut(got, c) == c = <<>> /\ ~got

\* A stream that is whole and has nothing at its head but what is not yet complete is empty.
LEMMA NothingComes ==
  ASSUME NEW got, NEW h, NEW c, NEW all, NEW enc, NEW rd, HoldsInStep(got, h, c, all, enc, rd), got \in BOOLEAN,
         IsCut(got, h, c)
  PROVE  IsOut(got, c)
<1>0. Len(c) < IF got THEN h.len ELSE 2
  BY DEF IsCut
<1>1. /\ Framed(c) /\ AtHead(got, h, c) /\ Whole(c) /\ Len(c) \in Nat /\ (Len(c) # 0 <=> c # <<>>)
  BY InStepHas DEF HoldsInStep
<1>2. c = <<>> => ~got
  BY DEF InStep, HoldsInStep
<1>3. ASSUME c # <<>> PROVE FALSE
  <2> DEFINE n == Len(c)
             p == c[1].p
  <2>1. 1 \in 1..n /\ n \in 1..n /\ n \in Nat /\ n # 0
    BY <1>1, <1>3
  <2>2. c[n].i = c[n].p + 2
    BY <1>1, <1>3 DEF Whole, HeaderLen
  <2>3. /\ c[1].p \in Nat /\ 1 <= c[1].p /\ c[1].i \in Nat /\ c[n].p \in Nat /\ 1 <= c[n].p /\ c[n].i \in Nat
    BY <1>1, <2>1, UnitsAre
  <2>4. c[1].i = IF got THEN 3 ELSE 1
    BY <1>1, <1>3 DEF AtHead
  <2>5. got => h.len = c[1].p
    BY <1>1, <1>3 DEF AtHead
  <2>6. n >= c[1].p + 2 - c[1].i + 1
    <3>1. CASE n = 1
      BY <2>2, <2>3, <3>1
    <3>2. CASE n # 1
      <4> DEFINE d == n - 1
                 a == c[1].i
                 b == c[n].i
                 y == c[n].p
      <4>1. n \in 2..n
        <5> HIDE DEF n
        <5> QED
          BY ONLY <2>1, <3>2, SMT
      <4>2. (p = y /\ b = a + d) \/ (p < y /\ d >= p + 2 - a + b)
        BY <1>1, <4>1, AfterFirst
      <4>3. p \in Nat /\ y \in Nat /\ a \in Nat /\ b \in Nat /\ d \in Int /\ b = y + 2
        BY <2>1, <2>2, <2>3
      <4>4. d >= p + 2 - a
        <5> HIDE DEF d, a, b, y, p
        <5> QED
          BY ONLY <4>2, <4>3, RestOfPacket
      <4> QED
        BY <2>1, <2>3, <4>4
    <3> QED
      BY <3>1, <3>2
  <2>7. CASE got
    BY <1>0, <2>1, <2>3, <2>4, <2>5, <2>6, <2>7
  <2>8. CASE ~got
    BY <1>0, <2>1, <2>3, <2>4, <2>6, <2>8
  <2> QED
    BY <2>7, <2>8
<1> QED
  BY <1>2, <1>3 DEF IsOut

LEMMA StreamEnds == StreamInv => HandledIntact /\ NothingLeftBehind /\ ReadsHaveRoom
<1> SUFFICES ASSUME StreamInv PROVE HandledIntact /\ NothingLeftBehind /\ ReadsHaveRoom
  OBVIOUS
<1>0. StreamTyped /\ StreamPlaces /\ StaysInStep /\ HoldsOn /\ IsParsed /\ Arrives
  BY DEF StreamInv
<1>1. HandledIntact
  <2> SUFFICES ASSUME ~cutOff
               PROVE  /\ ~broken
                      /\ \A j \in 1..Len(handled) : handled[j].how # "corrupt"
                      /\ \A j \in 1..Len(handled) : \A l \in 1..j - 1 :
                           /\ handled[l].p # handled[j].p
                           /\ (reader = "batch" /\ "bad" \in {handled[l].how, handled[j].how})
                              \/ handled[l].p < handled[j].p
    BY DEF HandledIntact
  <2>1. ~broken /\ InOrder(reader, heard)
    BY <1>0 DEF StaysInStep, InStep
  <2>2. Len(handled) \in Nat /\ \A j \in 1..Len(handled) : j \in 1..Len(heard) /\ heard[j] = handled[j]
    <3> DEFINE a == handled
               q == inputQueue
               s == a \o q
    <3>1. a \in Seq(Heard) /\ q \in Seq(Heard) /\ heard = s
      BY <1>0, StreamHas DEF heard
    <3> HIDE DEF a, q
    <3>2. /\ Len(s) = Len(a) + Len(q) /\ Len(a) \in Nat /\ Len(q) \in Nat
          /\ \A j \in 1..Len(a) + Len(q) : s[j] = IF j <= Len(a) THEN a[j] ELSE q[j - Len(a)]
      BY <3>1, ConcatProperties
    <3> HIDE DEF s
    <3>3. \A j \in 1..Len(a) : j \in 1..Len(a) + Len(q) /\ j <= Len(a)
      BY <3>2
    <3> QED
      BY <3>1, <3>2, <3>3 DEF a
  <2>3. ASSUME NEW j \in 1..Len(handled), NEW l \in 1..j - 1
        PROVE  /\ handled[l].p # handled[j].p
               /\ (reader = "batch" /\ "bad" \in {handled[l].how, handled[j].how})
                  \/ handled[l].p < handled[j].p
    <3>1. l \in 1..Len(handled) /\ l < j
      BY <2>2
    <3>2. l \in 1..Len(heard) /\ j \in 1..Len(heard) /\ heard[l] = handled[l] /\ heard[j] = handled[j]
      BY <2>2, <3>1
    <3> QED
      BY <2>1, <3>1, <3>2 DEF InOrder
  <2> QED
    BY <2>1, <2>2, <2>3 DEF InOrder
<1>2. NothingLeftBehind
  <2> SUFFICES ASSUME streamUp, breaks = 0, encoded = posted, outBuf.data = <<>>, net = <<>>, streamPc = "idle"
               PROVE  \A k \in 1..posted \ Unencodable : \E j \in 1..Len(handled) : handled[j].p = k
    BY DEF NothingLeftBehind
  <2>1. coming = inBuf.data
    <3>1. coming = (inBuf.data \o <<>>) \o <<>> /\ inBuf.data \in Seq(Units)
      BY <1>0, StreamHas DEF coming
    <3>2. inBuf.data \o <<>> = inBuf.data
      BY <3>1, ConcatEmptySeq
    <3> QED
      BY <3>1, <3>2
  <2>2. InStep(TRUE, gotHeader, header, coming, heard, encoded, reader) /\ gotHeader \in BOOLEAN
    BY <1>0 DEF StaysInStep, HoldsOn, StreamTyped
  <2>3. Len(coming) < IF gotHeader THEN header.len ELSE 2
    BY <1>0, <2>1 DEF IsParsed
  <2>4. coming = <<>> /\ ~gotHeader
    <3> DEFINE got == gotHeader
               h == header
               c == coming
               all == heard
               enc == encoded
               rd == reader
    <3>1. HoldsInStep(got, h, c, all, enc, rd) /\ got \in BOOLEAN /\ IsCut(got, h, c)
      BY <2>2, <2>3 DEF IsCut, HoldsInStep
    <3> HIDE DEF got, h, c, all, enc, rd
    <3>2. IsOut(got, c)
      BY ONLY <3>1, NothingComes
    <3> QED
      BY <3>2 DEF c, got, IsOut
  <2>5. heard = handled
    <3>1. inputQueue = <<>> /\ handled \in Seq(Heard)
      BY <1>0, StreamHas DEF StreamPlaces
    <3> QED
      BY <3>1, ConcatEmptySeq DEF heard
  <2>6. AllThere(gotHeader, header, coming, heard, encoded)
    BY <1>0 DEF Arrives
  <2> SUFFICES ASSUME NEW k \in 1..posted, k \notin Unencodable
               PROVE  \E j \in 1..Len(handled) : handled[j].p = k
    OBVIOUS
  <2>7. (\E j \in 1..Len(heard) : heard[j].p = k) \/ (gotHeader /\ header.p = k) \/ (\E j \in 1..Len(coming) : coming[j].p = k)
    BY <2>6 DEF AllThere
  <2>8. ~(\E j \in 1..Len(coming) : coming[j].p = k)
    <3>1. Len(coming) = 0
      BY <2>4
    <3> QED
      BY <3>1
  <2> QED
    BY <2>4, <2>5, <2>7, <2>8
<1>3. ReadsHaveRoom
  BY <1>0 DEF StreamPlaces, ReadsHaveRoom
<1> QED
  BY <1>1, <1>2, <1>3

LEMMA StreamIsTyped == StreamInv => StreamTypeOK
<1> SUFFICES ASSUME StreamTyped PROVE StreamTypeOK
  BY DEF StreamInv
<1>1. B!isBuffer(outBuf) /\ B!isBuffer(inBuf)
  BY DEF StreamTyped, Fits
<1>2. \A j \in 1..Len(inBuf.data) : inBuf.data[j] \in Units
  BY StreamHas
<1>3. header.len \in 0..MaxPacket
  BY DEF StreamTyped
<1>4. {streamUp, gotHeader, full, broken, cutOff} \subseteq BOOLEAN
  BY DEF StreamTyped
<1> QED
  BY <1>1, <1>2, <1>3, <1>4 DEF StreamTyped, StreamTypeOK

-----------------------------------------------------------------------------
(* The response of HTTP *)

\* A header is there once, and none that encode() writes itself.
HeadersOnce(hs) ==
  /\ hs \in Seq(HeaderNames)
  /\ \A i, j \in 1..Len(hs) : hs[i] = hs[j] => i = j
  /\ \A i \in 1..Len(hs) : hs[i] \notin ownHeaders

\* What a handler can say, and a body, which is so many bytes.
Messages == {"", "message"}
Filler == {"byte"}

ResponseInv ==
  /\ response \in [status : BOOLEAN, statusMessage : Messages, isKeepAlive : BOOLEAN,
                   headers : Seq(HeaderNames), body : Seq(Filler)]
  /\ HeadersOnce(response.headers)

LEMMA FunctionIsSeq ==
  ASSUME NEW U, NEW n \in Nat, NEW f \in [1..n -> U]
  PROVE  f \in Seq(U) /\ Len(f) = n
<1>1. f \in Seq(U)
  BY SeqDef
<1> QED
  BY <1>1, LenProperties

LEMMA Behind ==
  ASSUME NEW U, NEW r \in Seq(U), NEW s \in Seq(U)
  PROVE  /\ r \o s \in Seq(U) /\ Len(r \o s) = Len(r) + Len(s) /\ Len(r) \in Nat /\ Len(s) \in Nat
         /\ \A i \in 1..Len(r) : (r \o s)[i] = r[i]
         /\ \A i \in 1..Len(s) : (r \o s)[Len(r) + i] = s[i]
<1>1. /\ r \o s \in Seq(U) /\ Len(r \o s) = Len(r) + Len(s) /\ Len(r) \in Nat /\ Len(s) \in Nat
      /\ \A i \in 1..Len(r) + Len(s) : (r \o s)[i] = IF i <= Len(r) THEN r[i] ELSE s[i - Len(r)]
  BY ConcatProperties
<1>2. \A i \in 1..Len(r) : i \in 1..Len(r) + Len(s) /\ i <= Len(r)
  BY <1>1
<1>3. \A i \in 1..Len(s) : Len(r) + i \in 1..Len(r) + Len(s) /\ ~(Len(r) + i <= Len(r)) /\ (Len(r) + i) - Len(r) = i
  BY <1>1
<1> QED
  BY <1>1, <1>2, <1>3

LEMMA HeadBehind ==
  ASSUME NEW U, NEW r, NEW s, r \in Seq(U), s \in Seq(U), NEW u, u = r \o s
  PROVE  /\ u \in Seq(U) /\ Len(u) = Len(r) + Len(s)
         /\ \A i \in 1..Len(r) : u[i] = r[i]
         /\ \A i \in 1..Len(s) : u[Len(r) + i] = s[i]
<1>1. /\ r \o s \in Seq(U) /\ Len(r \o s) = Len(r) + Len(s)
      /\ \A i \in 1..Len(r) : (r \o s)[i] = r[i]
      /\ \A i \in 1..Len(s) : (r \o s)[Len(r) + i] = s[i]
  BY Behind
<1> QED
  BY <1>1

LEMMA ResponseStarts == HttpInit => ResponseInv
<1> SUFFICES ASSUME HttpInit PROVE ResponseInv
  OBVIOUS
<1>1. response = [status |-> TRUE, statusMessage |-> "", isKeepAlive |-> FALSE, headers |-> <<>>, body |-> <<>>]
  BY DEF HttpInit, newResponse
<1>4. "" \in Messages
  BY DEF Messages
<1>2. HeadersOnce(<<>>)
  BY DEF HeadersOnce
<1>3. <<>> \in Seq(HeaderNames) /\ <<>> \in Seq(Filler)
  OBVIOUS
<1> QED
  BY <1>1, <1>2, <1>3, <1>4 DEF ResponseInv

LEMMA ResponseParts ==
  ASSUME ResponseInv
  PROVE  \E s \in BOOLEAN, t \in Messages, k \in BOOLEAN, h \in Seq(HeaderNames), b \in Seq(Filler) :
           /\ response = [status |-> s, statusMessage |-> t, isKeepAlive |-> k, headers |-> h, body |-> b]
           /\ HeadersOnce(h)
<1>1. response \in [status : BOOLEAN, statusMessage : Messages, isKeepAlive : BOOLEAN,
                    headers : Seq(HeaderNames), body : Seq(Filler)]
  BY DEF ResponseInv
<1>2. PICK s \in BOOLEAN, t \in Messages, k \in BOOLEAN, h \in Seq(HeaderNames), b \in Seq(Filler) :
        response = [status |-> s, statusMessage |-> t, isKeepAlive |-> k, headers |-> h, body |-> b]
  BY <1>1
<1>3. HeadersOnce(h)
  BY <1>2 DEF ResponseInv
<1> QED
  BY <1>2, <1>3

LEMMA HeaderAdded ==
  ASSUME NEW h, HeadersOnce(h), NEW name \in HeaderNames, name \notin ownHeaders, name \notin ToSet(h)
  PROVE  HeadersOnce(Append(h, name))
<1> DEFINE g == Append(h, name)
<1>1. /\ h \in Seq(HeaderNames) /\ Len(h) \in Nat /\ g \in Seq(HeaderNames) /\ Len(g) = Len(h) + 1
      /\ g[Len(h) + 1] = name /\ \A i \in 1..Len(h) : g[i] = h[i]
  BY AppendProperties DEF HeadersOnce
<1>2. \A i \in 1..Len(h) : h[i] # name
  BY <1>1 DEF ToSet
<1> HIDE DEF g
<1>3. \A i \in 1..Len(g) : i \in 1..Len(h) \/ i = Len(h) + 1
  BY <1>1
<1>4. \A i \in 1..Len(g) : g[i] \notin ownHeaders
  BY <1>1, <1>3 DEF HeadersOnce
<1>5. \A i, j \in 1..Len(g) : g[i] = g[j] => i = j
  BY <1>1, <1>2, <1>3 DEF HeadersOnce
<1> QED
  BY <1>1, <1>4, <1>5 DEF HeadersOnce, g

LEMMA ResponseStep == ResponseInv /\ [HttpNext]_httpVars => ResponseInv'
<1> SUFFICES ASSUME ResponseInv, [HttpNext]_httpVars PROVE ResponseInv'
  OBVIOUS
<1>0. PICK s \in BOOLEAN, t \in Messages, k \in BOOLEAN, h \in Seq(HeaderNames), b \in Seq(Filler) :
        /\ response = [status |-> s, statusMessage |-> t, isKeepAlive |-> k, headers |-> h, body |-> b]
        /\ HeadersOnce(h)
  BY ResponseParts
<1>1. CASE UNCHANGED response
  BY <1>1 DEF ResponseInv
<1>2. ASSUME NEW name \in HeaderNames, setHeader(name) PROVE ResponseInv'
  <2>1. CASE name \in ownHeaders \/ name \in ToSet(response.headers)
    BY <1>1, <1>2, <2>1 DEF setHeader
  <2>2. CASE ~(name \in ownHeaders \/ name \in ToSet(response.headers))
    <3> DEFINE g == Append(h, name)
    <3>1. HeadersOnce(g)
      BY <1>0, <2>2, HeaderAdded
    <3>2. response' = [response EXCEPT !.headers = g]
      BY <1>0, <1>2, <2>2 DEF setHeader
    <3>3. g \in Seq(HeaderNames)
      BY <3>1 DEF HeadersOnce
    <3> HIDE DEF g
    <3>4. response' = [status |-> s, statusMessage |-> t, isKeepAlive |-> k, headers |-> g, body |-> b]
      BY <1>0, <3>2
    <3> QED
      BY <3>1, <3>3, <3>4 DEF ResponseInv
  <2> QED
    BY <2>1, <2>2
<1>3. CASE setResponse(response)
  <2>1. ASSUME NEW ok \in BOOLEAN, NEW message \in Messages,
               response' = [response EXCEPT !.status = ok, !.statusMessage = message]
        PROVE  ResponseInv'
    <3>1. response' = [status |-> ok, statusMessage |-> message, isKeepAlive |-> k, headers |-> h, body |-> b]
      BY <1>0, <2>1
    <3> QED
      BY <1>0, <3>1 DEF ResponseInv
  <2>2. ASSUME NEW bodyLen \in {1, 2}, response' = [response EXCEPT !.body = [i \in 1..bodyLen |-> "byte"]]
        PROVE  ResponseInv'
    <3> DEFINE c == [i \in 1..bodyLen |-> "byte"]
    <3>1. c \in Seq(Filler)
      <4>1. bodyLen \in Nat /\ c \in [1..bodyLen -> Filler]
        BY DEF Filler
      <4> HIDE DEF c
      <4> QED
        BY <4>1, FunctionIsSeq
    <3> HIDE DEF c
    <3>2. response' = [status |-> s, statusMessage |-> t, isKeepAlive |-> k, headers |-> h, body |-> c]
      BY <1>0, <2>2 DEF c
    <3> QED
      BY <1>0, <3>1, <3>2 DEF ResponseInv
  <2>3. ASSUME NEW keepAlive \in BOOLEAN, response' = [response EXCEPT !.isKeepAlive = keepAlive]
        PROVE  ResponseInv'
    <3>1. response' = [status |-> s, statusMessage |-> t, isKeepAlive |-> keepAlive, headers |-> h, body |-> b]
      BY <1>0, <2>3
    <3> QED
      BY <1>0, <3>1 DEF ResponseInv
  <2> QED
    BY <1>3, <2>1, <2>2, <2>3 DEF setResponse, Messages
<1>4. CASE fillIn
  BY <1>2, <1>3, <1>4 DEF fillIn
<1>5. CASE UNCHANGED httpVars
  BY <1>1, <1>5 DEF httpVars
<1>6. CASE \/ \E r \in Requests : sendRequest(r)
           \/ \E n \in ((1..MaxPiece) \cup {Len(onTheWay)}) \ {0} : readHttp(n)
           \/ takeRequest \/ closeHttp
  BY <1>1, <1>6 DEF sendRequest, readHttp, takeRequest, closeHttp
<1> QED
  BY <1>4, <1>5, <1>6 DEF HttpNext

\* What is found at the places of the encoded response: the status, the connection, the
\* headers of the handler behind those of encode(), the empty line and the body.
Pairs == {"status", "Connection", "Content-Type", "Content-Length"} \cup HeaderNames

Laid(e, h, b, o) ==
  /\ Len(e) = 4 + o + Len(h) + Len(b)
  /\ e[1] # <<>>
  /\ e[2] # <<>> /\ e[2][1] = "Connection"
  /\ o = 1 => e[3] # <<>> /\ e[3][1] = "Content-Type"
  /\ e[3 + o] # <<>> /\ e[3 + o][1] = "Content-Length" /\ e[3 + o][2] = Len(b)
  /\ \A i \in 1..Len(h) : e[3 + o + i] # <<>> /\ e[3 + o + i][1] = h[i]
  /\ e[4 + o + Len(h)] = <<>>
  /\ \A i \in 1..Len(b) : e[4 + o + Len(h) + i] # <<>> /\ e[4 + o + Len(h) + i][1] = "byte"

LEMMA EncodedIsLaid ==
  ASSUME ResponseInv
  PROVE  Laid(encodeResponse(response), response.headers, response.body,
              IF "Content-Type" \in ToSet(response.headers) THEN 0 ELSE 1)
<1>0. PICK s \in BOOLEAN, t \in Messages, k \in BOOLEAN, h \in Seq(HeaderNames), b \in Seq(Filler) :
        /\ response = [status |-> s, statusMessage |-> t, isKeepAlive |-> k, headers |-> h, body |-> b]
        /\ HeadersOnce(h)
  BY ResponseParts
<1> DEFINE st == <<"status", IF t # "" THEN t ELSE IF s THEN "200" ELSE "404">>
           co == <<"Connection", IF k THEN "Keep-Alive" ELSE "close">>
           ty == <<"Content-Type", "text/html">>
           le == <<"Content-Length", Len(b)>>
           A == <<st, co>>
           B1 == IF "Content-Type" \in ToSet(h) THEN <<>> ELSE <<ty>>
           C == <<le>>
           D == [i \in 1..Len(h) |-> <<h[i], "value">>]
           E == << <<>> >>
           F == [i \in 1..Len(b) |-> <<b[i]>>]
           U == {st, co, ty, le, <<>>} \cup {D[i] : i \in 1..Len(h)} \cup {F[i] : i \in 1..Len(b)}
           o == IF "Content-Type" \in ToSet(h) THEN 0 ELSE 1
<1>1. encodeResponse(response) = ((((A \o B1) \o C) \o D) \o E) \o F
  BY <1>0 DEF encodeResponse
<1>2. /\ Len(h) \in Nat /\ Len(b) \in Nat /\ \A i \in 1..Len(b) : b[i] = "byte"
  <2>1. Len(h) \in Nat /\ Len(b) \in Nat /\ \A i \in 1..Len(b) : b[i] \in Filler
    OBVIOUS
  <2> QED
    BY <2>1 DEF Filler
<1>3. st \in U /\ co \in U /\ ty \in U /\ le \in U /\ <<>> \in U
  OBVIOUS
<1>4. D \in [1..Len(h) -> U] /\ \A i \in 1..Len(h) : D[i] = <<h[i], "value">>
  OBVIOUS
<1>5. F \in [1..Len(b) -> U] /\ \A i \in 1..Len(b) : F[i] = <<b[i]>>
  OBVIOUS
<1>6. st # <<>> /\ co # <<>> /\ co[1] = "Connection" /\ ty # <<>> /\ ty[1] = "Content-Type"
      /\ le # <<>> /\ le[1] = "Content-Length" /\ le[2] = Len(b)
  OBVIOUS
<1>61. (o = 0 /\ B1 = <<>>) \/ (o = 1 /\ B1 = <<ty>>)
  OBVIOUS
<1> HIDE DEF D, F, U, st, co, ty, le, o, B1
<1>62. D \in Seq(U) /\ Len(D) = Len(h) /\ F \in Seq(U) /\ Len(F) = Len(b)
  BY <1>2, <1>4, <1>5, FunctionIsSeq
<1>63. /\ A \in Seq(U) /\ Len(A) = 2 /\ A[1] = st /\ A[2] = co
       /\ C \in Seq(U) /\ Len(C) = 1 /\ C[1] = le
       /\ E \in Seq(U) /\ Len(E) = 1 /\ E[1] = <<>>
  <2> DEFINE z == <<>>
  <2>1. E = <<z>> /\ z \in U
    BY <1>3
  <2> HIDE DEF z, E
  <2>2. E \in Seq(U) /\ Len(E) = 1 /\ E[1] = z
    BY <2>1
  <2>3. A \in Seq(U) /\ Len(A) = 2 /\ A[1] = st /\ A[2] = co
    BY <1>3
  <2>4. C \in Seq(U) /\ Len(C) = 1 /\ C[1] = le
    BY <1>3
  <2> QED
    BY <2>2, <2>3, <2>4 DEF z
<1>64. B1 \in Seq(U) /\ Len(B1) = o /\ o \in {0, 1} /\ (o = 1 => B1[1] = ty)
  <2>1. <<>> \in Seq(U) /\ Len(<<>>) = 0
    OBVIOUS
  <2>2. <<ty>> \in Seq(U) /\ Len(<<ty>>) = 1 /\ <<ty>>[1] = ty
    BY <1>3
  <2>3. CASE o = 0 /\ B1 = <<>>
    BY <2>1, <2>3
  <2>4. CASE o = 1 /\ B1 = <<ty>>
    BY <2>2, <2>4
  <2> QED
    BY <1>61, <2>3, <2>4
<1> HIDE DEF A, C, E
<1>65. A \in Seq(U) /\ B1 \in Seq(U) /\ C \in Seq(U) /\ E \in Seq(U)
  BY ONLY <1>63, <1>64
<1> DEFINE v1 == A \o B1
           v2 == v1 \o C
           v3 == v2 \o D
           v4 == v3 \o E
           e == v4 \o F
<1>7. /\ v1 \in Seq(U) /\ Len(v1) = 2 + o /\ \A i \in 1..2 : v1[i] = A[i]
      /\ o = 1 => v1[3] = ty
  <2>0. v1 = A \o B1
    BY DEF v1
  <2> HIDE DEF v1
  <2>1. /\ v1 \in Seq(U) /\ Len(v1) = Len(A) + Len(B1)
        /\ \A i \in 1..Len(A) : v1[i] = A[i]
        /\ \A i \in 1..Len(B1) : v1[Len(A) + i] = B1[i]
    BY ONLY <2>0, <1>65, HeadBehind
  <2>2. o = 1 => 1 \in 1..o /\ 2 + 1 = 3
    BY <1>64
  <2> QED
    BY <1>63, <1>64, <2>1, <2>2
<1> HIDE DEF v1
<1>8. v2 \in Seq(U) /\ Len(v2) = 3 + o /\ (\A i \in 1..2 + o : v2[i] = v1[i]) /\ v2[3 + o] = le
  <2>0. v2 = v1 \o C
    BY DEF v2
  <2> HIDE DEF v2
  <2>1. /\ v2 \in Seq(U) /\ Len(v2) = Len(v1) + Len(C)
        /\ \A i \in 1..Len(v1) : v2[i] = v1[i]
        /\ \A i \in 1..Len(C) : v2[Len(v1) + i] = C[i]
    <3>1. v1 \in Seq(U)
      BY ONLY <1>7
    <3> QED
      BY ONLY <2>0, <3>1, <1>65, HeadBehind
  <2>2. (2 + o) + 1 = 3 + o /\ 1 \in 1..1
    BY <1>64
  <2> QED
    BY <1>7, <1>63, <2>1, <2>2
<1> HIDE DEF v2
<1>9. /\ v3 \in Seq(U) /\ Len(v3) = 3 + o + Len(h) /\ \A i \in 1..3 + o : v3[i] = v2[i]
      /\ \A i \in 1..Len(h) : v3[3 + o + i] = D[i]
  <2>0. v3 = v2 \o D
    BY DEF v3
  <2> HIDE DEF v3
  <2>1. /\ v3 \in Seq(U) /\ Len(v3) = Len(v2) + Len(D)
        /\ \A i \in 1..Len(v2) : v3[i] = v2[i]
        /\ \A i \in 1..Len(D) : v3[Len(v2) + i] = D[i]
    BY ONLY <2>0, <1>8, <1>62, HeadBehind
  <2> QED
    BY <1>8, <1>62, <2>1
<1> HIDE DEF v3
<1>10. /\ v4 \in Seq(U) /\ Len(v4) = 4 + o + Len(h) /\ \A i \in 1..3 + o + Len(h) : v4[i] = v3[i]
       /\ v4[4 + o + Len(h)] = <<>>
  <2>0. v4 = v3 \o E
    BY DEF v4
  <2> HIDE DEF v4
  <2>1. /\ v4 \in Seq(U) /\ Len(v4) = Len(v3) + Len(E)
        /\ \A i \in 1..Len(v3) : v4[i] = v3[i]
        /\ \A i \in 1..Len(E) : v4[Len(v3) + i] = E[i]
    <3>1. v3 \in Seq(U)
      BY ONLY <1>9
    <3> QED
      BY ONLY <2>0, <3>1, <1>65, HeadBehind
  <2>2. (3 + o + Len(h)) + 1 = 4 + o + Len(h) /\ 1 \in 1..1
    BY <1>2, <1>64
  <2> QED
    BY <1>9, <1>63, <2>1, <2>2
<1> HIDE DEF v4
<1>11. /\ e \in Seq(U) /\ Len(e) = 4 + o + Len(h) + Len(b) /\ \A i \in 1..4 + o + Len(h) : e[i] = v4[i]
       /\ \A i \in 1..Len(b) : e[4 + o + Len(h) + i] = F[i]
  <2>0. e = v4 \o F
    BY DEF e
  <2> HIDE DEF e
  <2>1. /\ e \in Seq(U) /\ Len(e) = Len(v4) + Len(F)
        /\ \A i \in 1..Len(v4) : e[i] = v4[i]
        /\ \A i \in 1..Len(F) : e[Len(v4) + i] = F[i]
    BY ONLY <2>0, <1>10, <1>62, HeadBehind
  <2> QED
    BY <1>10, <1>62, <2>1
<1> HIDE DEF e
<1>111. /\ \A i \in 1..3 + o : i \in 1..3 + o + Len(h) /\ i \in 1..4 + o + Len(h)
        /\ 1 \in 1..2 /\ 2 \in 1..2 /\ 1 \in 1..2 + o /\ 2 \in 1..2 + o /\ 3 + o \in 1..3 + o /\ (o = 1 => 3 \in 1..2 + o)
        /\ \A i \in 1..2 + o : i \in 1..3 + o
        /\ 4 + o + Len(h) \in 1..4 + o + Len(h)
        /\ \A i \in 1..Len(h) : 3 + o + i \in 1..3 + o + Len(h) /\ 3 + o + i \in 1..4 + o + Len(h)
  BY <1>2, <1>64
<1>112. \A i \in 1..3 + o : e[i] = v2[i]
  BY <1>9, <1>10, <1>11, <1>111
<1>12. e[1] = st /\ e[2] = co /\ (o = 1 => e[3] = ty) /\ e[3 + o] = le /\ e[4 + o + Len(h)] = <<>>
  <2>1. e[1] = v1[1] /\ e[2] = v1[2] /\ (o = 1 => e[3] = v1[3]) /\ e[3 + o] = v2[3 + o]
    BY <1>8, <1>111, <1>112
  <2> QED
    BY <1>7, <1>8, <1>10, <1>11, <1>63, <1>111, <2>1
<1>13. \A i \in 1..Len(h) : e[3 + o + i] = <<h[i], "value">>
  BY <1>4, <1>9, <1>10, <1>11, <1>111
<1>14. \A i \in 1..Len(h) : e[3 + o + i] # <<>> /\ e[3 + o + i][1] = h[i]
  BY <1>13
<1>15. \A i \in 1..Len(b) : e[4 + o + Len(h) + i] # <<>> /\ e[4 + o + Len(h) + i][1] = "byte"
  <2>1. \A i \in 1..Len(b) : e[4 + o + Len(h) + i] = <<"byte">>
    BY <1>2, <1>5, <1>11
  <2> QED
    BY <2>1
<1>16. Laid(e, h, b, o)
  BY <1>6, <1>11, <1>12, <1>14, <1>15 DEF Laid
<1>17. encodeResponse(response) = e
  BY <1>1 DEF e, v1, v2, v3, v4
<1> QED
  BY <1>0, <1>16, <1>17 DEF o


LEMMA LaidIsFramed ==
  ASSUME NEW e, NEW h, NEW b, NEW o \in {0, 1}, HeadersOnce(h), Len(b) \in Nat, Laid(e, h, b, o),
         o = 0 <=> "Content-Type" \in ToSet(h)
  PROVE  LET named(n) == {i \in 2..Len(e) : e[i] # <<>> /\ e[i][1] = n}
             empty == CHOOSE i \in 1..Len(e) : e[i] = <<>>
         IN \A n \in {"Connection", "Content-Type", "Content-Length"} :
              /\ Cardinality(named(n)) = 1
              /\ \A i \in named(n) : i < empty /\ (n = "Content-Length" => e[i][2] = Len(e) - empty)
<1> DEFINE named(n) == {i \in 2..Len(e) : e[i] # <<>> /\ e[i][1] = n}
           empty == CHOOSE i \in 1..Len(e) : e[i] = <<>>
           last == Len(h)
           p == 4 + o + last
<1>1. last \in Nat /\ Len(b) \in Nat /\ o \in {0, 1} /\ Len(e) = p + Len(b)
  <2>1. h \in Seq(HeaderNames)
    BY DEF HeadersOnce
  <2>2. Len(h) \in Nat
    BY <2>1
  <2> QED
    BY <2>2 DEF Laid
<1>2. /\ \A i \in 1..last : h[i] # "Connection" /\ h[i] # "Content-Length"
      /\ \A i, j \in 1..last : h[i] = h[j] => i = j
  BY DEF HeadersOnce, ownHeaders
<1>3. o = 0 <=> \E k \in 1..last : h[k] = "Content-Type"
  BY DEF ToSet
<1>4. /\ e[1] # <<>> /\ e[2] # <<>> /\ (o = 1 => e[3] # <<>>) /\ e[3 + o] # <<>>
      /\ \A i \in 1..last : e[3 + o + i] # <<>>
      /\ e[p] = <<>>
      /\ \A i \in 1..Len(b) : e[p + i] # <<>>
  BY DEF Laid
<1>5. /\ e[2][1] = "Connection" /\ (o = 1 => e[3][1] = "Content-Type")
      /\ e[3 + o][1] = "Content-Length" /\ e[3 + o][2] = Len(b)
      /\ \A i \in 1..last : e[3 + o + i][1] = h[i]
      /\ \A i \in 1..Len(b) : e[p + i][1] = "byte"
  BY DEF Laid
<1> HIDE DEF last
<1>6. ASSUME NEW i \in 1..Len(e)
      PROVE  \/ i = 1 \/ i = 2 \/ (i = 3 /\ o = 1) \/ i = 3 + o
             \/ \E k \in 1..last : i = 3 + o + k
             \/ i = p
             \/ \E k \in 1..Len(b) : i = p + k
  <2>1. i \in Int /\ 1 <= i /\ i <= p + Len(b)
    BY <1>1
  <2>2. CASE i < p
    <3>1. i < 4 + o \/ (i - (3 + o) \in 1..last /\ i = 3 + o + (i - (3 + o)))
      BY <1>1, <2>1, <2>2
    <3>2. i < 4 + o => i = 1 \/ i = 2 \/ (i = 3 /\ o = 1) \/ i = 3 + o
      <4>1. o = 0 \/ o = 1
        OBVIOUS
      <4> QED
        BY ONLY <2>1, <4>1
    <3> QED
      BY <3>1, <3>2
  <2>3. CASE i = p
    BY <2>3
  <2>4. CASE i > p
    <3>1. i - p \in 1..Len(b) /\ i = p + (i - p)
      BY <1>1, <2>1, <2>4
    <3> QED
      BY <3>1
  <2> QED
    BY <1>1, <2>1, <2>2, <2>3, <2>4
<1>7. p \in 1..Len(e) /\ p \in Nat
  BY <1>1
<1>8. \A i \in 1..Len(e) : e[i] = <<>> => i = p
  BY <1>4, <1>6
<1>9. empty = p
  BY <1>4, <1>7, <1>8
<1>10. /\ 2 \in 2..Len(e) /\ 2 < p
       /\ 3 + o \in 2..Len(e) /\ 3 + o < p /\ 3 \in 2..Len(e) /\ 3 < p
       /\ \A k \in 1..last : 3 + o + k \in 2..Len(e) /\ 3 + o + k < p
       /\ \A i \in 2..Len(e) : i \in 1..Len(e) /\ i # 1
       /\ Len(b) = Len(e) - p
  BY <1>1
<1> HIDE DEF p, empty
<1>101. ASSUME NEW i \in 2..Len(e), e[i] # <<>>
        PROVE  \/ i = 2 \/ (i = 3 /\ o = 1 /\ e[i][1] = "Content-Type") \/ i = 3 + o
               \/ \E k \in 1..last : i = 3 + o + k /\ e[i][1] = h[k]
               \/ e[i][1] = "byte"
  <2>1. i \in 1..Len(e) /\ i # 1
    BY <1>10
  <2>2. i # p
    BY <1>4, <1>101
  <2> QED
    BY <1>5, <1>6, <2>1, <2>2
<1>11. ASSUME NEW i \in 2..Len(e), e[i] # <<>>, e[i][1] = "Connection" PROVE i = 2
  BY <1>2, <1>5, <1>11, <1>101
<1>12. ASSUME NEW i \in 2..Len(e), e[i] # <<>>, e[i][1] = "Content-Length" PROVE i = 3 + o
  BY <1>2, <1>5, <1>12, <1>101
<1>13. \E c \in 2..Len(e) : /\ e[c] # <<>> /\ e[c][1] = "Content-Type" /\ c < p
                            /\ \A i \in 2..Len(e) : e[i] # <<>> /\ e[i][1] = "Content-Type" => i = c
  <2>1. CASE o = 1
    <3>1. ASSUME NEW i \in 2..Len(e), e[i] # <<>>, e[i][1] = "Content-Type" PROVE i = 3
      <4>1. \A k \in 1..last : h[k] # "Content-Type"
        BY <1>3, <2>1
      <4> QED
        BY <1>5, <1>101, <3>1, <4>1
    <3> QED
      BY <1>4, <1>5, <1>10, <2>1, <3>1
  <2>2. CASE o = 0
    <3>1. PICK k \in 1..last : h[k] = "Content-Type"
      BY <1>3, <2>2
    <3>2. \A j \in 1..last : h[j] = "Content-Type" => j = k
      BY <1>2, <3>1
    <3>3. ASSUME NEW i \in 2..Len(e), e[i] # <<>>, e[i][1] = "Content-Type" PROVE i = 3 + o + k
      BY <1>5, <1>101, <2>2, <3>2, <3>3
    <3> QED
      BY <1>4, <1>5, <1>10, <3>1, <3>3
  <2> QED
    BY <2>1, <2>2
<1> HIDE DEF named
<1>14. ASSUME NEW n, NEW c, c \in 2..Len(e), e[c] # <<>>, e[c][1] = n,
              \A i \in 2..Len(e) : e[i] # <<>> /\ e[i][1] = n => i = c
       PROVE  named(n) = {c} /\ Cardinality(named(n)) = 1
  <2>1. named(n) = {c}
    BY <1>14 DEF named
  <2> QED
    BY <2>1, FS_Singleton
<1>15. named("Connection") = {2} /\ Cardinality(named("Connection")) = 1
  BY <1>4, <1>5, <1>10, <1>11, <1>14
<1>16. named("Content-Length") = {3 + o} /\ Cardinality(named("Content-Length")) = 1
  BY <1>4, <1>5, <1>10, <1>12, <1>14
<1>17. PICK c : named("Content-Type") = {c} /\ Cardinality(named("Content-Type")) = 1 /\ c < p
  BY <1>13, <1>14
<1>18. "Connection" # "Content-Length" /\ "Content-Type" # "Content-Length"
  OBVIOUS
<1>19. ASSUME NEW n \in {"Connection", "Content-Type", "Content-Length"}
       PROVE  /\ Cardinality(named(n)) = 1
              /\ \A i \in named(n) : i < empty /\ (n = "Content-Length" => e[i][2] = Len(e) - empty)
  BY <1>5, <1>9, <1>10, <1>15, <1>16, <1>17, <1>18
<1> QED
  BY <1>19 DEF named, empty

LEMMA ResponseEnds == ResponseInv => ResponseIsFramed
<1> SUFFICES ASSUME ResponseInv PROVE ResponseIsFramed
  OBVIOUS
<1> DEFINE e == encodeResponse(response)
           h == response.headers
           b == response.body
           o == IF "Content-Type" \in ToSet(h) THEN 0 ELSE 1
<1>1. Laid(e, h, b, o)
  BY EncodedIsLaid
<1>2. o \in {0, 1} /\ (o = 0 <=> "Content-Type" \in ToSet(h))
  OBVIOUS
<1>3. HeadersOnce(h)
  BY DEF ResponseInv
<1>4. Len(b) \in Nat
  <2>1. b \in Seq(Filler)
    BY DEF ResponseInv
  <2> QED
    BY <2>1
<1> HIDE DEF e, h, b, o
<1>5. LET named(n) == {i \in 2..Len(e) : e[i] # <<>> /\ e[i][1] = n}
          empty == CHOOSE i \in 1..Len(e) : e[i] = <<>>
      IN \A n \in {"Connection", "Content-Type", "Content-Length"} :
           /\ Cardinality(named(n)) = 1
           /\ \A i \in named(n) : i < empty /\ (n = "Content-Length" => e[i][2] = Len(e) - empty)
  BY <1>1, <1>2, <1>3, <1>4, LaidIsFramed
<1> QED
  BY <1>5 DEF ResponseIsFramed, e

-----------------------------------------------------------------------------
(* What is said on a stream *)

\* However the bytes of a stream are cut up by reads, writes and the buffers that grow and
\* shrink, and whichever reader cuts it: while the peer has not cut a packet off, the packets
\* are handled in the order in which they were posted, each at most once and with the body it
\* was sent with, and once nothing is on its way every packet that can be encoded has been
\* handled; and read() is never called without room, for it would take the 0 for a closed
\* connection (src/tbnet/src/tcpconnection.cpp:77-242, defaultpacketstreamer.cpp:48-110,
\* databuffer.h:404-447). A response of HTTP has one header of each kind that tells the
\* client how to go on, whatever a handler sets (httpresponsepacket.cpp:47-103).
THEOREM StreamIsSafe == Spec => []StreamSafe
<1>1. Init => StreamInv /\ ResponseInv
  BY StreamStarts, ResponseStarts DEF Init
<1>2. [Next]_vars => [StreamNext]_streamVars /\ [HttpNext]_httpVars
  BY DEF Next, only, vars
<1>3. StreamInv /\ [Next]_vars => StreamInv'
  BY <1>2, StreamStep
<1>4. ResponseInv /\ [Next]_vars => ResponseInv'
  BY <1>2, ResponseStep
<1>5. StreamInv /\ ResponseInv => StreamSafe
  BY StreamEnds, ResponseEnds DEF StreamSafe
<1> QED
  BY <1>1, <1>3, <1>4, <1>5, PTL DEF Spec

-----------------------------------------------------------------------------
(* The types of all components *)

\* The types of the HTTP stream; what was taken is a sequence.
HttpInv ==
  /\ HttpTypeOK
  /\ taken \in Seq({taken[i] : i \in 1..Len(taken)})

LEMMA HttpStarts == HttpInit => HttpInv
<1> SUFFICES ASSUME HttpInit PROVE HttpInv
  OBVIOUS
<1>1. /\ requests = <<>> /\ taken = <<>> /\ isBroken = FALSE /\ response = newResponse
  BY DEF HttpInit
<1>2. taken \in Seq({taken[i] : i \in 1..Len(taken)}) /\ requests \in Seq(Requests)
  BY <1>1
<1>3. ToSet(taken) = {}
  BY <1>1 DEF ToSet
<1> QED
  BY <1>1, <1>2, <1>3 DEF HttpInv, HttpTypeOK

LEMMA ResponsesStay ==
  ASSUME DOMAIN response = DOMAIN newResponse, fillIn
  PROVE  DOMAIN response' = DOMAIN newResponse
<1>1. CASE \E name \in HeaderNames : setHeader(name)
  BY <1>1 DEF setHeader
<1>2. CASE setResponse(response)
  BY <1>2 DEF setResponse
<1> QED
  BY <1>1, <1>2 DEF fillIn

LEMMA HttpStep == HttpInv /\ [HttpNext]_httpVars => HttpInv'
<1> SUFFICES ASSUME HttpInv, [HttpNext]_httpVars PROVE HttpInv'
  OBVIOUS
<1>1. /\ requests \in Seq(Requests) /\ isBroken \in BOOLEAN
      /\ \A r \in ToSet(taken) : DOMAIN r = {"query", "isKeepAlive", "headers"}
      /\ DOMAIN response = DOMAIN newResponse
      /\ taken \in Seq({taken[i] : i \in 1..Len(taken)})
  BY DEF HttpInv, HttpTypeOK
<1>2. CASE UNCHANGED <<taken, isBroken, response>> /\ requests' \in Seq(Requests)
  BY <1>1, <1>2 DEF HttpInv, HttpTypeOK, ToSet
<1>3. CASE \E r \in Requests : sendRequest(r)
  BY <1>1, <1>2, <1>3, AppendProperties DEF sendRequest
<1>4. CASE \E n \in ((1..MaxPiece) \cup {Len(onTheWay)}) \ {0} : readHttp(n)
  BY <1>1, <1>2, <1>4 DEF readHttp
<1>5. CASE takeRequest
  <2> DEFINE e == decodeHttp(SubSeq(httpInput, 1, requestLen(httpInput)))
             S == {taken[i] : i \in 1..Len(taken)} \cup {e}
             T == Append(taken, e)
  <2>1. DOMAIN e = {"query", "isKeepAlive", "headers"}
    BY DEF decodeHttp
  <2>2. taken' = T /\ UNCHANGED <<requests, isBroken, response>>
    BY <1>5 DEF takeRequest
  <2> HIDE DEF e
  <2>3. /\ T \in Seq(S) /\ Len(T) = Len(taken) + 1 /\ Len(taken) \in Nat
        /\ \A i \in 1..Len(taken) : T[i] = taken[i]
        /\ T[Len(taken) + 1] = e
    <3>1. taken \in Seq(S)
      BY <1>1, SeqMonotonic
    <3> HIDE DEF S
    <3> QED
      BY <3>1, AppendProperties, LenProperties DEF S
  <2>4. \A i \in 1..Len(T) : T[i] = e \/ T[i] \in ToSet(taken)
    BY <2>3 DEF ToSet
  <2>5. T \in Seq({T[i] : i \in 1..Len(T)})
    BY <2>3
  <2>6. \A r \in ToSet(T) : DOMAIN r = {"query", "isKeepAlive", "headers"}
    BY <1>1, <2>1, <2>4, <2>3 DEF ToSet
  <2> QED
    BY <1>1, <2>2, <2>5, <2>6 DEF HttpInv, HttpTypeOK
<1>6. CASE closeHttp
  BY <1>1, <1>6 DEF closeHttp, HttpInv, HttpTypeOK, ToSet
<1>7. CASE fillIn
  <2>1. DOMAIN response' = DOMAIN newResponse
    BY <1>1, <1>7, ResponsesStay
  <2>2. UNCHANGED <<requests, taken, isBroken>>
    BY <1>7 DEF fillIn
  <2> QED
    BY <1>1, <2>1, <2>2 DEF HttpInv, HttpTypeOK, ToSet
<1>8. CASE UNCHANGED httpVars
  BY <1>1, <1>2, <1>8 DEF httpVars
<1> QED
  BY <1>3, <1>4, <1>5, <1>6, <1>7, <1>8 DEF HttpNext

\* Whichever component runs, every variable keeps its type: _state and the descriptor of a
\* TCPComponent, the buffers and the header of a stream, the requests and the response of an
\* HTTP connection, the pointers and the map of a ChannelPool, the map and the callers of a
\* ConnectionManager, and the fields of a PacketQueue (src/tbnet/src/tcpcomponent.h:87-91,
\* tcpconnection.h:74-80, channelpool.h:83-96, connectionmanager.h:84-94,
\* packetqueue.h:88-92).
THEOREM TbnetIsTyped == Spec => []TypeOK
<1> DEFINE Inv == part \in Parts /\ TcpInv /\ StreamInv /\ HttpInv /\ ChannelInv /\ ManagerInv /\ QueueInv
<1>1. Init => Inv
  BY TcpStarts, StreamStarts, HttpStarts, ChannelStarts, ManagerStarts, QueueStarts DEF Init
<1>2. [Next]_vars => /\ [StreamNext]_streamVars /\ [HttpNext]_httpVars /\ [ChannelNext]_channelVars
                     /\ [QueueNext]_queueVars /\ UNCHANGED part
  BY DEF Next, only, vars
<1>3. Inv /\ [Next]_vars => Inv'
  BY <1>2, TcpKept, StreamStep, HttpStep, ChannelStep, ManagerKept, QueueStep
<1>4. Inv => TypeOK
  <2> SUFFICES ASSUME Inv PROVE TypeOK
    OBVIOUS
  <2>1. TcpTypeOK
    BY DEF TcpInv, Shape, Typed, isDescriptor, Connecting, TcpTypeOK
  <2>2. StreamTypeOK /\ HttpTypeOK /\ ChannelTypeOK /\ ManagerTypeOK /\ QueueTypeOK
    BY StreamIsTyped DEF HttpInv, ChannelInv, ManagerInv, QueueInv
  <2> QED
    BY <2>1, <2>2 DEF TypeOK
<1> QED
  BY <1>1, <1>3, <1>4, PTL DEF Spec

=============================================================================
