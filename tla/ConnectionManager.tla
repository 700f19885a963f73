-------------------------- MODULE ConnectionManager --------------------------
(***************************************************************************)
(* tbnet::ConnectionManager: one auto-reconnect connection to each server, *)
(* made on demand and shared by all threads. _connectMap is guarded by     *)
(* _mutex; the flag _status is not, and a connection that getConnection    *)
(* returns is used after the mutex is released.                            *)
(***************************************************************************)
EXTENDS FiniteSets, Naturals

CONSTANTS
  Callers,    \* the threads that use the manager
  ServerIds,  \* the servers
  Conns       \* the connections that Transport::connect may make

ASSUME ConnectionManagerAssumption ==
  IsFiniteSet(Callers) /\ ServerIds # {} /\ "unset" \notin Conns

VARIABLES
  connectMap,     \* _connectMap
  status,         \* _status
  connState,      \* what the transport has made of a connection
  mgrPc, call,    \* where a thread is, and its call
  inside          \* the threads that had read _status when cleanup set it

managerVars == <<connectMap, status, connState, mgrPc, call, inside>>

\* The setters that a call has left for the connection that it obtains.
Call == [server : ServerIds, conn : Conns \cup {"unset"}, todo : 0..3]

ManagerTypeOK ==
  /\ DOMAIN connectMap \subseteq ServerIds
  /\ \A s \in DOMAIN connectMap : connectMap[s] \in Conns
  /\ status \in {"on", "cleaning", "clean"}
  /\ connState \in [Conns -> {"none", "open", "released"}]
  /\ mgrPc \in [Callers -> {"idle", "tested", "holds"}] /\ call \in [Callers -> Call]
  /\ inside \subseteq Callers

noCall == [server |-> CHOOSE s \in ServerIds : TRUE, conn |-> "unset", todo |-> 0]

ManagerInit ==
  /\ connectMap = <<>> /\ status = "on"
  /\ connState = [c \in Conns |-> "none"]
  /\ mgrPc = [t \in Callers |-> "idle"] /\ call = [t \in Callers |-> noCall] /\ inside = {}

-----------------------------------------------------------------------------

returns(t) == mgrPc' = [mgrPc EXCEPT ![t] = "idle"] /\ call' = [call EXCEPT ![t] = noCall]

\* The unlocked test at the beginning of getConnection: of sendPacket and of
\* getConnection itself, of a setDefault...() and of connect().
testStatus(t) ==
  /\ mgrPc[t] = "idle" /\ status = "on"
  /\ \E s \in ServerIds, n \in {0, 1, 3} :
       call' = [call EXCEPT ![t] = [noCall EXCEPT !.server = s, !.todo = n]]
  /\ mgrPc' = [mgrPc EXCEPT ![t] = "tested"]
  /\ UNCHANGED <<connectMap, status, connState, inside>>

obtains(t, c) ==
  call' = [call EXCEPT ![t].conn = c] /\ mgrPc' = [mgrPc EXCEPT ![t] = "holds"]

findConnection(t) ==
  LET s == call[t].server
  IN /\ mgrPc[t] = "tested" /\ s \in DOMAIN connectMap
     /\ obtains(t, connectMap[s])
     /\ UNCHANGED <<connectMap, status, connState, inside>>

\* The map with the new connection.
\* Seeded fault: the connection is not entered.
enteredNot(s, c) == connectMap
entered(s, c) == [x \in DOMAIN connectMap \cup {s} |-> IF x = s THEN c ELSE connectMap[x]]

makeConnection(t) ==
  LET s == call[t].server
  IN /\ mgrPc[t] = "tested" /\ s \notin DOMAIN connectMap
     /\ \E c \in Conns :
          /\ connState[c] = "none" /\ connState' = [connState EXCEPT ![c] = "open"]
          /\ connectMap' = entered(s, c)
          /\ obtains(t, c)
     /\ UNCHANGED <<status, inside>>

\* Transport::connect fails for want of an address or a socket.
connectRefused(t) ==
  /\ mgrPc[t] = "tested" /\ call[t].server \notin DOMAIN connectMap
  /\ returns(t)
  /\ UNCHANGED <<connectMap, status, connState, inside>>

\* The setters of connect() and setDefault...(), outside of the mutex, one by one.
setOne(t) ==
  /\ mgrPc[t] = "holds" /\ call[t].todo > 0 /\ call' = [call EXCEPT ![t].todo = @ - 1]
  /\ UNCHANGED <<connectMap, status, connState, mgrPc, inside>>

\* postPacket in sendPacket, or the caller has its connection.
useConnection(t) ==
  /\ mgrPc[t] = "holds" /\ call[t].todo = 0 /\ returns(t)
  /\ UNCHANGED <<connectMap, status, connState, inside>>

-----------------------------------------------------------------------------

\* Transport::disconnect of the connections C.
releasedConns(C) == [c \in Conns |-> IF c \in C THEN "released" ELSE connState[c]]

\* The map without the server.
\* Seeded fault: the entry stays.
erasedNot(s) == connectMap
erased(s) == [x \in DOMAIN connectMap \ {s} |-> connectMap[x]]

disconnectServer(t, s) ==
  /\ mgrPc[t] = "idle" /\ s \in DOMAIN connectMap
  /\ connState' = releasedConns({connectMap[s]}) /\ connectMap' = erased(s)
  /\ UNCHANGED <<status, mgrPc, call, inside>>

\* cleanup() sets the flag first, then it takes the mutex.
cleanupFlag ==
  /\ status = "on" /\ status' = "cleaning" /\ inside' = {t \in Callers : mgrPc[t] = "tested"}
  /\ UNCHANGED <<connectMap, connState, mgrPc, call>>

cleanupAll ==
  /\ status = "cleaning" /\ status' = "clean"
  /\ connState' = releasedConns({connectMap[s] : s \in DOMAIN connectMap})
  /\ connectMap' = <<>>
  /\ UNCHANGED <<mgrPc, call, inside>>

ManagerNext ==
  \/ cleanupFlag \/ cleanupAll
  \/ \E t \in Callers :
       \/ testStatus(t) \/ findConnection(t) \/ makeConnection(t) \/ connectRefused(t)
       \/ setOne(t) \/ useConnection(t)
       \/ \E s \in ServerIds : disconnectServer(t, s)

-----------------------------------------------------------------------------

\* The open connections are those of the map, one for each server: none is lost,
\* made twice, or handed out after it was disconnected.
MapIsOpenConnections ==
  /\ {connectMap[s] : s \in DOMAIN connectMap} = {c \in Conns : connState[c] = "open"}
  /\ \A s, u \in DOMAIN connectMap : connectMap[s] = connectMap[u] => s = u

\* After cleanup() only a getConnection that had read _status before it, without
\* the mutex, leaves a connection behind; with no such call none is (line 50).
CleanupLeavesOnlyTheEarly ==
  status = "clean" => Cardinality(DOMAIN connectMap) <= Cardinality(inside)
=============================================================================
