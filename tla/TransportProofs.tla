--------------------------- MODULE TransportProofs ---------------------------
(***************************************************************************)
(* Proofs, for any number of components and any bounds, of the safety      *)
(* properties of Transport: no thread uses a deleted IOComponent.          *)
(***************************************************************************)
EXTENDS Transport, TLAPS

(* The parts of the inductive invariant. *)

\* What the timeout thread walks is what the list it took still holds.
SnapInv ==
  /\ mylist \subseteq iocList \cup delList
  /\ mylist \cap delList # {} => changed
  /\ toPc \in {"done", "destroyed"} => mylist = {} /\ mydel = {}
  /\ toPc = "reap" => todo \subseteq mydel

\* Only the event loop takes a component out of the epoll set and off the list.
EventInv ==
  /\ registered \subseteq iocList
  /\ hup \cup connecting \cup shut \cup batch \subseteq registered
  /\ rwPc \in {"poll", "done"} => batch = {}
  /\ rwPc \in {"poll", "next", "done"} => cur = NoIOC
  /\ rwPc \in {"handle", "drain", "accept", "remove"} => cur \in registered \ batch

\* A client is on the list from connect() to disconnect() if it reconnects.
UserInv ==
  \A c \in Clients :
    /\ userPc[c] = "new" <=> Fresh(c)
    /\ userPc[c] = "added" => c \in iocList \ registered
    /\ destroyed => userPc[c] \in {"new", "open", "closed"}
    /\ c \notin AutoClients => ~autoReconn[c]
    /\ c \in AutoClients /\ userPc[c] \in {"new", "added", "evented", "open"} =>
         autoReconn[c]
    /\ c \in AutoClients /\ userPc[c] \in {"added", "evented", "open"} =>
         c \in iocList \/ (destroyed /\ c \in freed)

\* The references of handlers, workers and owners are counted.
RefInv ==
  /\ \A c \in IOComponents : Fresh(c) => ref[c] = 0 /\ held[c] = 0
  /\ \A c \in Clients : held[c] = 0
  /\ \A c \in Clients :
       userPc[c] \in {"open", "flagged"} /\ (c \in iocList \/ c \in AutoClients) =>
         ref[c] >= 1 + handling(c)

\* A counted reference is lost only to the 15 minute valve.
ValveInv ==
  /\ \A c \in AutoClients : userPc[c] = "flagged" /\ c \in freed => idle[c]
  /\ WorkerPointerLive

IInv == /\ TypeOK /\ ListsDisjoint /\ SnapInv /\ EventInv /\ UserInv
        /\ RefInv /\ RefCovers /\ ValveInv

-----------------------------------------------------------------------------

LEMMA InitInvariant == Init => IInv
<1> SUFFICES ASSUME Init PROVE IInv
  OBVIOUS
<1> USE KindsDisjoint, BoundsOK DEF Init, IOComponents
<1>1. autoReconn \in [Clients -> BOOLEAN]
  OBVIOUS
<1>2. TypeOK
  <2>1. /\ ref \in [IOComponents -> Int] /\ held \in [IOComponents -> Nat]
        /\ idle \in [IOComponents -> BOOLEAN]
    OBVIOUS
  <2> QED BY <1>1, <2>1 DEF TypeOK
<1>3. ListsDisjoint /\ SnapInv /\ EventInv
  BY DEF ListsDisjoint, SnapInv, EventInv
<1>4. UserInv
  <2> SUFFICES ASSUME NEW c \in Clients
               PROVE  /\ userPc[c] = "new" /\ Fresh(c)
                      /\ autoReconn[c] = (c \in AutoClients)
    BY DEF UserInv
  <2> QED BY DEF Fresh
<1>5. RefInv /\ RefCovers /\ ValveInv
  BY DEF RefInv, RefCovers, ValveInv, WorkerPointerLive, Fresh, destroyed,
         handling
<1> QED BY <1>2, <1>3, <1>4, <1>5 DEF IInv

\* The calls of user threads and workers, and stop() and wait().
LEMMA UserSteps ==
  ASSUME IInv,
         \/ \E a \in Acceptors : listen(a)
         \/ \E c \in Clients : User(c)
         \/ \E s \in Servers : serverReply(s)
         \/ stopTransport \/ waitDestroy
  PROVE  IInv'
<1> USE KindsDisjoint, BoundsOK
    DEF IInv, TypeOK, ListsDisjoint, SnapInv, EventInv, UserInv, RefInv,
        RefCovers, ValveInv, WorkerPointerLive, Fresh, destroyed, handling,
        IOComponents, listVars, netVars, refVars, rwVars, toVars, userVars
<1>1. ASSUME NEW a \in Acceptors, listen(a) PROVE IInv'
  BY <1>1 DEF listen, addToList, markChanged
<1>2. ASSUME NEW c \in Clients, connectAdd(c) PROVE IInv'
  BY <1>2 DEF connectAdd, addToList, markChanged
<1>3. ASSUME NEW c \in Clients, connectAddEvent(c) PROVE IInv'
  <2>1. /\ registered' \subseteq registered \cup {c}
        /\ registered \subseteq registered' /\ connecting' \subseteq registered'
        /\ UNCHANGED <<hup, shut>> /\ connecting' \subseteq Clients
    BY <1>3 DEF connectAddEvent, socketConnect
  <2> QED BY <1>3, <2>1 DEF connectAddEvent
<1>4. ASSUME NEW c \in Clients, connectAddRef(c) PROVE IInv'
  <2>1. TypeOK' /\ ListsDisjoint' /\ SnapInv' /\ EventInv' /\ UserInv'
    BY <1>4 DEF connectAddRef, takeRef
  <2>2. RefCovers' /\ ValveInv'
    BY <1>4 DEF connectAddRef, takeRef
  <2>3. ~Fresh(c) /\ userPc' = [userPc EXCEPT ![c] = "open"]
    BY <1>4 DEF connectAddRef
  <2>4. RefInv'
    BY <1>4, <2>3 DEF connectAddRef, takeRef
  <2> QED BY <2>1, <2>2, <2>4
<1>5. ASSUME NEW c \in Clients, reconnect(c) PROVE IInv'
  BY <1>5 DEF reconnect, isAutoReconn, socketConnect
<1>6. ASSUME NEW c \in Clients, disconnectFlag(c) PROVE IInv'
  BY <1>6 DEF disconnectFlag, clearAutoReconn
<1>7. ASSUME NEW c \in Clients, disconnectSub(c) PROVE IInv'
  BY <1>7 DEF disconnectSub, dropRef
<1>8. ASSUME NEW c \in Clients, disconnectShutdown(c) PROVE IInv'
  BY <1>8 DEF disconnectShutdown
<1>9. ASSUME NEW s \in Servers, serverReply(s) PROVE IInv'
  BY <1>9 DEF serverReply, owesReply, dropRef
<1>10. CASE stopTransport
  BY <1>10 DEF stopTransport
<1>11. CASE waitDestroy
  BY <1>11 DEF waitDestroy
<1> QED
  BY <1>1, <1>2, <1>3, <1>4, <1>5, <1>6, <1>7, <1>8, <1>9, <1>10, <1>11 DEF User

\* The network, the clock and the event loop.
LEMMA ReadWriteSteps ==
  ASSUME IInv,
         \/ \E c \in IOComponents : peerCloses(c) \/ age(c)
         \/ ReadWriteThread
  PROVE  IInv'
<1> USE KindsDisjoint, BoundsOK
    DEF IInv, TypeOK, ListsDisjoint, SnapInv, EventInv, UserInv, RefInv,
        RefCovers, ValveInv, WorkerPointerLive, Fresh, destroyed, handling,
        IOComponents, listVars, netVars, refVars, rwVars, toVars, userVars
<1>1. ASSUME NEW c \in IOComponents, peerCloses(c) PROVE IInv'
  BY <1>1 DEF peerCloses
<1>2. ASSUME NEW c \in IOComponents, age(c) PROVE IInv'
  BY <1>2 DEF age
<1>3. CASE getEvents
  BY <1>3 DEF getEvents
<1>4. CASE batchDone
  BY <1>4 DEF batchDone
<1>5. ASSUME NEW c \in IOComponents, eventError(c) PROVE IInv'
  BY <1>5 DEF eventError, nextEvent
<1>6. ASSUME NEW c \in IOComponents, eventIO(c) PROVE IInv'
  BY <1>6 DEF eventIO, nextEvent, takeRef
<1>7. ASSUME NEW s \in Servers, accept(s) PROVE IInv'
  BY <1>7 DEF accept, addToList, markChanged
<1>8. CASE handleRequest
  BY <1>8 DEF handleRequest, requestRef, takeRef
<1>9. CASE connectFails
  BY <1>9 DEF connectFails, close, dropRef
<1>10. CASE handled
  BY <1>10 DEF handled, dropRef
<1>11. CASE removeComponent
  <2>1. CASE isAutoReconn(cur) \/ cur \notin iocList
    BY <1>11, <2>1 DEF removeComponent, close
  <2>2. CASE ~(isAutoReconn(cur) \/ cur \notin iocList)
    <3> DEFINE c == cur
    <3>1. /\ c \in registered /\ c \in iocList
          /\ iocList' = iocList \ {c} /\ delList' = delList \cup {c}
          /\ changed' = TRUE
      BY <1>11, <2>2 DEF removeComponent, moveToDelList, markChanged
    <3>2. c \in Clients => ~autoReconn[c]
      BY <2>2 DEF isAutoReconn
    <3>3. TypeOK' /\ ListsDisjoint' /\ SnapInv' /\ EventInv'
      BY <1>11, <3>1 DEF removeComponent, close
    <3>4. UserInv'
      <4>1. /\ UNCHANGED <<userPc, autoReconn, freed, mydel, toPc>>
            /\ registered' \subseteq registered
        BY <1>11 DEF removeComponent, close
      <4>2. \A d \in Clients : Fresh(d)' <=> Fresh(d)
        BY <3>1, <4>1
      <4>3. \A d \in Clients \ {c} : d \in iocList' <=> d \in iocList
        BY <3>1
      <4>4. c \in Clients => userPc[c] \notin {"new", "evented", "open"}
                            \/ c \notin AutoClients
        BY <3>2
      <4> QED BY <3>1, <4>1, <4>2, <4>3, <4>4
    <3>5. RefInv' /\ RefCovers' /\ ValveInv'
      BY <1>11, <3>1, <3>2 DEF removeComponent, close
    <3> QED BY <3>3, <3>4, <3>5
  <2> QED BY <2>1, <2>2
<1>12. CASE eventLoopExit
  BY <1>12 DEF eventLoopExit
<1> QED
  BY <1>1, <1>2, <1>3, <1>4, <1>5, <1>6, <1>7, <1>8, <1>9, <1>10, <1>11, <1>12
  DEF ReadWriteThread

LEMMA TimeoutSteps ==
  ASSUME IInv, TimeoutThread
  PROVE  IInv'
<1> USE KindsDisjoint, BoundsOK
    DEF IInv, TypeOK, ListsDisjoint, SnapInv, EventInv, UserInv, RefInv,
        RefCovers, ValveInv, WorkerPointerLive, Fresh, destroyed, handling,
        IOComponents, listVars, netVars, refVars, rwVars, toVars, userVars
\* The renewed snapshot is the list; the old one is kept only if nothing on it
\* has been removed since it was taken.
<1>1. CASE snapshot
  <2>1. mylist' \subseteq iocList /\ mydel' = mydel \cup delList /\ delList' = {}
    BY <1>1 DEF snapshot, takeDelList
  <2>2. TypeOK' /\ EventInv'
    BY <1>1, <2>1 DEF snapshot
  <2>3. ListsDisjoint' /\ SnapInv'
    BY <1>1, <2>1 DEF snapshot
  <2>4. UserInv' /\ RefInv' /\ RefCovers' /\ ValveInv'
    BY <1>1, <2>1 DEF snapshot
  <2> QED BY <2>2, <2>3, <2>4
<1>2. ASSUME NEW c \in IOComponents, checkTimeout(c) PROVE IInv'
  BY <1>2 DEF checkTimeout
<1>3. CASE checkDone
  BY <1>3 DEF checkDone
<1>4. ASSUME NEW c \in IOComponents, reap(c) PROVE IInv'
  BY <1>4 DEF reap, decays, expired
<1>5. CASE reapDone
  BY <1>5 DEF reapDone
<1>6. CASE timeoutLoopExit
  BY <1>6 DEF timeoutLoopExit, giveBack
<1> QED
  BY <1>1, <1>2, <1>3, <1>4, <1>5, <1>6 DEF TimeoutThread

LEMMA StutterStep ==
  ASSUME IInv, UNCHANGED vars
  PROVE  IInv'
  BY DEF vars, IInv, TypeOK, ListsDisjoint, SnapInv, EventInv, UserInv, RefInv,
         RefCovers, ValveInv, WorkerPointerLive, Fresh, destroyed, handling,
         listVars, netVars, refVars, rwVars, toVars, userVars

\* The invariant that carries the safety of the transport.
THEOREM Invariance == Spec => []IInv
<1>1. IInv /\ [Next]_vars => IInv'
  BY UserSteps, ReadWriteSteps, TimeoutSteps, StutterStep DEF Next, Terminated
<1> QED
  BY InitInvariant, <1>1, PTL DEF Spec

-----------------------------------------------------------------------------

\* Every variable keeps its type; in particular no request is answered twice.
THEOREM TypeCorrect == Spec => []TypeOK
<1>1. IInv => TypeOK
  BY DEF IInv
<1> QED BY Invariance, <1>1, PTL

\* addComponent, removeComponent and the timeout thread together keep every
\* component on one list at most, so none is deleted twice.
THEOREM NoDoubleDelete == Spec => []ListsDisjoint
<1>1. IInv => ListsDisjoint
  BY DEF IInv
<1> QED BY Invariance, <1>1, PTL

\* timeoutLoop calls checkTimeout, without the mutex, on live components only.
THEOREM TimeoutThreadSafe == Spec => []SnapshotLive
<1>1. IInv => SnapshotLive
  BY DEF IInv, ListsDisjoint, SnapInv, SnapshotLive
<1> QED BY Invariance, <1>1, PTL

\* eventLoop handles the events of listed components only.
THEOREM EventLoopSafe == Spec => []EventLive
<1>1. IInv => EventLive
  BY DEF IInv, TypeOK, EventInv, EventLive
<1> QED BY Invariance, <1>1, PTL

\* The owner of an auto-reconnect connection can use it until disconnect().
THEOREM OwnerSafe == Spec => []UserPointerLive
<1>1. IInv => UserPointerLive
  BY KindsDisjoint DEF IInv, UserInv, ValveInv, UserPointerLive
<1> QED BY Invariance, <1>1, PTL

\* Neither thread, nor an owner, nor a worker has a pointer to a deleted component.
THEOREM PointersSafe == Spec => []PointersLive
<1>1. IInv => SnapshotLive /\ EventLive
  BY DEF IInv, TypeOK, ListsDisjoint, SnapInv, SnapshotLive, EventInv, EventLive
<1>2. IInv => UserPointerLive /\ WorkerPointerLive
  BY KindsDisjoint DEF IInv, UserInv, ValveInv, UserPointerLive, WorkerPointerLive
<1>3. IInv => PointersLive
  BY <1>1, <1>2 DEF PointersLive
<1> QED BY Invariance, <1>3, PTL

\* _refcount covers the references of handlers and workers.
THEOREM CountSafe == Spec => []RefCovers
<1>1. IInv => RefCovers
  BY DEF IInv
<1> QED BY Invariance, <1>1, PTL

\* A worker can answer on its connection until the 15 minute valve opens.
THEOREM WorkerSafe == Spec => []WorkerPointerLive
<1>1. IInv => WorkerPointerLive
  BY DEF IInv, ValveInv
<1> QED BY Invariance, <1>1, PTL

=============================================================================
