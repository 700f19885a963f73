------------------------------ MODULE Transport ------------------------------
(***************************************************************************)
(* tbnet::Transport: the life of an IOComponent between three kinds of     *)
(* threads.                                                                *)
(*                                                                         *)
(*   - the read/write thread (eventLoop) takes batches of epoll events and *)
(*     is the only one that calls removeComponent;                         *)
(*   - the timeout thread (timeoutLoop) works on a private snapshot mylist *)
(*     of _iocList and on a private list mydel of components waiting to be *)
(*     deleted, and is the only one that deletes while the transport runs; *)
(*   - user threads connect, reconnect (postPacket), disconnect and, on a  *)
(*     server, answer requests, each holding a reference on a component.   *)
(*                                                                         *)
(* Nothing but the reference count, the 15 minute valve on _lastUseTime    *)
(* and the flag _iocListChanged keeps a deleted component from being used. *)
(* The linked lists are sets here.                                         *)
(***************************************************************************)
EXTENDS Integers, FiniteSets

CONSTANTS
  Acceptors,    \* TCPAcceptors made by listen()
  Servers,      \* TCPComponents made by TCPAcceptor::handleReadEvent
  Clients,      \* TCPComponents made by connect()
  AutoClients,  \* the clients whose connect() was given autoReconn = true
  NoIOC,        \* the NULL IOComponent pointer
  DeadAt,       \* timeoutLoop deletes a component whose count is at most -DeadAt (10)
  MaxHeld       \* bound: requests of one connection held by workers at a time

IOComponents == Acceptors \cup Servers \cup Clients

ASSUME KindsDisjoint ==
  /\ Acceptors \cap Servers = {}
  /\ Acceptors \cap Clients = {}
  /\ Servers \cap Clients = {}
  /\ AutoClients \subseteq Clients
  /\ NoIOC \notin IOComponents

ASSUME BoundsOK == DeadAt \in Nat \ {0} /\ MaxHeld \in Nat

VARIABLES
  iocList,    \* _iocListHead.._iocListTail; isUsed() is membership
  delList,    \* _delListHead.._delListTail
  changed,    \* _iocListChanged
  stop,       \* _stop
  registered, \* components whose open socket is in the epoll set
  hup,        \* registered components whose peer has closed or reset
  connecting, \* registered clients whose connect() is still in progress
  shut,       \* components whose socket this side has shut down
  autoReconn, \* _autoReconn of the clients
  ref,        \* _refcount
  idle,       \* _lastUseTime is more than 15 minutes ago
  freed,      \* deleted components
  held,       \* requests a worker still has to answer, per component
  rwPc, batch, cur,             \* eventLoop: control point, events left, ioc
  toPc, mylist, mydel, todo,    \* timeoutLoop: its locals and what is left of
                                \*   the list it walks
  userPc      \* per client: where the thread that owns the connection stands

listVars == <<iocList, delList, changed>>
netVars  == <<registered, hup, connecting, shut>>
refVars  == <<ref, idle, held>>
rwVars   == <<rwPc, batch, cur>>
toVars   == <<toPc, mylist, mydel, todo>>
userVars == <<autoReconn, userPc>>
vars == <<listVars, stop, netVars, userVars, refVars, freed, rwVars, toVars>>

TypeOK ==
  /\ iocList \subseteq IOComponents
  /\ delList \subseteq IOComponents
  /\ changed \in BOOLEAN
  /\ stop \in BOOLEAN
  /\ registered \subseteq IOComponents
  /\ hup \subseteq IOComponents
  /\ connecting \subseteq Clients
  /\ shut \subseteq IOComponents
  /\ autoReconn \in [Clients -> BOOLEAN]
  /\ ref \in [IOComponents -> Int]
  /\ idle \in [IOComponents -> BOOLEAN]
  /\ freed \subseteq IOComponents
  /\ held \in [IOComponents -> Nat]
  /\ rwPc \in {"poll", "next", "handle", "drain", "accept", "remove", "done"}
  /\ batch \subseteq IOComponents
  /\ cur \in IOComponents \cup {NoIOC}
  /\ toPc \in {"snapshot", "check", "reap", "done", "destroyed"}
  /\ mylist \subseteq IOComponents
  /\ mydel \subseteq IOComponents
  /\ todo \subseteq IOComponents
  /\ userPc \in [Clients -> {"new", "added", "evented", "open",
                             "flagged", "released", "closed"}]

Init ==
  /\ iocList = {} /\ delList = {} /\ changed = FALSE
  /\ stop = FALSE
  /\ registered = {} /\ hup = {} /\ connecting = {} /\ shut = {}
  /\ autoReconn = [c \in Clients |-> c \in AutoClients]
  /\ ref = [c \in IOComponents |-> 0]
  /\ idle = [c \in IOComponents |-> FALSE]
  /\ freed = {}
  /\ held = [c \in IOComponents |-> 0]
  /\ rwPc = "poll" /\ batch = {} /\ cur = NoIOC
  /\ toPc = "snapshot" /\ mylist = {} /\ mydel = {} /\ todo = {}
  /\ userPc = [c \in Clients |-> "new"]

\* The component has not been made yet.
Fresh(c) == c \notin iocList \cup delList \cup mydel \cup freed

destroyed == toPc = "destroyed"

-----------------------------------------------------------------------------
(* The critical sections of addComponent and removeComponent on _iocsMutex *)

addToList(c) ==
  /\ iocList' = iocList \cup {c}
  /\ changed' = TRUE
  /\ UNCHANGED delList

\* Seeded fault: a closed component is not taken out of the epoll set.
closeForgets(c) == UNCHANGED netVars
\* TCPComponent::close: out of the epoll set, socket closed.
close(c) ==
  /\ registered' = registered \ {c}
  /\ hup' = hup \ {c}
  /\ connecting' = connecting \ {c}
  /\ shut' = shut \ {c}

\* Seeded fault: the auto-reconnect flag is not looked at.
isAutoReconnIgnored(c) == FALSE
isAutoReconn(c) == c \in Clients /\ autoReconn[c]

\* Seeded fault: the timeout thread's snapshot is not invalidated.
markChangedNot == changed' = changed
markChanged == changed' = TRUE

moveToDelList(c) ==
  /\ iocList' = iocList \ {c}
  /\ delList' = delList \cup {c}
  /\ markChanged

-----------------------------------------------------------------------------
(* User threads *)

\* listen: addComponent(acceptor, true, false).
listen(a) ==
  /\ ~destroyed
  /\ Fresh(a)
  /\ addToList(a)
  /\ registered' = registered \cup {a}
  /\ UNCHANGED <<stop, hup, connecting, shut, userVars, refVars, freed, rwVars, toVars>>

\* connect, up to the end of addComponent's critical section.
connectAdd(c) ==
  /\ ~destroyed
  /\ userPc[c] = "new"
  /\ addToList(c)
  /\ userPc' = [userPc EXCEPT ![c] = "added"]
  /\ UNCHANGED <<stop, netVars, autoReconn, refVars, freed, rwVars, toVars>>

\* socketConnect got a socket and addEvent registers it: the connection is up
\* at once or, on EINPROGRESS, still to be made.
socketConnect(c) ==
  /\ registered' = registered \cup {c}
  /\ connecting' \in {connecting, connecting \cup {c}}
  /\ UNCHANGED <<hup, shut>>

\* addEvent, after the mutex is released. An auto-reconnect component whose
\* first socketConnect failed has no socket to register.
connectAddEvent(c) ==
  /\ userPc[c] = "added"
  /\ socketConnect(c) \/ (c \in AutoClients /\ UNCHANGED netVars)
  /\ userPc' = [userPc EXCEPT ![c] = "evented"]
  /\ UNCHANGED <<listVars, stop, autoReconn, refVars, freed, rwVars, toVars>>

takeRef(c) == ref' = [ref EXCEPT ![c] = @ + 1]

\* component->addRef(), then the Connection is returned.
connectAddRef(c) ==
  /\ userPc[c] = "evented"
  /\ takeRef(c)
  /\ userPc' = [userPc EXCEPT ![c] = "open"]
  /\ UNCHANGED <<listVars, stop, netVars, autoReconn, idle, held, freed,
                 rwVars, toVars>>

\* postPacket on a closed auto-reconnect connection: init, socketConnect.
reconnect(c) ==
  /\ userPc[c] = "open" /\ isAutoReconn(c)
  /\ c \notin registered \cup freed
  /\ socketConnect(c)
  /\ UNCHANGED <<listVars, stop, userVars, refVars, freed, rwVars, toVars>>

\* Seeded fault: disconnect leaves the auto-reconnect flag set.
clearAutoReconnNot(c) == UNCHANGED autoReconn
clearAutoReconn(c) == autoReconn' = [autoReconn EXCEPT ![c] = FALSE]

\* disconnect, line by line: setAutoReconn(false); subRef(); shutdown().
disconnectFlag(c) ==
  /\ ~destroyed
  /\ userPc[c] = "open" /\ c \notin freed
  /\ clearAutoReconn(c)
  /\ userPc' = [userPc EXCEPT ![c] = "flagged"]
  /\ UNCHANGED <<listVars, stop, netVars, refVars, freed, rwVars, toVars>>

dropRef(c) == ref' = [ref EXCEPT ![c] = @ - 1]

disconnectSub(c) ==
  /\ userPc[c] = "flagged"
  /\ dropRef(c)
  /\ userPc' = [userPc EXCEPT ![c] = "released"]
  /\ UNCHANGED <<listVars, stop, netVars, autoReconn, idle, held, freed,
                 rwVars, toVars>>

disconnectShutdown(c) ==
  /\ userPc[c] = "released"
  /\ shut' = shut \cup ({c} \cap registered)
  /\ userPc' = [userPc EXCEPT ![c] = "closed"]
  /\ UNCHANGED <<listVars, stop, registered, hup, connecting, autoReconn,
                 refVars, freed, rwVars, toVars>>

\* Seeded fault: a worker answers a request twice.
owesReplyAlways(c) == TRUE
owesReply(c) == held[c] > 0

\* A worker answers a request: postPacket drops the request's reference if the
\* connection is up, and returns early without dropping it if it is not.
serverReply(c) ==
  /\ ~destroyed
  /\ c \notin freed
  /\ owesReply(c)
  /\ held' = [held EXCEPT ![c] = @ - 1]
  /\ IF c \in registered \ shut THEN dropRef(c) ELSE UNCHANGED ref
  /\ UNCHANGED <<listVars, stop, netVars, userVars, idle, freed, rwVars,
                 toVars>>

stopTransport ==
  /\ ~stop
  /\ stop' = TRUE
  /\ UNCHANGED <<listVars, netVars, userVars, refVars, freed, rwVars, toVars>>

\* wait: both threads joined, then destroy() deletes both lists. The caller
\* has no connect() or disconnect() under way.
waitDestroy ==
  /\ rwPc = "done" /\ toPc = "done"
  /\ \A c \in Clients : userPc[c] \in {"new", "open", "closed"}
  /\ freed' = freed \cup iocList \cup delList
  /\ iocList' = {} /\ delList' = {}
  /\ registered' = {} /\ hup' = {} /\ connecting' = {} /\ shut' = {}
  /\ toPc' = "destroyed"
  /\ UNCHANGED <<changed, stop, userVars, refVars, rwVars, mylist, mydel,
                 todo>>

-----------------------------------------------------------------------------
(* The network and the clock *)

peerCloses(c) ==
  /\ c \in (registered \ hup) \ Acceptors
  /\ hup' = hup \cup {c}
  /\ UNCHANGED <<listVars, stop, registered, connecting, shut, userVars, refVars,
                 freed, rwVars, toVars>>

\* 15 minutes go by without an event on the component.
age(c) ==
  /\ c \in (iocList \cup delList \cup mydel) \ Acceptors
  /\ ~idle[c]
  /\ idle' = [idle EXCEPT ![c] = TRUE]
  /\ UNCHANGED <<listVars, stop, netVars, userVars, ref, held, freed, rwVars,
                 toVars>>

-----------------------------------------------------------------------------
(* The read/write thread *)

\* getEvents. What has hung up is always reported; the rest is up to the peers.
getEvents ==
  /\ rwPc = "poll" /\ ~stop
  /\ \E ready \in SUBSET registered :
       /\ ready # {} /\ hup \subseteq ready
       /\ batch' = ready
  /\ rwPc' = "next"
  /\ UNCHANGED <<listVars, stop, netVars, userVars, refVars, freed, cur,
                 toVars>>

batchDone ==
  /\ rwPc = "next" /\ batch = {}
  /\ rwPc' = "poll"
  /\ UNCHANGED <<listVars, stop, netVars, userVars, refVars, freed, batch, cur,
                 toVars>>

nextEvent(c) == rwPc = "next" /\ c \in batch /\ batch' = batch \ {c} /\ cur' = c

\* EPOLLERR or EPOLLHUP.
eventError(c) ==
  /\ nextEvent(c)
  /\ c \in hup
  /\ rwPc' = "remove"
  /\ UNCHANGED <<listVars, stop, netVars, userVars, refVars, freed, toVars>>

\* addRef, then handleReadEvent or handleWriteEvent, which set _lastUseTime.
eventIO(c) ==
  /\ nextEvent(c)
  /\ takeRef(c)
  /\ idle' = [idle EXCEPT ![c] = FALSE]
  /\ rwPc' = CASE c \in Acceptors -> "accept"
               [] c \in hup       -> "drain"
               [] OTHER           -> "handle"
  /\ UNCHANGED <<listVars, stop, netVars, userVars, held, freed, toVars>>

\* TCPAcceptor::handleReadEvent: one turn of its accept loop.
accept(s) ==
  /\ rwPc = "accept"
  /\ Fresh(s)
  /\ addToList(s)
  /\ registered' = registered \cup {s}
  /\ UNCHANGED <<stop, hup, connecting, shut, userVars, refVars, freed, rwVars, toVars>>

\* Seeded fault: a request is handed to a worker without a reference.
requestRefNot(c) == UNCHANGED ref
requestRef(c) == takeRef(c)

\* Connection::handlePacket on a server: addRef, then the adapter hands the
\* request to a worker.
handleRequest ==
  /\ rwPc \in {"handle", "drain"} /\ cur \in Servers \ shut
  /\ held[cur] < MaxHeld
  /\ requestRef(cur)
  /\ held' = [held EXCEPT ![cur] = @ + 1]
  /\ UNCHANGED <<listVars, stop, netVars, userVars, idle, freed, rwVars, toVars>>

\* handleWriteEvent of a connecting socket with SO_ERROR set: the component
\* closes itself, and rc stays true, so the loop does not remove it.
connectFails ==
  /\ rwPc = "handle" /\ cur \in connecting
  /\ close(cur)
  /\ dropRef(cur)
  /\ rwPc' = "next" /\ cur' = NoIOC
  /\ UNCHANGED <<listVars, stop, userVars, idle, held, freed, batch, toVars>>

\* subRef, and removeComponent if the handler returned false: always when the
\* peer had closed before the event, never for an acceptor. A connecting socket
\* that was handled without an error is connected.
handled ==
  /\ rwPc \in {"handle", "drain", "accept"}
  /\ dropRef(cur)
  /\ \/ /\ rwPc # "drain"
        /\ rwPc' = "next" /\ cur' = NoIOC
        /\ connecting' = connecting \ {cur}
     \/ /\ rwPc # "accept"
        /\ rwPc' = "remove" /\ UNCHANGED <<cur, connecting>>
  /\ UNCHANGED <<listVars, stop, registered, hup, shut, userVars, idle, held,
                 freed, batch, toVars>>

removeComponent ==
  /\ rwPc = "remove"
  /\ close(cur)
  /\ IF isAutoReconn(cur) \/ cur \notin iocList
       THEN UNCHANGED listVars
       ELSE moveToDelList(cur)
  /\ rwPc' = "next" /\ cur' = NoIOC
  /\ UNCHANGED <<stop, userVars, refVars, freed, batch, toVars>>

eventLoopExit ==
  /\ rwPc = "poll" /\ stop
  /\ rwPc' = "done"
  /\ UNCHANGED <<listVars, stop, netVars, userVars, refVars, freed, batch, cur,
                 toVars>>

-----------------------------------------------------------------------------
(* The timeout thread *)

\* Seeded fault: the delList keeps what the timeout thread took from it.
takeDelListKeeps == mydel' = mydel \cup delList /\ UNCHANGED delList
takeDelList == mydel' = mydel \cup delList /\ delList' = {}

\* Under the mutex: renew the snapshot if the list changed, take the delList.
snapshot ==
  /\ toPc = "snapshot" /\ ~stop
  /\ mylist' = IF changed THEN iocList ELSE mylist
  /\ changed' = FALSE
  /\ takeDelList
  /\ todo' = mylist'
  /\ toPc' = "check"
  /\ UNCHANGED <<iocList, stop, netVars, userVars, refVars, freed, rwVars>>

\* checkTimeout of one component: a server connection idle for 15 minutes is
\* shut down. What it does to the packets is Connection's business.
checkTimeout(c) ==
  /\ toPc = "check" /\ c \in todo
  /\ todo' = todo \ {c}
  /\ shut' = IF c \in Servers \cap registered /\ idle[c]
               THEN shut \cup {c} ELSE shut
  /\ UNCHANGED <<listVars, stop, registered, hup, connecting, userVars, refVars,
                 freed, rwVars, toPc, mylist, mydel>>

checkDone ==
  /\ toPc = "check" /\ todo = {}
  /\ todo' = mydel
  /\ toPc' = "reap"
  /\ UNCHANGED <<listVars, stop, netVars, userVars, refVars, freed, rwVars,
                 mylist, mydel>>

decays(c) == ref[c] <= 0

\* Seeded fault: the count is not asked for.
expiredAlways(r, i) == TRUE
expired(r, i) == r <= -DeadAt \/ i

\* One turn of the deletion loop: an unreferenced component is counted down,
\* one counted down far enough or unused for 15 minutes is deleted.
reap(c) ==
  /\ toPc = "reap" /\ c \in todo
  /\ todo' = todo \ {c}
  /\ ref' = IF decays(c) THEN [ref EXCEPT ![c] = @ - 1] ELSE ref
  /\ IF expired(ref'[c], idle[c])
       THEN mydel' = mydel \ {c} /\ freed' = freed \cup {c}
       ELSE UNCHANGED <<mydel, freed>>
  /\ UNCHANGED <<listVars, stop, netVars, userVars, idle, held, rwVars, toPc,
                 mylist>>

reapDone ==
  /\ toPc = "reap" /\ todo = {}
  /\ toPc' = "snapshot"
  /\ UNCHANGED <<listVars, stop, netVars, userVars, refVars, freed, rwVars,
                 mylist, mydel, todo>>

\* Seeded fault: what is left on the private list is not given back.
giveBackNot == UNCHANGED delList
giveBack == delList' = delList \cup mydel

timeoutLoopExit ==
  /\ toPc = "snapshot" /\ stop
  /\ giveBack
  /\ mylist' = {} /\ mydel' = {}
  /\ toPc' = "done"
  /\ UNCHANGED <<iocList, changed, stop, netVars, userVars, refVars, freed,
                 rwVars, todo>>

-----------------------------------------------------------------------------

User(c) == \/ connectAdd(c) \/ connectAddEvent(c) \/ connectAddRef(c)
           \/ reconnect(c)
           \/ disconnectFlag(c) \/ disconnectSub(c) \/ disconnectShutdown(c)

ReadWriteThread ==
  \/ getEvents \/ batchDone
  \/ \E c \in IOComponents : eventError(c) \/ eventIO(c)
  \/ \E s \in Servers : accept(s)
  \/ handleRequest \/ connectFails \/ handled \/ removeComponent
  \/ eventLoopExit

TimeoutThread ==
  \/ snapshot \/ checkDone \/ reapDone \/ timeoutLoopExit
  \/ \E c \in IOComponents : checkTimeout(c) \/ reap(c)

Terminated == destroyed /\ UNCHANGED vars

Next ==
  \/ \E a \in Acceptors : listen(a)
  \/ \E c \in Clients : User(c)
  \/ \E s \in Servers : serverReply(s)
  \/ \E c \in IOComponents : peerCloses(c) \/ age(c)
  \/ stopTransport \/ waitDestroy \/ Terminated
  \/ ReadWriteThread
  \/ TimeoutThread

Spec == Init /\ [][Next]_vars

-----------------------------------------------------------------------------
(* Safety *)

\* A component is on at most one of _iocList, _delList and the timeout thread's
\* private list, and on none once deleted: otherwise it is deleted twice.
ListsDisjoint ==
  /\ iocList \cap (delList \cup mydel \cup freed) = {}
  /\ delList \cap (mydel \cup freed) = {}
  /\ mydel \cap freed = {}

\* The snapshot the timeout thread calls checkTimeout on, without the mutex,
\* never holds a component it has deleted or is about to walk for deletion:
\* every removal raises _iocListChanged in the section that fills _delList.
SnapshotLive == mylist \cap (mydel \cup freed) = {}

\* Every component with an event in the current batch, and the one being
\* handled, is still on _iocList, so the timeout thread cannot be deleting it.
EventLive == batch \cup ({cur} \ {NoIOC}) \subseteq iocList

\* The Connection of an auto-reconnect connect() stays valid, however often
\* it breaks, until its owner calls disconnect(); between the flag and the
\* reference dropped by disconnect() only the 15 minute valve can delete it.
UserPointerLive ==
  \A c \in AutoClients :
    /\ userPc[c] \in {"added", "evented", "open"} /\ ~destroyed => c \in iocList
    /\ userPc[c] = "flagged" /\ c \in freed => idle[c]

\* The reference the event loop holds around a handler.
handling(c) ==
  IF cur = c /\ rwPc \in {"handle", "drain", "accept"} THEN 1 ELSE 0

\* The count never falls below the references that are really held, as long
\* as the component is listed or a worker still has to answer on it.
RefCovers ==
  \A c \in IOComponents :
    c \in iocList \/ held[c] > 0 => ref[c] >= held[c] + handling(c)

\* A connection on which a worker still has to answer a request is deleted
\* only by the 15 minute valve, while the transport runs.
WorkerPointerLive ==
  \A s \in Servers : held[s] > 0 /\ s \in freed /\ ~destroyed => idle[s]

\* No thread has a pointer to a component that is deleted: not the timeout thread
\* in its snapshot, the event loop in its batch, the owner or a worker.
PointersLive == SnapshotLive /\ EventLive /\ UserPointerLive /\ WorkerPointerLive

\* What transport.h says of connect(), "returns a pointer to a Connection":
\* the connection returned exists, whether or not it reconnects.
ConnectReturnsLive ==
  \A c \in Clients : userPc[c] = "open" /\ c \in freed => idle[c] \/ destroyed

-----------------------------------------------------------------------------
(* Liveness *)

\* The threads run, time passes, a call that was begun is finished, wait()
\* follows stop(), and a peer answers the FIN of shutdown() with its own.
Fairness ==
  /\ WF_vars(getEvents) /\ WF_vars(batchDone) /\ WF_vars(handled)
  /\ WF_vars(\E c \in IOComponents : eventError(c) \/ eventIO(c))
  /\ WF_vars(removeComponent) /\ WF_vars(eventLoopExit)
  /\ WF_vars(TimeoutThread)
  /\ WF_vars(waitDestroy)
  /\ \A c \in IOComponents :
       WF_vars(age(c)) /\ WF_vars(c \in shut /\ peerCloses(c))
  /\ \A c \in Clients :
       /\ WF_vars(connectAddEvent(c)) /\ WF_vars(connectAddRef(c))
       /\ WF_vars(disconnectSub(c)) /\ WF_vars(disconnectShutdown(c))

LiveSpec == Spec /\ Fairness

\* A component taken off _iocList is deleted in the end, also when a worker
\* lost its reference on the way (serverReply) and when stop() comes first.
RemovedIsDeleted == \A c \in IOComponents : c \in delList ~> c \in freed

\* A connection that either side has shut down on purpose, by disconnect() or
\* because it was idle, is closed, taken off the list and deleted.
ShutIsDeleted ==
  \A c \in IOComponents : c \in shut \ connecting ~> c \in freed

\* What is removed and what is shut down is deleted in the end, whatever stop() does
\* meanwhile (transport.cpp:117-199, :347-358, :450-478).
DeletedInTheEnd == RemovedIsDeleted /\ ShutIsDeleted
=============================================================================
