---------------------------- MODULE TCPComponent ----------------------------
(***************************************************************************)
(* One TCPComponent with its Socket and its registration at epoll, used by *)
(* three threads without a common lock: the owner, who connects and        *)
(* reconnects when it posts a packet, the read/write thread, which handles *)
(* events, and the timeout thread. A server component is made by           *)
(* TCPAcceptor from an accepted descriptor.                                *)
(*                                                                         *)
(* An action is a stretch of code between two writes of _state or of the   *)
(* descriptor that another thread can see.                                 *)
(***************************************************************************)
EXTENDS Naturals

CONSTANTS
  ConnectTimeout,   \* the two seconds of checkTimeout, in ticks
  MaxTcpClock       \* bound of the clock

ASSUME TCPComponentAssumption == ConnectTimeout \in Nat /\ MaxTcpClock \in Nat \ {0}

VARIABLES
  tcpState,           \* _state
  sock,               \* the descriptor: what the kernel and epoll hold of it
  startConnectTime,   \* _startConnectTime, 0 when it was never set
  tcpClock,           \* CTimeUtil::getTime()
  autoReconn,         \* _autoReconn
  attached,           \* _socketEvent is set
  listed,             \* the timeout thread sees the component
  ownerPc, loopPc, timeoutPc,
  event,              \* the event that the read/write thread works on
  scene,              \* exclusive: nobody else is inside the component during a
                      \* reconnect; atOnce: a reconnect may succeed at once, as
                      \* the first connect may; accepted: _isServer
  output              \* _output: "empty", the "rest" of a packet begun on this
                      \* connection, or "stale", the rest of one begun before

tcpShared == <<sock, autoReconn, attached, listed>>
tcpVars == <<tcpState, tcpShared, startConnectTime, tcpClock, ownerPc, loopPc, timeoutPc,
             event, output, scene>>

ConnectStates == {"connecting", "connected"}
Links == {"fresh", "connecting", "established", "broken"}
NoSocket == [open |-> FALSE, link |-> "fresh", watched |-> FALSE, out |-> FALSE]
NoEvent == [error |-> FALSE, read |-> FALSE, write |-> FALSE]

TcpTypeOK ==
  /\ tcpState \in ConnectStates \cup {"unconnected", "closed"}
  /\ sock \in [open : BOOLEAN, link : Links, watched : BOOLEAN, out : BOOLEAN]
  /\ (~sock.open => sock = NoSocket) /\ (sock.out => sock.watched)
  /\ startConnectTime \in 0..MaxTcpClock /\ tcpClock \in 1..MaxTcpClock
  /\ {autoReconn, attached, listed} \subseteq BOOLEAN
  /\ ownerPc \in {"init", "test", "connect", "register", "connected", "progress",
                  "registerLate", "refused", "closed", "list", "attach", "idle", "gone"}
  /\ loopPc \in {"poll", "read", "write", "established", "failed", "close", "closing",
                 "closed"}
  /\ timeoutPc \in {"check", "late", "shutdown"}
  /\ event \in [error : BOOLEAN, read : BOOLEAN, write : BOOLEAN]
  /\ output \in {"empty", "rest", "stale"}
  /\ scene \in [exclusive : BOOLEAN, atOnce : BOOLEAN, accepted : BOOLEAN]

-----------------------------------------------------------------------------
(* Socket and EPollSocketEvent, on a descriptor s *)

\* Every call that needs a descriptor makes one if there is none, the calls that
\* set an option too.
checkSocketHandle(s) == IF s.open THEN s ELSE [NoSocket EXCEPT !.open = TRUE]
setOptions(s) == checkSocketHandle(s)
setSoBlocking(s) == checkSocketHandle(s)

\* Closing a descriptor takes it out of epoll.
closeSocket(s) == NoSocket

shutdownSocket(s) ==
  IF s.open /\ s.link \in {"connecting", "established"} THEN [s EXCEPT !.link = "broken"]
  ELSE s

\* ::connect on a descriptor that is not fresh fails with EALREADY or EISCONN.
connectSocket(s) ==
  IF s.link # "fresh" THEN {"broken"}
  ELSE {"connecting", "broken"} \cup IF ~attached \/ scene.atOnce THEN {"established"} ELSE {}

\* SO_ERROR of a connection; EINVAL without a descriptor.
getSoError(s) == s.open /\ s.link # "broken"

\* epoll_ctl fails on a closed descriptor; ADD on one that is there, and MOD and
\* DEL on one that is not.
addEvent(s, write) ==
  IF s.open /\ ~s.watched THEN [s EXCEPT !.watched = TRUE, !.out = write] ELSE s
setEvent(s, write) == IF s.watched THEN [s EXCEPT !.out = write] ELSE s
removeEvent(s) == [s EXCEPT !.watched = FALSE, !.out = FALSE]

\* What epoll reports of a descriptor; a refused or broken connection is an error.
tcpEvents(s) ==
  {e \in [error : BOOLEAN, read : BOOLEAN, write : BOOLEAN] :
     /\ s.watched /\ e # NoEvent
     /\ e.error = (s.link = "broken" \/ s.link = "fresh")
     /\ e.read => s.link # "connecting"
     /\ e.write => (s.out /\ s.link # "connecting")}

\* _output when the descriptor is given up.
outlived == IF output = "empty" THEN "empty" ELSE "stale"

-----------------------------------------------------------------------------

\* A client as Transport::connect makes it, or a component that the acceptor made
\* from a descriptor and added to the list.
clientInit(auto) ==
  /\ tcpState = "unconnected" /\ sock = NoSocket /\ autoReconn = auto
  /\ attached = FALSE /\ listed = FALSE /\ ownerPc = "init"

\* ServerSocket::accept, TCPComponent::init(true) and addComponent.
acceptedInit ==
  /\ tcpState = "connected" /\ autoReconn = FALSE
  /\ sock = addEvent([setOptions(NoSocket) EXCEPT !.link = "established"], FALSE)
  /\ attached = TRUE /\ listed = TRUE /\ ownerPc = "idle"

TcpInit ==
  /\ scene \in [exclusive : BOOLEAN, atOnce : BOOLEAN, accepted : BOOLEAN]
  /\ IF scene.accepted THEN acceptedInit ELSE \E auto \in BOOLEAN : clientInit(auto)
  /\ startConnectTime = 0 /\ tcpClock = 1
  /\ loopPc = "poll" /\ timeoutPc = "check" /\ event = NoEvent /\ output = "empty"

-----------------------------------------------------------------------------
(* The owner: Transport::connect, and postPacket on a closed connection *)

ownerGoes(from, to) == ownerPc = from /\ ownerPc' = to

\* Whether a post finds the connection closed and may open it again.
mayReconnect == tcpState \notin ConnectStates /\ autoReconn

post ==
  /\ mayReconnect /\ ownerGoes("idle", "init")
  /\ UNCHANGED <<tcpState, tcpShared, startConnectTime, tcpClock, loopPc, timeoutPc, event,
                 output>>

\* A post on an open connection puts a packet into the queue.
postOpen ==
  /\ ownerPc = "idle" /\ tcpState \in ConnectStates
  /\ sock' = setEvent(sock, TRUE)
  /\ UNCHANGED <<tcpState, autoReconn, attached, listed, startConnectTime, tcpClock, ownerPc,
                 loopPc, timeoutPc, event, output>>

initOptions ==
  /\ ownerGoes("init", "test") /\ sock' = setOptions(setSoBlocking(sock))
  /\ UNCHANGED <<tcpState, autoReconn, attached, listed, startConnectTime, tcpClock, loopPc,
                 timeoutPc, event, output>>

\* Where the owner is after init() has returned true or false.
afterInit(ok) ==
  IF attached THEN "idle" ELSE IF ok \/ autoReconn THEN "list" ELSE "gone"

testState ==
  /\ ownerGoes("test", IF tcpState \in ConnectStates THEN afterInit(TRUE) ELSE "connect")
  /\ UNCHANGED <<tcpState, tcpShared, startConnectTime, tcpClock, loopPc, timeoutPc, event,
                 output>>

callConnect ==
  /\ ownerPc = "connect"
  /\ \E l \in connectSocket(checkSocketHandle(sock)) :
       /\ sock' = [checkSocketHandle(sock) EXCEPT !.link = l]
       /\ ownerPc' = CASE l = "established" -> "register"
                       [] l = "connecting" -> "progress"
                       [] OTHER -> "refused"
  /\ UNCHANGED <<tcpState, autoReconn, attached, listed, startConnectTime, tcpClock, loopPc,
                 timeoutPc, event, output>>

\* addEvent in socketConnect, when the component was on the list before.
register ==
  /\ ownerGoes("register", "connected") \/ ownerGoes("registerLate", afterInit(TRUE))
  /\ sock' = IF attached THEN addEvent(sock, TRUE) ELSE sock
  /\ UNCHANGED <<tcpState, autoReconn, attached, listed, startConnectTime, tcpClock, loopPc,
                 timeoutPc, event, output>>

setConnected ==
  /\ ownerGoes("connected", afterInit(TRUE))
  /\ tcpState' = "connected" /\ startConnectTime' = tcpClock
  /\ UNCHANGED <<tcpShared, tcpClock, loopPc, timeoutPc, event, output>>

setConnecting ==
  /\ ownerGoes("progress", "registerLate")
  /\ tcpState' = "connecting"
  /\ UNCHANGED <<tcpShared, startConnectTime, tcpClock, loopPc, timeoutPc, event, output>>

giveUp ==
  \/ /\ ownerGoes("refused", "closed")
     /\ sock' = closeSocket(sock) /\ output' = outlived
     /\ UNCHANGED <<tcpState, autoReconn, attached, listed, startConnectTime, tcpClock, loopPc,
                    timeoutPc, event>>
  \/ /\ ownerGoes("closed", afterInit(FALSE))
     /\ tcpState' = "closed"
     /\ UNCHANGED <<tcpShared, startConnectTime, tcpClock, loopPc, timeoutPc, event, output>>

\* Transport::addComponent: first the list, then the event.
addToTransport ==
  \/ /\ ownerGoes("list", "attach") /\ listed' = TRUE
     /\ UNCHANGED <<tcpState, sock, autoReconn, attached, startConnectTime, tcpClock, loopPc,
                    timeoutPc, event, output>>
  \/ /\ ownerGoes("attach", "idle")
     /\ attached' = TRUE /\ sock' = addEvent(sock, TRUE)
     /\ UNCHANGED <<tcpState, autoReconn, listed, startConnectTime, tcpClock, loopPc,
                    timeoutPc, event, output>>

\* Transport::disconnect.
disconnectTcp ==
  /\ ownerGoes("idle", "gone")
  /\ autoReconn' = FALSE /\ sock' = shutdownSocket(sock)
  /\ UNCHANGED <<tcpState, attached, listed, startConnectTime, tcpClock, loopPc, timeoutPc,
                 event, output>>

-----------------------------------------------------------------------------
(* The peer and the time *)

peerSteps ==
  /\ sock.open /\ sock.link \in {"connecting", "established"}
  /\ \E l \in {"established", "broken"} :
       l # sock.link /\ sock' = [sock EXCEPT !.link = l]
  /\ UNCHANGED <<tcpState, autoReconn, attached, listed, startConnectTime, tcpClock, ownerPc,
                 loopPc, timeoutPc, event, output>>

tickTcp ==
  /\ tcpClock < MaxTcpClock /\ tcpClock' = tcpClock + 1
  /\ UNCHANGED <<tcpState, tcpShared, startConnectTime, ownerPc, loopPc, timeoutPc, event,
                 output>>

-----------------------------------------------------------------------------
(* The read/write thread: Transport::eventLoop on this component *)

loopGoes(from, to) == loopPc = from /\ loopPc' = to

\* What eventLoop does first with an event.
\* Seeded fault: the error flag is not looked at.
firstHandlerBlind(e) == IF e.read THEN "read" ELSE "write"
firstHandler(e) == CASE e.error -> "close" [] e.read -> "read" [] OTHER -> "write"

pollEvent ==
  /\ loopPc = "poll"
  /\ \E e \in tcpEvents(sock) : event' = e /\ loopPc' = firstHandler(e)
  /\ UNCHANGED <<tcpState, tcpShared, startConnectTime, tcpClock, ownerPc, timeoutPc, output>>

\* Where the read/write thread goes after a handler that returned true.
afterRead == IF event.write THEN "write" ELSE "poll"

handleReadEvent ==
  /\ loopPc = "read"
  /\ loopPc' \in IF tcpState = "connected" /\ sock.open /\ sock.link # "broken"
                 THEN {afterRead, "close"} ELSE {"close"}
  /\ UNCHANGED <<tcpState, tcpShared, startConnectTime, tcpClock, ownerPc, timeoutPc, event,
                 output>>

\* writeData on an open connection: what is left of the packet stays in _output.
handleWriteEvent ==
  /\ tcpState = "connected" /\ loopGoes("write", "poll")
  /\ output' \in IF sock.open /\ sock.link = "established"
                 THEN {"empty", IF output = "stale" THEN "stale" ELSE "rest"} ELSE {output}
  /\ sock' = IF output' = "empty" THEN setEvent(sock, FALSE) ELSE sock
  /\ UNCHANGED <<tcpState, autoReconn, attached, listed, startConnectTime, tcpClock, ownerPc,
                 timeoutPc, event>>

\* The answer of an asynchronous connect.
\* Seeded fault: _output is kept.
clearedOutputNot(ok) == output
clearedOutput(ok) == IF ok THEN "empty" ELSE outlived

handleConnectEvent ==
  /\ loopPc = "write" /\ tcpState = "connecting"
  /\ LET ok == getSoError(sock)
     IN /\ sock' = IF ok THEN setEvent(sock, TRUE) ELSE closeSocket(removeEvent(sock))
        /\ output' = clearedOutput(ok)
        /\ loopPc' = IF ok THEN "established" ELSE "failed"
  /\ UNCHANGED <<tcpState, autoReconn, attached, listed, startConnectTime, tcpClock, ownerPc,
                 timeoutPc, event>>

\* _state after the answer.
\* Seeded fault: a failure leaves it as it is.
answeredStateKept(ok) == IF ok THEN "connected" ELSE tcpState
answeredState(ok) == IF ok THEN "connected" ELSE "closed"

connectAnswered ==
  /\ \E ok \in BOOLEAN : /\ loopGoes(IF ok THEN "established" ELSE "failed", "poll")
                         /\ tcpState' = answeredState(ok)
  /\ UNCHANGED <<tcpShared, startConnectTime, tcpClock, ownerPc, timeoutPc, event, output>>

\* An event for a component that is closed meanwhile.
handleNothing ==
  /\ tcpState \notin ConnectStates /\ loopGoes("write", "poll")
  /\ UNCHANGED <<tcpState, tcpShared, startConnectTime, tcpClock, ownerPc, timeoutPc, event,
                 output>>

\* Transport::removeComponent with TCPComponent::close in three steps.
closeComponent ==
  \/ /\ loopGoes("close", "closing") /\ sock' = removeEvent(sock)
     /\ UNCHANGED <<tcpState, autoReconn, attached, listed, startConnectTime, tcpClock,
                    ownerPc, timeoutPc, event, output>>
  \/ /\ loopGoes("closing", "closed") /\ sock' = closeSocket(sock) /\ output' = outlived
     /\ UNCHANGED <<tcpState, autoReconn, attached, listed, startConnectTime, tcpClock,
                    ownerPc, timeoutPc, event>>
  \/ /\ loopGoes("closed", "poll") /\ tcpState' = "closed" /\ listed' = (listed /\ autoReconn)
     /\ UNCHANGED <<sock, autoReconn, attached, startConnectTime, tcpClock, ownerPc,
                    timeoutPc, event, output>>

-----------------------------------------------------------------------------
(* The timeout thread: TCPComponent::checkTimeout *)

connectLate == startConnectTime > 0 /\ startConnectTime + ConnectTimeout < tcpClock

checkConnect ==
  \/ /\ listed /\ timeoutPc = "check" /\ timeoutPc' = "late"
     /\ tcpState = "connecting" /\ connectLate
     /\ UNCHANGED tcpState
  \/ /\ timeoutPc = "late" /\ timeoutPc' = "shutdown" /\ tcpState' = "closed"

\* Fifteen minutes without an event on a connection that was accepted. How long they
\* are is left out: they may have passed whenever the thread looks.
checkIdle ==
  /\ listed /\ timeoutPc = "check" /\ timeoutPc' = "late"
  /\ tcpState = "connected" /\ scene.accepted /\ ~autoReconn
  /\ UNCHANGED <<tcpState, tcpShared, startConnectTime, tcpClock, ownerPc, loopPc, event,
                 output>>

closeLate ==
  /\ checkConnect
  /\ UNCHANGED <<tcpShared, startConnectTime, tcpClock, ownerPc, loopPc, event, output>>

shutdownLate ==
  /\ timeoutPc = "shutdown" /\ timeoutPc' = "check"
  /\ sock' = shutdownSocket(sock)
  /\ UNCHANGED <<tcpState, autoReconn, attached, listed, startConnectTime, tcpClock, ownerPc,
                 loopPc, event, output>>

-----------------------------------------------------------------------------

ownerStep ==
  \/ initOptions \/ testState \/ callConnect \/ register \/ setConnected \/ setConnecting
  \/ giveUp \/ addToTransport

loopStep ==
  \/ pollEvent \/ handleReadEvent \/ handleWriteEvent \/ handleConnectEvent
  \/ connectAnswered \/ handleNothing \/ closeComponent

timeoutStep == closeLate \/ shutdownLate

\* In an exclusive scene the threads take turns when the owner reconnects.
tcpTurn(reconnecting) ==
  scene.exclusive /\ attached => (reconnecting = (ownerPc \notin {"idle", "gone"}))

TcpNext ==
  /\ \/ ownerStep \/ tickTcp \/ peerSteps
     \/ tcpTurn(FALSE) /\ (loopStep \/ timeoutStep \/ checkIdle)
     \/ (scene.exclusive => loopPc = "poll" /\ timeoutPc = "check") /\ post
     \/ postOpen \/ disconnectTcp
  /\ UNCHANGED scene

-----------------------------------------------------------------------------

tcpQuiet == ownerPc \in {"idle", "gone"} /\ loopPc = "poll" /\ timeoutPc = "check"

\* A component that says it is connected or connecting, with no thread inside it,
\* has an open descriptor that epoll watches: otherwise no event would ever close
\* it, and since posts open only what is closed it would be dead for ever.
OpenIsWatched ==
  scene.exclusive /\ tcpQuiet /\ attached /\ tcpState \in ConnectStates => sock.watched

\* A new connection starts at the beginning of a packet: the rest of a packet that
\* was cut off with the old connection is not written (tcpcomponent.cpp:138).
StartsClean ==
  ~scene.atOnce /\ loopPc = "write" /\ tcpState = "connected" /\ sock.link = "established"
  => output # "stale"

\* A connection that breaks is closed, whoever works on it.
BrokenIsClosed == sock.watched /\ sock.link = "broken" ~> ~sock.open \/ sock.link # "broken"
=============================================================================
