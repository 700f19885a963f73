# tb-common-utils in TLA+

Specifications of `tbsys` and `tbnet`, with the TLC configurations that check
them and TLAPS proofs. Source paths below are relative to `tbnet/src` and
`tbsys/src`.

    tlc -workers 2 -config MCTransport_safety.cfg MCTransport
    tlapm TransportProofs.tla

Contents: 1 the system, 2 the modules, 3 the runs, 4 fairness, 5 proofs,
6 what the code does and no property claims, 7 what is not modelled, 8 plan.

## 1. The system and its parts

`tbsys` is a utility library (threads, locks, queues, timer, services, logs,
files, strings); `tbnet` is a client/server framework over epoll that uses it. A
server or client owns one `Transport`, whose two threads (read/write and
timeout) serve all sockets; user threads post packets on `Connection`s;
handlers run in the read/write thread, and a server usually pushes requests to
a `PacketQueueThread` whose workers answer later.

| Part | State | Operations | What is hard | What makes it correct |
|---|---|---|---|---|
| **Transport** (`transport.cpp`, `iocomponent.h`) | component list, delete list, private lists of the timeout thread, `_iocListChanged`, reference counts, `_stop` | `listen`, `connect`, `disconnect`, `stop`, `wait`, `eventLoop`, `timeoutLoop`, `addComponent`, `removeComponent`, `destroy` | deletion by one thread of objects two other kinds of threads hold, with an unlocked snapshot and a count that is decayed below zero | nothing deleted is used or deleted again; what is removed is deleted in the end |
| **TCPComponent, TCPAcceptor** | `_state`, socket, registration, `_startConnectTime`, `_output` | `init`, `socketConnect`, `close`, `handleReadEvent`, `handleWriteEvent`, `checkTimeout` | three threads without a common lock; asynchronous connects | an open socket is watched, a broken one closed |
| **Connection, TCPConnection** | `_outputQueue`, `_myQueue`, `_input`, `_output`, `_queueTotalSize` | `postPacket`, `writeData`, `readData`, `handlePacket`, `checkTimeout`, `disconnect` | three kinds of threads, two timeouts, one condition | an accepted packet is answered once |
| **ChannelPool, Channel** | `_useMap`, use list, free list, id counter | `allocChannel`, `offerChannel`, `appendChannel`, `getTimeoutList` | pointers of two lists, ids that come round | list and map agree; an id names one request |
| **PacketQueue** | `_head`, `_tail`, `_size`, links | `push`, `pop`, `clear`, `getTimeoutList`, `getPacketList`, `moveTo` | cutting and joining chains | it is a sequence |
| **PacketQueueThread** | queue, `_stop`, `_waitFinish`, `_waiting` | `push`, `pushQueue`, `run`, `stop`, destructor | flags and sizes read outside their mutex, two conditions | each packet has one owner; nobody waits for ever |
| **ConnectionManager** | connections by server id, status | `getConnection`, `disconnect`, `cleanup` | pointers used after unlock | each open connection is in the map |
| **DataBuffer, DefaultPacketStreamer** | a block of memory with a window; parsing position | `expand`, `shrink`, `pourData`; `getPacketInfo`, `decode`, `encode` | packets cut anywhere, room at the limit | reads what was written |
| **HTTP streamer and packets** | `_input`, headers | `getPacketInfo`, `decode`, `encode`, `setHeader` | the same, by the first empty line | requests one by one; a response that can be framed |
| **CFileQueue, CFileQueueThread** | data files, `header.dat`, `m_head`, per-thread positions | constructor with `recoverRecord`, `push`, `pop`, `finish`, `clear`; `writeData`, `run`, `stop` | crashes between system calls, short writes, rotation | what was written is handled |
| **Timer** | tokens, tasks, `_destroyed` | `schedule`, `scheduleRepeated`, `cancel`, `destroy`, `run` | cancel while the task runs outside the lock | a task runs once per schedule, never after destroy |
| **ThreadPool** | thread counts, leader flag, work list | `execute`, `run`, `destroy`, growth | leader/follower hand-over | one leader; work is done; destroy ends |
| **Monitor, Cond, (Rec)Mutex** | deferred notify count, recursion count | `lock`, `unlock`, `wait`, `timedWait`, `notify` | notifications sent at unlock or wait | lock balanced, none lost |
| **Handle, Shared, TbThread** | reference count, `_running`, `_started` | copy, drop, `start`, `join`, `detach`, `isAlive` | a thread object that holds itself | not used after its deletion |
| **Mutexes, read/write locks, guards** | the lock; `acquired` | `CLockGuard`, `CThreadGuard`, `tryLock` | a guard unlocks whatever it got | the scope is protected |
| **CQueueThread** | queue, `_stop` | `writeData`, `run`, `stop`, `wait`, destructor | end of the pool | each item handled once |
| **Service, CtrlCHandler** | processes, pid file, pipe, signals | `main` with start and stop, `run`, `shutdown`, signal thread | processes and signals in any order | the truth is told; one daemon; a shutdown ends |
| **CLogger** | descriptors, log files, list of rotated files | `logMessage`, `rotateLog`, `checkFile` | threads replace the descriptor under each other | no line lost, the oldest deleted first |
| **CConfig, Profiler, ByteBuffer, CStringUtil** | a map; a tree; memory and a position; none | loading, timing, put and get, conversions | repeated sections, clocks set back, widths and owners, bytes of half characters | what goes in comes out |
| **CFileUtil, CProcess, Utility** | a directory tree, a pid file, a buffer of the caller | `mkdirs`, `checkCreateDir`, `checkCreateLink`; `startDaemon`, `existPid`; `getAbsPath`, `strJoin`, `getExeRoot` | looking and then acting beside rivals; the last cell of a buffer | what is reported made is there |
| UDP, statistics, `Memory.hpp`, `atomic.h`, time, addresses, exceptions | - | - | section 7 | - |

Interactions: `Transport` calls `checkTimeout`, `handleReadEvent` and
`handleWriteEvent` of a component, which call its `Connection`;
`Connection::postPacket` calls back into `TCPComponent::init` (a reconnect),
`subRef` and `EPollSocketEvent::setEvent`; `close` calls `disconnect` of the
connection, which answers everything it holds. Handlers may post again.
`ThreadPool` and `Timer` stand on `Monitor` and `Thread`; `Service` on
`CtrlCHandler`. `PROJECT.json` lists the hazards at their lines.

## 2. Modules

| Module | Models | Checked by |
|---|---|---|
| `Transport` | life of a component between event loop, timeout loop, user threads, workers | `MCTransport`, `TransportProofs` |
| `Connection` | a packet from `postPacket` to its handler, client side | `MCConnection`, `ConnectionProofs` |
| `RequestReply` | what `postPacket` promises (abstract) | refined by `Connection` (`MCConnection`; the safety part in `ConnectionProofs`) |
| `PacketQueueThread` | pushers, bounded queue, workers, stop | `MCPacketQueueThread`, `PacketQueueThreadProofs` |
| `FileQueue` | `CFileQueue` with `CFileQueueThread`, crashes and failed writes | `MCFileQueue`; `FileQueueProofs` |
| `ThreadPool`, `Timer` | the pool with its leader; the timer thread and its callers | `Tbutil` with `MCTbutil`; `TbutilProofs` |
| `TCPComponent` | `_state`, socket and registration between three threads | `Tbnet` with `MCTbnet`; `TbnetProofs` |
| `DataBuffer`, `PacketStream` | operators on a buffer; `writeData` and `readData` over a stream | "; `TbnetProofs` |
| `HttpStream` | requests cut anywhere, the headers of a response | "; `TbnetProofs` (the response) |
| `ChannelPool` | the pool with pointers and counter | "; `TbnetProofs` |
| `PacketQueue`, `PacketSequences` | the queue with pointers; the sequences it implements (abstract) | "; `TbnetProofs` |
| `ConnectionManager` | one connection for each server, by several threads | "; `TbnetProofs` |
| `Monitor` | a monitor on either mutex | `Tbsys` with `MCTbsys`; `TbsysProofs` |
| `LockGuard` | three locks and their guards | "; `TbsysProofs` |
| `SharedThread` | a thread object, its handles and its thread | "; `TbsysProofs` |
| `QueueThread` | `CQueueThread` and its owner | "; `TbsysProofs` |
| `Service` | launches of a service with one pid file | "; `TbsysProofs` |
| `Logger` | `CLogger` over files and descriptors | "; `FilesProofs` |
| `Directories`, `PidFile` | `fileutil.cpp` and part of `Utility.cpp`; `process.cpp` | "; `FilesProofs` |
| `Profiler` | the class of this name | "; `TbsysProofs` |
| `Config`, `ByteBuffer`, `Strings` | the classes of these names | `Tbsys` with `MCTbsys` |
| `Paths` | the rest of `Utility.cpp` | " |

`Tbutil`, `Tbnet` and `Tbsys` put modules that do not interact side by side: an
initial choice, `part`, says which one runs, and the others stay in one initial
state, so that the state space is their sum. The properties of such a run are
conjunctions, one conjunct for each promise, named below.

An operator named `...Not`, `...Always` and the like, marked "Seeded fault", is
a wrong version of the definition after it. No model uses it; put in its place,
it breaks the property that watches that line.

### Transport

State: `iocList` and `delList` are the two linked lists (sets: the order of the
list is never used), `mylist` and `mydel` the locals of `timeoutLoop`, `changed`
is `_iocListChanged`, `ref` is `_refcount` (an integer that goes below zero),
`idle` says that `_lastUseTime` is over 15 minutes old. `rwPc`, `batch` and `cur` are
`eventLoop`'s position, the rest of the epoll batch and the current component.
One action is one critical section of `_iocsMutex`, or one step between which
another thread can do something that matters: `connect` is three
(`connectAdd`, `connectAddEvent`, `connectAddRef`), `disconnect` three, the
handling of an event two or three, a round of `timeoutLoop` one per component.

Abstractions: a connection has one owner thread, which connects, may reconnect
through `postPacket`, and disconnects; a worker's request is a count in `held`;
a listening socket has no error events; `checkTimeout` of a removed component
and the decay of its count are a step each per component; `wait()` is called
with no `connect` or `disconnect` under way. Time is the flag `idle`, which may
be set whenever the code could find it so, and `DeadAt` rounds of the decay:
10 in the code and in the run `connect`, 2 elsewhere, where a smaller number
only makes deletion earlier.

`PointersLive` is `SnapshotLive`, `EventLive`, `UserPointerLive` and
`WorkerPointerLive`, one for each kind of holder; `DeletedInTheEnd` is
`RemovedIsDeleted` and `ShutIsDeleted`.

### Connection and RequestReply

A request is one call of `postPacket` on an auto-reconnect connection of a
client, by a thread of its own. `outputQueue`, `myQueue` and `outbuf` are the
three places of an unsent packet; `useList`, `useMap` and `armed` the channel
pool (a channel is armed once `setExpireTime` replaced `TBNET_MAX_TIME + 1`);
`wire` and `replies` the peer. `checkTimeout` runs in the timeout thread and,
from `disconnect`, in the read/write thread: it is written once, for a thread.
Handlers are the counter `calls`. `RequestReply` is the promise (accepted:
answered once; refused: never), and `Abstract` maps the model to it.

Abstractions: channel ids are unique (`ChannelPool` has the counter); packets
may expire in any order; a reconnect is one step (`TCPComponent` has its inside);
bytes on the socket are whole packets, in any portion (`PacketStream` cuts
them); a reconnect that is refused at once leaves the post to go on with a closed
component, as `init` returns true for one that reconnects by itself; `setState(CLOSED)` by `checkTimeout` of the component, and the early
exit of the poster's wait when the transport stops, are left out.

`NothingForgotten` is `UseMapIsUseList`, `QueuedAsksToWrite`,
`QueuedIsUnarmed` and `ClosedIsWatched`.

### PacketQueueThread

`stop`, `waitFinish`, `waiting` and the length are read without a mutex in many
places. Each such read that another thread can get ahead of is an action of its own
(`pushCheckStop`, `pushCheckLimit`, `pushRecheckStop`, `runCheckWaiting`,
`runFinish`), and `stop(waitFinish)` is two actions between its two assignments.
A packet is `<<pusher, call, position>>`. `checkSendSpeed`, which only sleeps,
is left out. `QueueSafe` is `OwnedOnce` and `QueueBounded`; `NobodyIsStuck` is
`QueuedIsTaken`, `PusherReturns` and `StopEnds`.

### FileQueue

`mem` is `m_head`, `disk` is `header.dat`, `files` the data files as sequences
of units (a record is a head and a tail). `push` and `pop` are two steps each
around their `writeHead`, with `inside` holding the mutex; a crash may come
between any two steps and keeps `disk` and `files`. `popped` is `pop`: it gives
the header, the files and the item, for the four outcomes in the code (at the
end, a record, an unreadable record in an old file, or in the last one). `open`,
`recoverRotate`, `recoverOne` and `recoverDone` are the constructor: the push of an
item in progress is cut, like that of a writer, between the step to a new file
(`leaveFull`) and its `write`.

Abstractions: records have one size; a short write cuts a record behind its
header; `queue_size` is only "zero or not", all that `isEmpty` asks, as nothing
ever counts it down; `write` keeps what it wrote when the process dies (not the
machine); `open` fails only for a file that is not there; the order in which
`recoverRecord` visits the entries is arbitrary; the backup copy is left out.
`knownLost` is a history variable: items held from an earlier file at a crash,
and items whose second push failed.

Behind a record that a short write cut, the reader takes what follows for its data;
such data are no item's (0 in `Payloads`), and a call of the handler with them counts for
none.

`AcceptedIsKept` is `NothingSkipped` (in memory) and `CrashSafe` (on disk);
`HandledInOrderOnce` is `TakenInOrder` and `OncePerRun`; `QueueGoesOn` is
`AcceptedIsHandled` and `QueueDrains`. `OncePerRun` allows one more handling for each
crash *and thread*: an entry of `pos` outlives its item until the next `writeHead`,
and a copy that `recoverRecord` appends is entered as well, so that one
crash can put back a copy for each thread.

### ThreadPool

One action is one critical section of the pool's own monitor (followers,
`_promote`, `_inUse`, `_running`) or of `_monitor` (the work list). The tests
of `_destroyed` and `_listSize` that `execute` makes, and the one before a
handler is called, are outside both and are steps of their own. A monitor's
`notify` takes effect at the end of the section, on any one thread that waits,
which `Monitor` justifies. `promoteFollower` is one step: the promotion, the
count and the new thread. `destroy` is two, one per monitor.

Abstractions: `_sizeMax` is at least 2 (a pool of one thread hands nothing over);
`start()` does not fail and handlers throw nothing but `tbutil::Exception`;
the constructor is the initial state, as nobody can call `execute` before it
returns; the reaping of dead threads in `run` never finds one, since threads
end only after `destroy`; `_sizeWarn` and `_load` have no effect.

### Timer

`tokens` is the set `_tokens` with its order, `tasks` the map `_tasks`, `token`
the local of `run`. The body of the loop in `run` is one critical section cut
at its waits; between `timerBegin` and the next `scan...` step the thread holds
the mutex (`timerPc` is "scan") and callers wait, whereas "woken" is a thread
that still has to get it. `cancelled` is a history variable. `ReuseRunning`
lets callers schedule a repeated task again while the timer thread still holds its
old token; the code does not survive that (run `MCTbutil_cancel`), so the passing
run is without it.

Abstractions: one clock for monotonic and real time, bounded by `MaxClock`; a
`delay` of 0 is `Time()`, as in the code; exceptions of `schedule` are calls
that do nothing. `PoolSafe` is `InUseCounts` and `ItemsOnce`, `TimerSafe` is
`NoOversleep` and `OneToken`, `WorkIsDone` is `ItemIsTaken`, `DueIsRun` and
`DestroyEnds` of both.

### The parts of tbnet (`Tbnet`)

- `TCPComponent`: one component and its socket, used by its owner, the event loop
  and the timeout thread. An action is a stretch of code between two writes of
  `_state` or of the descriptor that another thread can see; `sock` is what the
  kernel and epoll hold of the descriptor. `TcpSafe` is `OpenIsWatched` (nobody
  is inside: a state other than closed has a registered socket) and
  `StartsClean` (a new connection does not begin with the rest of an old packet).
  `scene` says what a behaviour excludes: others inside the component during
  a reconnect, and a reconnect that succeeds at once (section 6); and whether the
  connection was accepted. Only then `checkIdle` may end it: how long 15 minutes
  are is left out, and nothing makes that step happen.
- `DataBuffer` has operators on a record of size, start and data in units of four
  bytes; the doubling of `expand` and `writeVector` are recursive functions. `PacketStream` uses it (`INSTANCE`) for `_output` and `_input`: a
  writer encodes packets, the wire takes and gives any number of units, and
  `readData` cuts packets, for a client, a server and a server with batches.
  The connection may break. `StreamSafe` is `HandledIntact` (the handler gets
  what was posted, in order, and nothing after the stream was out of step),
  `NothingLeftBehind` and `ReadsHaveRoom`. `Unknown` and `Unencodable` are
  packets that the factory or `encode` refuses.
- `HttpStream`: the unit is a token, and tokens are cut where a read may end
  within them. `RequestsAreCut` is a property of the run by itself; what is said
  of a response, `ResponseIsFramed`, is the last part of `StreamSafe`.
- `ChannelPool`: channels chained by `next` and `prev`, `useMap` by id. The
  counter is taken modulo `IdSpace` (28 bits in the code), and its reset is a
  step after its increment, so that ids wrap in a small instance.
  A chain is the sequence that the links spell (`chainFrom`), and what hangs on one is
  found without following it (`reach`). A cluster has three channels at least, and
  there are at least two ids. `InOnePlace` says that the two chains are whole and disjoint;
  `MapIsUseList` holds until an id comes round that is still in use.
- `PacketQueue`: `_head`, `_tail`, `_size` and `_next` of two queues; an action is a
  call. `PacketSequences` has the same calls on sequences, and `QueueIsSequence`
  is that specification with the chain from `_head` for the sequence; the ends of the chain
  (`QueueEndsMeet`) are an invariant. `ListsSafe` is that with `InOnePlace` and `MapIsUseList`.
- `ConnectionManager`: `getConnection`, `disconnect` and `cleanup`; `_status` is
  read outside the mutex and is a step of its own. `ManagerSafe` is
  `MapIsOpenConnections` and `CleanupLeavesOnlyTheEarly` (what is in the map after
  `cleanup` was put there by a thread that had read `_status` before).

### The parts of tbsys (`Tbsys`)

- `Monitor`: threads that lock (to any depth on a `RecMutex`), try, wait, wait with
  a time, notify and unlock. `nnotify` is `_nnotify`, sent by `unlock` and
  `wait`; `owed` counts what was asked for and not yet sent. `MonitorSafe` is
  `LockIsBalanced` and `NotifyIsDelivered`.
- `LockGuard`: stacks of guards of each thread over one lock of one of three kinds.
  What an unlock of a lock that the thread does not hold does is arbitrary from then on
  (`stray`), as POSIX leaves it. `LocksSafe` is `MonitorSafe` and `GuardProtects`.
- `SharedThread`: the object of a `Thread`, users with handles, `start`, the hook
  of the new thread. `DeletedIsUnused` and `AliveIsTrue`. Handles are copied while one
  is held: what a constructor that starts itself does after its thread has ended,
  or was not created, is left out (section 6).
- `QueueThread`: an owner that starts, stops, waits and deletes, threads of the
  pool, and writers. `ItemsHandledOnce` and `WaitedForAll`.
- `Service`: a launch is the process that a shell has started (`shell`), the service it may
  become by two forks (`service`) and its signal thread (`sigwaiter`). The
  pipe, the pid file and the signals are shared state. Any process may die. Ghosts
  record when starts overlap and when a pid file was removed or not
  written, which `OneDaemon` excludes. `ServiceSafe` is `TruthIsTold`, `OneDaemon`
  and `CallbackFindsService`. A callback returns in a step of its own, after its `stop()`
  has let the service go on. The options are modelled as far as they decide which command runs.
- `Logger`: `descriptor` maps numbers to open files, `logFile` and `rotated` names to
  files, `linesIn` files to numbered lines. The steps of `logMessage`, `rotateLog`
  and `checkFile` are system calls. `early` is a ghost (a line went to the next file
  while the last one was open). There is always a file and a descriptor to be had:
  that `open()` fails is left out. `LogSafe` is `NoLineLost`, `OldestGoFirst`,
  `FilesAreListed`, `LogFollowsName` and `CheckFollowsMove`.
- `Config`: a line is a sequence of tokens; files are loaded one after another.
  `ValuesInOrder` compares the map with a reading of the files line by line,
  `ConfigReadsBack` with `toString` loaded again.
- `Profiler`: the tree of entries in the order of creation, a clock that may be set
  back. `ProfilerSafe` is `TimesAddUp` and `OnePathUnderWay`; `subDurations` adds the
  durations of the entries below one.
- `ByteBuffer`: cells, a position, an owner. A `size_t` is one cell or two. `ReadsBack`,
  `BlocksAreHeld`, `PositionInside`.
- `Strings`: pure operators; the string grows byte by byte, so that the invariants
  are checked on each string of up to `MaxLen` of the bytes given. `isHalf`
  is the first byte of a character of two. References: `CaseKeepsHalves`,
  `TrimsTheEnds`, `SplitKeepsAll`, `UrlDecodes`.
- `Paths`: in the same way, on paths of `/`, `.` and a letter. The buffer of the
  caller has what it held before (`junk`) and one cell behind its end, so that
  "writes one too many" can be seen. `AbsPathIsCanonical` says what
  `getAbsPath` gives, and exactly when it writes behind the buffer;
  `JoinFits` and `ExeRootIsDirectory` the same of `strJoin` and `getExeRoot`.
- `Directories`: threads in `mkdirs`, `checkCreateDir` and `checkCreateLink` on one
  tree, one step per system call. A path is the sequence of its names; `field`
  is how far a thread is in it, and `slash` says that one stands behind the name of a
  link, which makes the kernel look for a directory there. A thing that is there stays,
  but for a link that `checkCreateLink` removes; no link leads to a directory
  (`DirAssumption`). `DirectoriesSafe` is `MkdirsMakes`, `CheckedAreThere` and
  `LinkIsThere`. The limit of 32 names is left out.
- `PidFile`: processes that fork, open (which cuts the file), lock, write (perhaps
  in part) and close. The file is a sequence of digits and line ends, so that
  a number written over a longer one would be seen: `PidFileNamesOne`. A number has no
  end of a line in it (`PidAssumption`).

`FilesSafe` is `LogSafe`, `DirectoriesSafe` and `PidFileNamesOne`; `ProgramSafe` is
`ConfigSafe`, `BufferSafe`, `StringsSafe` and `PathsSafe`.

## 3. Runs

| Run | Instance | Shows |
|---|---|---|
| `MCTransport_safety` | one acceptor, one accepted and one auto-reconnect connection, one request held | `ListsDisjoint`, `PointersLive`, `RefCovers`: nothing deleted is used or deleted again |
| `MCTransport_live` | the same, but clients or servers only | `DeletedInTheEnd` |
| `MCTransport_connect` | one client without auto-reconnect, `DeadAt` 10 | violated: `ConnectReturnsLive` |
| `MCConnection_check` | a blocking and a non-blocking request, limit 1, so that one poster waits; the peer reads | `NothingForgotten`, `AnsweredExactlyOnce` (refinement with fairness), `BlockedReturns` |
| `MCPacketQueueThread_check` | two workers, a `push` and a `pushQueue` thread, limit 1, two calls of `push` and one of `pushQueue` | `QueueSafe`, `NobodyIsStuck` |
| `MCFileQueue_check` | two threads, three items, one record per file, one crash, stop and write fault | `AcceptedIsKept`, `HandledInOrderOnce`, `QueueGoesOn` |
| `MCFileQueue_lost` | two records per file, one crash | violated: `RecoveredAfterCrash` |
| `MCTbutil_check` | a pool that starts one of three threads, three items, full at two; a timer with two tasks, delays 0 to 2, three schedules | `OneLeader`, `PoolSafe`, `TimerSafe`, `CancelledNotStarted`, `WorkIsDone` |
| `MCTbutil_cancel` | one task, two schedules, `ReuseRunning` | violated: `CancelledNotStarted` |
| `MCTbnet_check` | see below | `TcpSafe`, `StreamSafe`, `RequestsAreCut`, `ListsSafe`, `ManagerSafe`, `BrokenIsClosed`, `QueueIsSequence` |
| `MCTbsys_check` | see below | `LocksSafe`, `SharedSafe`, `ServiceSafe`, `QueueThreadSafe`, `FilesSafe`, `ProfilerSafe`, `ProgramSafe`, `ShutdownEnds`, `QueueIsServed` |
| `MCTbsys_stop` | two launches of a service, a small instance of all else | violated: `StopStops` |

Every passing run also checks `TypeOK`.

Why the bounds are enough. In Transport the hazards are races for *one*
component between four threads; components meet only in the lists, for which one of
each kind and every order of joining and leaving suffices. `DeadAt` 2 separates
"removed", "counted down once" and "deleted". Two requests are the fewest that
can wait for one another, share a list of timed out channels and fill the queue.
Two workers and two pushers are the fewest for which a signal may go to the
wrong one and several pass the limit together. Three items in one-record files
make the reader pass two files, so that a file is deleted behind it. Three
threads give a leader, a follower and one at work at the same time; three items
keep all of them busy and fill the list. Two tasks and three schedules allow a
token before and after another, a cancel and a second life.

In `MCTbnet_check` a packet has up to four units, the buffers begin with one and
reads with three, so that each of `expand`'s cases comes up, and a packet is
cut within its header and its data; one break shows what an old connection
leaves. Two HTTP requests are read three units at a time. Three channels and four
ids wrap around while an id is in use. Three packets in two queues give a head, a
middle and a tail to cut at. Two threads, two servers and three connections let one
be replaced.

In `MCTbsys_check` three threads and depth 2 give a monitor a holder, a waiter and a
rival, and a recursive wait. Two guards nested on each of two threads meet both sides
of a lock. Two launches are a start beside a start, and a start beside a stop; one
signal may come at any time, besides those of `stop`. Two threads, three lines and
three seconds rotate the log often enough to delete a file from the list and to
rotate twice in one second; four descriptors are those in use and one that is
reused. Files of configuration repeat sections and keys (`Files`), two are loaded. Three
entries make a profile with a sibling and a child. Four cells hold a size of two
cells and what follows. Strings of four bytes hold an escape with something behind
it; the bytes are one of each kind the functions tell apart. Paths of six bytes have
three names or two `..`, and buffers of two to five cells are met by results that
are shorter, as long, and longer. Two threads on one tree are a maker and a rival;
the trees have a file in the way, a link below a directory, one below the root and one that leads
to nothing, and one link is asked for with a slash behind its name.
Pids of one, two and three digits make one number shorter than what it
could be written over.

What the violations show (details and quoted lines in `PROJECT.json`):

- `connect()` takes its reference after the component is visible to both
  threads, and can return a deleted connection.
- `recoverRecord` compares offsets of different files and skips an item in
  progress.
- A repeated task that is cancelled and scheduled again while it runs has two
  tokens from then on; `cancel` removes one, and the task runs once more after
  `cancel` returned true.
- A stop command whose signal comes between the writing of the pid file and the
  enabling of the callback removes the pid file and reports success; the service
  runs on, and no stop command can find it again.

## 4. Fairness

- Transport: weak fairness of the two loops (they are threads that poll with a
  timeout), of a call that was begun, of `wait()` after `stop()`, of the clock,
  and of a peer answering the FIN of our `shutdown()`. Nobody has to connect,
  disconnect, stop or send.
- Connection: weak fairness of the threads and the clock; the server need not
  answer. `ReadingPeerSpec` adds that a connected peer goes on reading (strong
  fairness of a write that gets bytes out, as the connection may break in
  between): without it a packet in `_myQueue` waits for ever (section 6).
- PacketQueueThread: workers run and handlers return, a call of `push` or
  `stop` that was begun goes on. Nobody has to push or stop.
- FileQueue: a stopped process is started again, its threads run, handlers
  return. Crashes, stops and pushes need not happen.
- ThreadPool: threads go on outside handlers, and so does a caller inside
  `execute` or `destroy`. Handlers need not return: `ItemIsTaken` and
  `PoolEnds` make an exception for threads that are in one.
- Timer: its thread goes on, tasks return, time passes. One task that does not
  return holds up all others, as it does in the code.
- TCPComponent: the three threads finish what they began inside the component,
  and the two loops look again. The owner need not post, nor the peer send, nor
  time pass.
- Service: a process that can go on does, and so does its signal thread; the
  program's part of it (`run`, `initialize`, `destroy`) returns. Nobody has to
  start, stop or signal it; a killed process owes nothing.
- QueueThread: the threads run and handlers return. The owner is under no duty.

The other parts of `Tbnet` and `Tbsys` promise safety only. `CHECK_DEADLOCK
FALSE` stands in the runs of Connection, Tbutil, Tbnet and Tbsys: once all
requests are answered and the connection is closed, the pool, timer or service
has ended, or the input is used up, nothing need happen. The other models name
their final states (`Terminated`), and TLC reports any other stop.

## 5. Proofs

Each theorem is of the `Spec` of its module, for all values of the constants
that the named assumptions admit. Each safety proof has the same form: an inductive
invariant that adds to the property what the steps need of each other; lemmas for
the initial states and for each action (`...Starts`, `...Steps`), put together in one
step per disjunct of `Next`; then temporal logic.

| Module | Theorem | Property |
|---|---|---|
| `TransportProofs` | `TypeCorrect`, `NoDoubleDelete`, `CountSafe`, `PointersSafe` and one for each kind of holder | `TypeOK`, `ListsDisjoint`, `RefCovers`, `PointersLive` |
| `ConnectionProofs` | `PacketsAreFound`, `TypesKept` | `NothingForgotten`, `TypeOK` |
| | `AnswersOnce` | the safety part of the refinement of `RequestReply` |
| `PacketQueueThreadProofs` | `QueueIsSafe`, `TypesKept` | `QueueSafe`, `TypeOK` |
| `FileQueueProofs` | `TypesKept`, `HandledFewTimes` | `TypeOK`, `OncePerRun` |
| | `ItemsAreKept`, `ItemsAreHandledInOrder` | `AcceptedIsKept`, `HandledInOrderOnce` |
| `TbutilProofs` | `LeaderUnique`, `PoolIsSafe`, `TypesKept` | `OneLeader`, `PoolSafe`, `TypeOK` |
| | `NeverOversleeps`, `TimerIsSafe`, `CancelIsFinal` | `NoOversleep`, `TimerSafe`, `CancelledNotStarted` |
| `TbnetProofs` | `ManagerIsSafe`, `ComponentIsSafe` | `ManagerSafe`, `TcpSafe` |
| | `ListsAreSafe`, `QueueImplements` | `ListsSafe`, `QueueIsSequence` |
| | `StreamIsSafe`, `TbnetIsTyped` | `StreamSafe`, `TypeOK` |
| `TbsysProofs` | `MonitorIsSafe`, `ScopeIsProtected`, `LocksAreSafe` | the parts of `LocksSafe`, `LocksSafe` |
| | `HandledOnce`, `SharedIsSafe`, `ServiceIsSafe`, `ProfilerIsSafe` | `QueueThreadSafe`, `SharedSafe`, `ServiceSafe`, `ProfilerSafe` |
| `FilesProofs` | `LogIsSafe`, `DirectoriesAreMade`, `PidFileIsOne`, `FilesAreSafe` | the parts of `FilesSafe`, `FilesSafe` |

What is assumed of the constants. Threads, pushers, callers and users are finitely many
where they are counted; a name that stands for nobody is not one of them; limits of
queues and files are at least 1, as in the code; bounds on what the environment does
(crashes, signals, calls) are any numbers. Of the `Delays` of a timer one is the greatest,
so that its clock has a bound. Three theorems have a hypothesis of their own:
`TimerIsSafe` and `CancelIsFinal` are of callers that do not schedule a repeated task while it
runs (`~ReuseRunning`; with it the run `MCTbutil_cancel` has the counterexample), and
`ConnectionProofs!TypesKept` is of finitely many requests, as `TypeOK` counts them.

**Transport**, from `KindsDisjoint` and `BoundsOK`, for finite or infinite sets of
components and all `DeadAt` and `MaxHeld`. `IInv` adds:

- `SnapInv`: unless `_iocListChanged` is set, the snapshot is on the
  component list; with it, what is on the snapshot and removed is still on the
  delete list. `SnapshotLive` alone says nothing of the moment between removal and the
  next look at the flag.
- `EventInv`: where the event loop stands, which components it may still touch
  (only it removes, so all of a batch is listed).
- `UserInv`: a reconnecting client is listed from `connectAdd` until its owner
  gives up the flag.
- `RefInv`, `ValveInv`: the reference `connect` and each unanswered request
  hold, per position of the owner and the event loop, so that a count of at most
  `-DeadAt` implies no holder, or the 15 minutes.

**Connection**. `Held` says where a request is, by the place that it is in: a channel is
on the use list once and in the map, unarmed while its packet is in one of the three queues,
each of which has it once and shares it with no other (`PoolInv`, `ListsOnce`,
`PlacesInv`), and what has ended has been called back (`CallsInv`). `ThreadsInv` says what the
timeout thread and the reader have taken out and hold alone, `WriteInv` that a queue that is not
empty has asked for writing. On the same invariant `AnswersOnce` maps each action to a
step of `RequestReply` or to a stutter: a call of the handler is always for a
request that is pending there. The fairness of `RequestReply` stays with TLC.

**PacketQueueThread**. `HeldOnce`, `EndedOnce` and `CallerFirst` give a packet one owner
without counting: nobody else has what the queue, a worker, or a caller has.
`RoomLeft` counts: with `entering` the pushers that passed the test of the length and have yet
to enter, `Len(queue)`, one for each of `entering` and one more for each batch in it stay
within `MaxQueueLen - 1 + |Pushers| + |Batching|`. It is this reservation, and not
the bound itself, that a step keeps.

**FileQueue**. `Frame` is how headers, files and threads hang together at every
moment, crashes and short writes included: the files from the reader to the writer
are all there (`Chained`), an entry of `pos` is behind the reader and at a record
(`Named`), and `header.dat` is behind `m_head` only while a `pop` is inside
(`Linked`). On it stand

- `HandledFewTimes`: the handlings of an item, its records before the reader of `header.dat`,
  its entries there and the threads that handle it are together at most
  `1 + crashes * |Threads|` (`FewCopies`). A pop turns a record into an entry and a handling, a
  finish a handling into one handled; only a crash gives the entries back, one a thread at most.
- `ItemsAreKept`: while no write was short (`Sound`), heads and tails alternate, readers
  stand between records, and an accepted item is handled, before the reader, in a thread's
  hand, or at an entry from which `recoverRecord` takes it. The last disjunct carries the proof
  through the constructor, where an item may be neither before the reader nor in a hand, and
  where a push may begin a new file (`LeftSound`, shared with the pushes of a writer).
- `ItemsAreHandledInOrder`: tails increase along the files (`Increasing`), and what was taken
  is less than all that is before the reader (`TakenFirst`).

**ThreadPool**, from `PoolAssumption`. `LeaderInv` adds to `OneLeader` only the shape of
`promote` and `poolPc`: a step passes the leadership on (`HandOver`), takes it
(`follow`), or leaves every thread in its part (`KeepLeader`). `CountInv` ties `_inUse` and
`_running` to sets of threads by their position, `ItemInv` says that an item is on the work list
once, or in the hands of one thread, or has ended. **Timer**, from `TimerAssumption`:
`SleepInv` says that a sleeping thread was notified or wakes no later than the first token
(a notification and the clock are the only ways out), and that no two tokens are alike;
`OneInv` that a task has a token, and one only, exactly if it is in the map and not at hand in
the thread, and that a cancelled task is not in the map. That a first token exists is a well-founded minimum of a set of
numbers (`WFMin`).

**ConnectionManager**. `Mapped` is the property for each server; `EarlyOnly` pays for each
connection entered after `cleanup` with one thread that had tested `_status` before.
**TCPComponent**. `Shape` says what a descriptor can be and that an unattached component gets no
events; `Cleared` who may still hold the rest of an old packet, by position of owner and loop;
`Watched` that a state other than closed has a watched descriptor or the read/write thread
on the way to close it.

**PacketQueue**. Each of the two queues is a chain: some sequence without repetition begins at
`_head`, ends at `_tail`, is linked in its order and has `_size` elements, and the two have
nothing in common (`QueueInv`). A chain is unique, so each call can be mapped to what
`PacketSequences` does with the sequences, or to a stutter.

**ChannelPool**, from `ChannelPoolAssumption`. Three sequences linked both ways (the use list, the free list,
the list of the timed out) and the channel at hand part the channels of all clusters
(`PoolIs`); `MapIs` ties the map to the members of the use list by their ids, unless
an id was given while in use. Taking out at the front, in the middle, joining and cutting are
lemmas about one sequence (`LinkedLeave`, `LinkedJoin`, `LinkedCut`).

**PacketStream**, from `PacketStreamAssumption`. `StaysInStep`: what is still on its way, in `_input`, on the wire and in
`_output`, is one stream of whole packets in the order of their numbers, the first of
which may be begun already, as `_gotHeader` and the header say, and the last not yet sent to
its end; what was taken comes before all of it. `Arrives` adds that nothing is missing while
the connection has not broken, and the lemmas on `DataBuffer` that doubling leaves room and that
`encode` writes one packet or nothing. That the recursive functions exist is shown by the
set of the numbers that they have reached, not by induction over an operator.
**HTTP response**: each header is there once, and none that `encode` writes itself.
With these `TbnetIsTyped` proves the types of all parts.

**Monitor**, from `MonitorAssumption`, for either mutex. `MonitorSafe` is not inductive:
it says nothing of a thread that waits. `WaitersInv` adds that such a thread keeps in
`LockState` the depth to which it comes back, and `OwedInv` that no more is
owed than `_nnotify` and the waiters cover, so that the unlock pays all of it.

**LockGuard**, from `GuardAssumption`, for the three locks and any nesting. `CountInv` turns
the property into what can be counted (the lock has the reads and the write of
exactly the guards that acquired it), `WriterAlone` and `ReadsBounded` hold
even after a stray unlock and bound what that can do, `BlockedInv` keeps room
for the guard that a thread waits for, and `SimpleInv` says that plain calls on a
`CRWSimpleLock` never stray.

**QueueThread**, from `QueueThreadAssumption`. `OncePlaced` is the property with its counts
named; `ItemIsAtWork` adds that a thread has an item only while it handles one, without which
a thread could take another over it, and `NoThreadYet` that `start` finds no thread.

**SharedThread**, from `SharedThreadAssumption`. `RefsAreCounted` is the heart: `_ref` is
the handles, the `keepMe` of each `start`, and what the new thread or the `start` that
creates it has borrowed (`lent`: one, and two for a moment in the hook). `StartInv` says that one
`start` creates one thread and who holds the mutex; `Lifetime` that `noDelete` and the
count decide about the object, but for the constructor that starts itself, where the count is
zero and the object lives.

**Service**. Three arguments on one invariant. `PipeInv` follows what a daemon has written to its
pipe and what the shell can have read, which gives `TruthIsTold`. `SoleInv`: unless a ghost
says that starts overlapped or the pid file was lost, one launch at most is from its first fork to its end,
and the file names it once it has written. `SignalInv` and `RequestInv`: a callback finds
the service waiting unless it was asked to end, and requests outnumber the signals that wait, the one
being handled and the end of `waitForShutdown`, so that one request cannot be both. A step is about
one launch, the lemma `StepOfOne` carries the others.

**Profiler**, from `ProfilerAssumption`. Of the entries below one all but the last are
released (`TreeGrows`), times nest, and one entry begins no earlier than its elder
sibling ended (`TimesNest`); so the durations below an entry add up to no more than its own.

**Logger**, from `LoggerAssumption`, for any threads, lines, seconds, files and descriptors. One
thread at a time replaces the file of a rotation (`OneRotates`, unless overlapping calls of
`rotateLog` were noted), and its position says where the log is: under its name, renamed, or
new and not yet in its descriptor (`PlaceInv`). `DescriptorsInv` says whose a number is,
`ListInv` that a file is on the list before it is renamed, `LinesInv` and `OrderInv` which lines
are in which file and that later files have later lines, `CheckInv` is for a log that
somebody else moves.

**Directories**, from `DirAssumption`. Directories and obstacles stay, so what a loop has passed remains true
(`PassedInv`). A link can go away again: `Relinked` says that the link of a call that
succeeds is there, or being remade by a thread that has gone past its `unlink`, whose name has no
slash and whose parents are made. **PidFile**, from `PidAssumption`: the property is
inductive with its types; the first line of the file is the number of a process that wrote,
unless a write was cut short.

Only model-checked:

- all liveness, the fair part of the refinement of `RequestReply`: fairness and `ENABLED` are
  out of the prover's reach;
- `RequestsAreCut` and `ProgramSafe` (configuration, byte buffer, strings, paths): what folds and
  recursive functions compute for every input needs induction over data, which the provers
  cannot use;
- `TypeOK` of `Tbsys`, which includes the parts just named.

## 6. What the code does and no property claims

Met while modelling. The models do all of this; where a property would be
false for it, its definition and comment name the exception.

Connections and packets:

- A component whose asynchronous connect fails is closed without a report to the
  event loop, and stays listed if it does not reconnect (`tcpcomponent.cpp:140`).
- `socketConnect` registers the socket before it sets `_state`, and the first
  event may close the component in between (`tcpcomponent.cpp:84`).
- `_input` and `_gotHeader` keep what they had of an old connection, and `_output`
  does for a connect that succeeds at once (`tcpcomponent.cpp:117`).
  `_startConnectTime` is set for such a connect only (line 174). What a stream gives
  after a break in the middle of a packet is under no property.
- `close` and a reconnect of another thread may overwrite each other's `_state`;
  `TcpSafe` is of owners that are alone in the component when they connect.
- A packet in `_myQueue` is in no timeout while the peer does not read.
- A `BadPacket` overtakes the batch of a server; a channel id may come round
  while in use (`channelpool.cpp:91`), and the map then has one of the two.
- A connection from `getConnection` may have been released by `disconnect` of
  another thread before it is used.
- A ":" in an HTTP path is taken for that of a header and cuts the query; a
  header "connection" in small letters passes `setHeader`.

Queues and pools:

- A worker of `PacketQueueThread` may see `_stop` before `_waitFinish` and free
  what `stop(true)` promised to finish; a push that tested `_stop` early may
  enter when the workers are gone.
- After a crash `queue_size` in the header of a file queue may be zero while the
  files hold items, and the threads sleep until the next `writeData`, which
  reports success even when `push` failed. After a short write a crash inside
  `pop` can leave a header that names a deleted file.
- A thread of `ThreadPool` that cannot be started makes `promoteFollower` throw
  with the monitor locked; a handler that throws anything but
  `tbutil::Exception` ends its thread.
- `CQueueThread` leaves in the queue what was there at `stop()`, and its destructor
  does not wait for its threads.

Threads and services:

- `CLockGuard` unlocks also when it did not acquire (`tblockguard.h:34`), and from
  then on no guard protects anything.
- A constructor that starts its own thread goes on in an object that may be deleted, when
  that thread has ended or was not created (`TbThread.cpp`).
- `timedWait` returns true after a timeout, where `Monitor.h:74` says false.
- The callback of a service may be called after `disableInterrupt`, and a second
  signal finds the object destroyed. What a callback does after its own `stop()` runs
  while `main` destroys the derived object. The end of the pipe reads as success. Two
  starts may both find no live pid, and make two daemons.

Logs, files and conversions:

- A log with a descriptor of its own loses a line that is written while the descriptor
  is replaced, and a number that is reused can be closed by another
  thread. A slow `checkFile` moves the log back to a rotated file; overlapping
  `rotateLog` leave files off the list; two rotations in a second write one file
  over another; after a short write the loop begins at the start of the line again. A
  line in a descriptor whose number was reused can be in the next file while the last is
  still open, so that younger lines are deleted before it. Neither `open()` of `tblog.cpp:170`
  and `:197` is tested.
- Configuration: the value of `k = #c` is the comment, a last byte that is not ASCII is
  cut, ` =v` has the key "=", loading again appends.
- The profiler gives -1 when the clock is set back or `begin` follows the end of the
  root.
- `ByteBuffer` puts a `size_t` and gets a `uint32_t`; `reset(size)` after `wrap` leaks and
  keeps the position; `getString` leaks when it throws; `get(index)` moves the
  position before it fails.
- `strToLower` and `strToUpper` run past the end of a string that ends in half a character.
- `getAbsPath` writes its NUL behind the buffer for a path as long as the buffer, and is
  misled by a slash that the buffer held before (`Utility.cpp:114`). `getExe`
  does not end its string, and `getExeRoot` searches from the end of the buffer.
- `mkdirs` returns false for a path that ends in a slash which it has just made, and when a
  rival made the directory; so does `checkCreateDir`, which leaves the ones below
  unmade, and writes one pointer behind its array for a path with more names than
  that holds. `checkCreateLink` goes on when `checkCreateDir` refuses a name with a dot, and
  for a link in the root directory unlinks the old one before `checkCreateDir` refuses, so that the
  link is gone (`Utility.cpp:348`, `:228`).
- A second starter empties the pid file of the first before it asks for the lock, and
  the lock ends when the number is written, so that two may run, one of them
  without a file; `existPid` on a file without a line reads what its buffer held before.
  A process started by init writes no pid file.

## 7. Not modelled

UDP is unfinished in the source. The statistics are counters that only a log
line reads. `Memory.hpp` and `atomic.h` are templates and assembly that a
model would restate. Time, network addresses, exceptions and `getHostIP` wrap
library calls; `linklist.h` is used by nothing. Of `CStringUtil` the hashes,
`isInt` and `formatByteSize`, of `DataBuffer` the conversions of integers and
`findBytes` are left out, and everywhere the wrap of 32-bit sizes and positions that
would need gigabytes to happen.

## 8. Plan

Theorems to come: `BufferSafe` of `ProgramSafe` and the types of `Tbsys`, then `RequestsAreCut`,
each once what it computes is described by a relation between positions instead of by a fold.

Models to come: the server side of `Connection` composed with `Transport` and
`PacketQueueThread`; `ThreadPool` and `Timer` over `Monitor` in place of the
monitor that they assume.
