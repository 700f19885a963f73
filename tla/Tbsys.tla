-------------------------------- MODULE Tbsys --------------------------------
(***************************************************************************)
(* Components of tbsys side by side: a behaviour is one of the component   *)
(* named by part and leaves the others in one initial state of theirs.     *)
(* ThreadPool and Timer, which are built on Monitor and Thread, are in     *)
(* Tbutil.                                                                 *)
(***************************************************************************)
EXTENDS Monitor, SharedThread, LockGuard, Service, QueueThread, Logger, Config, Profiler, ByteBuffer,
        Strings, Paths, Directories, PidFile

VARIABLE part

vars == <<monitorVars, sharedVars, guardVars, serviceVars, queueThreadVars, loggerVars, configVars, profilerVars,
          bufferVars, text, path, dirVars, pidVars, part>>

Parts == {"monitor", "thread", "guard", "service", "pool", "log", "config", "profiler", "buffer", "strings",
          "paths", "directories", "pid file"}

TypeOK ==
  /\ part \in Parts
  /\ MonitorTypeOK /\ SharedTypeOK /\ GuardTypeOK /\ ServiceTypeOK /\ QueueThreadTypeOK
  /\ LoggerTypeOK /\ ConfigTypeOK /\ ProfilerTypeOK /\ BufferTypeOK /\ StringsTypeOK
  /\ PathsTypeOK /\ DirTypeOK /\ PidTypeOK

\* The initial states that part does not use are one of each.
Init ==
  /\ part \in Parts
  /\ MonitorInit /\ SharedInit /\ GuardInit /\ ServiceInit /\ QueueThreadInit
  /\ LoggerInit /\ ConfigInit /\ ProfilerInit /\ BufferInit /\ StringsInit
  /\ PathsInit /\ DirInit /\ PidInit
  /\ part # "monitor" => recursive
  /\ part # "thread" => detachable /\ selfStarted
  /\ part # "guard" => lockKind = "CThreadMutex"
  /\ part # "buffer" => sizeCells = 2
  /\ part # "directories" => tree = (CHOOSE x \in Trees : TRUE) /\ order = [t \in Makers |-> CHOOSE o \in Orders : TRUE]
  /\ part # "log" => settings = CHOOSE s \in Settings : TRUE

only(p) ==
  /\ part = p /\ UNCHANGED part
  /\ p # "monitor" => UNCHANGED monitorVars
  /\ p # "thread" => UNCHANGED sharedVars
  /\ p # "guard" => UNCHANGED guardVars
  /\ p # "service" => UNCHANGED serviceVars
  /\ p # "pool" => UNCHANGED queueThreadVars
  /\ p # "log" => UNCHANGED loggerVars
  /\ p # "config" => UNCHANGED configVars
  /\ p # "profiler" => UNCHANGED profilerVars
  /\ p # "buffer" => UNCHANGED bufferVars
  /\ p # "strings" => UNCHANGED text
  /\ p # "paths" => UNCHANGED path
  /\ p # "directories" => UNCHANGED dirVars
  /\ p # "pid file" => UNCHANGED pidVars

Next ==
  \/ only("monitor") /\ MonitorNext
  \/ only("thread") /\ SharedNext
  \/ only("guard") /\ GuardNext
  \/ only("service") /\ ServiceNext
  \/ only("pool") /\ QueueThreadNext
  \/ only("log") /\ LoggerNext
  \/ only("config") /\ ConfigNext
  \/ only("profiler") /\ ProfilerNext
  \/ only("buffer") /\ BufferNext
  \/ only("strings") /\ StringsNext
  \/ only("paths") /\ PathsNext
  \/ only("directories") /\ DirNext
  \/ only("pid file") /\ PidNext

Spec == Init /\ [][Next]_vars

\* A process or thread that can go on does: those of a service, whose run(), initialize()
\* and destroy() return, and those of a queue, whose handler does. The owner of a queue
\* and the users of a monitor, of a thread and of a lock are under no duty.
ServiceFairness ==
  \A l \in Launches :
    /\ WF_serviceVars(part = "service" /\ shellStep(l))
    /\ WF_serviceVars(part = "service" /\ mainThread(l))
    /\ WF_serviceVars(part = "service" /\ sigwaitThread(l))

QueueThreadFairness == \A w \in Pool : WF_queueThreadVars(part = "pool" /\ runThread(w))

LiveSpec == Spec /\ ServiceFairness /\ QueueThreadFairness

\* What Shared, Handle and Thread promise: nobody uses a deleted object, and isAlive()
\* is right about the thread.
SharedSafe == DeletedIsUnused /\ AliveIsTrue

\* What tblog.h, fileutil.h, Utility.h and process.h promise of the files, the directories
\* and the pid file that they leave behind.
FilesSafe == LogSafe /\ DirectoriesSafe /\ PidFileNamesOne

\* What Monitor.h, Cond.h, Mutex.h and tblockguard.h promise of what is locked.
LocksSafe == MonitorSafe /\ GuardProtects

\* What config.h, bytebuffer.h, stringutil.h and Utility.h promise of the data that a
\* program gives them.
ProgramSafe == ConfigSafe /\ BufferSafe /\ StringsSafe /\ PathsSafe
=============================================================================
