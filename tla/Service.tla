------------------------------- MODULE Service -------------------------------
(***************************************************************************)
(* tbutil::Service and its CtrlCHandler: main() with its options, the      *)
(* start of a daemon by two forks and a pipe, the pid file, the stop       *)
(* command, and the end of a service by a signal. Several launches of the  *)
(* program share the pid file. Each launch is the process that was started *)
(* (its `shell`), the service, and the service's sigwait thread.           *)
(***************************************************************************)
EXTENDS Integers, Sequences, FiniteSets, SequencesExt

CONSTANTS
  Launches,
  CommandLines,  \* the arguments a launch can have, as sequences of tokens
  MaxSignals     \* bound of the signals and calls of stop() beside those of stop commands

VARIABLES
  shell,      \* where the started process is, or the status that it exited with
  command,    \* what its arguments come to
  service,    \* where main() of the service is
  flags,      \* _destroyed, _chlidStop, the callback, _instance, the cancellation and the status
  sigwaiter,  \* where the sigwait thread is, and the signal that it handles
  pending,    \* the signals that wait for it
  pipe,       \* what the service has written for the shell, and if it still can
  pidFile,    \* the launch whose pid is in it, or one of the two below
  target,     \* the launch that a stop command has read from the pid file
  ran,        \* ghost: run() succeeded
  died,       \* ghost: the service was killed or failed an assertion
  wanted,     \* ghost: how often a service was asked to end, or sent a SIGHUP
  detached,   \* ghost: the pid file that a service has open was removed
  disturbed   \* ghost: two starts overlapped, or a pid was not written, or removed

procVars == <<shell, command, service, flags, sigwaiter, pending, pipe, pidFile, target>>
ghostVars == <<ran, died, wanted, detached, disturbed>>
serviceVars == <<procVars, ghostVars>>

NoFile == "no file"
Truncated == "opened, not yet written"
NoPid == "no pid"
Signals == {"SIGINT", "SIGHUP"}

ShellSteps == {"off", "main", "runDaemon", "fork", "reading", "kill", "foreground", "success", "failure"}
ServiceSteps == {"none", "child", "grandchild", "run", "report", "initialize", "open pid", "write pid",
                 "waitForShutdown", "waiting", "destroy", "failed", "~Service", "join", "gone"}
Commands == {"success", "failure", "stop", "runDaemon", "foreground"}
SigwaitSteps == {"none", "sigwait", "getCallback", "callback", "interruptCallback", "returning", "shutdown",
                 "ended"}

ServiceTypeOK ==
  /\ shell \in [Launches -> ShellSteps] /\ service \in [Launches -> ServiceSteps]
  /\ command \in [Launches -> Commands]
  /\ flags \in [Launches -> [destroyed : BOOLEAN, chlidStop : BOOLEAN, callback : BOOLEAN,
                             instance : BOOLEAN, cancelled : BOOLEAN, status : {"success", "failure"}]]
  /\ sigwaiter \in [Launches -> [pc : SigwaitSteps, signal : Signals]]
  /\ pending \in [Launches -> SUBSET Signals]
  /\ \A l \in Launches : pipe[l].bytes \in {<<>>, <<0>>, <<1>>} /\ pipe[l].writable \in BOOLEAN
  /\ pidFile \in Launches \cup {NoFile, Truncated}
  /\ target \in [Launches -> Launches \cup {NoPid}]
  /\ wanted \in [Launches -> 0..MaxSignals + Cardinality(Launches)] /\ disturbed \in BOOLEAN
  /\ ran \subseteq Launches /\ died \subseteq Launches /\ detached \subseteq Launches

\* The members as the constructor leaves them.
newService == [destroyed |-> FALSE, chlidStop |-> FALSE, callback |-> FALSE,
               instance |-> TRUE, cancelled |-> FALSE, status |-> "failure"]

ServiceInit ==
  /\ shell = [l \in Launches |-> "off"] /\ command = [l \in Launches |-> "failure"]
  /\ service = [l \in Launches |-> "none"] /\ flags = [l \in Launches |-> newService]
  /\ sigwaiter = [l \in Launches |-> [pc |-> "none", signal |-> "SIGINT"]]
  /\ pending = [l \in Launches |-> {}]
  /\ pipe = [l \in Launches |-> [bytes |-> <<>>, writable |-> FALSE]]
  /\ pidFile = NoFile /\ target = [l \in Launches |-> NoPid]
  /\ ran = {} /\ died = {} /\ detached = {} /\ disturbed = FALSE
  /\ wanted = [l \in Launches |-> 0]

exists(l) == service[l] \notin {"none", "gone"}
at(l, pc) == service' = [service EXCEPT ![l] = pc]
exits(l, status) == shell' = [shell EXCEPT ![l] = status]

-----------------------------------------------------------------------------
(* main() *)

\* What the loop over the arguments makes of them: the options, the option that still
\* wants its value, and whether an option has ended the loop with a status of its own.
noOptions == [daemonize |-> FALSE, noclose |-> FALSE, pidFile |-> FALSE, config |-> FALSE,
              cmd |-> "", wants |-> "", exit |-> "none"]
withValue(o, value) ==
  CASE o.wants = "-p" -> [o EXCEPT !.pidFile = value # "", !.wants = ""]
    [] o.wants # "-p" /\ value = "" -> [o EXCEPT !.exit = "failure"]
    [] o.wants = "-f" /\ value # "" -> [o EXCEPT !.config = TRUE, !.wants = ""]
    [] o.wants \notin {"-p", "-f"} /\ value # "" -> [o EXCEPT !.cmd = value, !.wants = ""]
withOption(o, token) ==
  CASE token = "--help" -> [o EXCEPT !.exit = "success"]
    [] token = "--daemon" -> [o EXCEPT !.daemonize = TRUE]
    [] token = "--noclose" -> [o EXCEPT !.noclose = TRUE]
    [] token \in {"-p", "-f", "-k"} -> [o EXCEPT !.wants = token]
    [] OTHER -> [o EXCEPT !.exit = "failure"]
parsed(args) ==
  LET next(o, token) == IF o.exit # "none" THEN o
                        ELSE IF o.wants # "" THEN withValue(o, token) ELSE withOption(o, token)
      o == FoldLeft(next, noOptions, args)
  IN IF args = <<>> \/ o.wants # "" THEN [o EXCEPT !.exit = "failure"] ELSE o

\* The checks after the loop: a status, or what main() goes on with.
mainResult(o) ==
  LET refused == \/ o.exit # "none"
                 \/ o.noclose /\ ~o.daemonize
                 \/ o.pidFile # o.daemonize
  IN CASE o.exit = "success" -> "success"
       [] ~refused /\ o.cmd = "stop" /\ o.pidFile -> "stop"
       [] ~refused /\ o.cmd = "start" /\ o.config ->
            IF o.daemonize THEN "runDaemon" ELSE "foreground"
       [] OTHER -> "failure"

results == [args \in CommandLines |-> mainResult(parsed(args))]

callMain(l, args) ==
  /\ shell[l] = "off" /\ exits(l, "main") /\ command' = [command EXCEPT ![l] = results[args]]
  /\ UNCHANGED <<service, flags, sigwaiter, pending, pipe, pidFile, target, ghostVars>>

\* What main() makes of a pid file without a line is what was in its buffer.
stopReads ==
  IF pidFile = NoFile THEN {NoPid} ELSE IF pidFile = Truncated THEN Launches \cup {NoPid} ELSE {pidFile}

\* The stop command reads the pid file and removes it.
mainStop(l) ==
  /\ shell[l] = "main" /\ command[l] = "stop" /\ exits(l, "kill")
  /\ \E p \in stopReads : target' = [target EXCEPT ![l] = p]
  /\ pidFile' = NoFile /\ disturbed' = TRUE
  /\ detached' = detached \cup {k \in Launches : service[k] = "write pid"}
  /\ UNCHANGED <<command, service, flags, sigwaiter, pending, pipe, ran, died, wanted>>

\* start() without --daemon: the CtrlCHandler, then run().
mainForeground(l) ==
  /\ shell[l] = "main" /\ command[l] = "foreground" /\ exits(l, "foreground")
  /\ at(l, "run") /\ sigwaiter' = [sigwaiter EXCEPT ![l].pc = "sigwait"]
  /\ UNCHANGED <<command, flags, pending, pipe, pidFile, target, ghostVars>>

mainElse(l) ==
  /\ shell[l] = "main" /\ command[l] \notin {"stop", "foreground"} /\ exits(l, command[l])
  /\ UNCHANGED <<command, service, flags, sigwaiter, pending, pipe, pidFile, target, ghostVars>>

-----------------------------------------------------------------------------
(* runDaemon(), in the shell *)

unregistered(k) == shell[k] = "fork" \/ (shell[k] # "foreground" /\ exists(k) /\ service[k] # "waiting")

\* Seeded fault: a pid in the file is taken for a service that has ended.
runningNever == FALSE
running == pidFile \in Launches /\ exists(pidFile)
checkPid(l) ==
  /\ shell[l] = "runDaemon" /\ exits(l, IF running THEN "failure" ELSE "fork")
  /\ disturbed' = (disturbed \/ (~running /\ \E k \in Launches \ {l} : unregistered(k)))
  /\ UNCHANGED <<command, service, flags, sigwaiter, pending, pipe, pidFile, target, ran, died, wanted, detached>>

\* The pipe and the first fork; either can fail.
forkChild(l) ==
  /\ shell[l] = "fork"
  /\ \/ /\ exits(l, "reading") /\ at(l, "child") /\ pipe' = [pipe EXCEPT ![l].writable = TRUE]
     \/ exits(l, "failure") /\ UNCHANGED <<service, pipe>>
  /\ UNCHANGED <<command, flags, sigwaiter, pending, pidFile, target, ghostVars>>

\* The status that the shell makes of the first byte; at the end of the pipe c is still 0.
told(bytes) == IF bytes = <<>> \/ Head(bytes) = 0 THEN "success" ELSE "failure"
readPipe(l) ==
  /\ shell[l] = "reading" /\ (pipe[l].bytes # <<>> \/ ~pipe[l].writable)
  /\ exits(l, told(pipe[l].bytes))
  /\ UNCHANGED <<command, service, flags, sigwaiter, pending, pipe, pidFile, target, ghostVars>>

\* The last step of a stop command; it exits with success whether or not kill() did.
mayAsk == FoldFunction(+, 0, wanted) < MaxSignals
unheard(l) == sigwaiter[l].pc = "none"
\* A process that is gone leaves nothing of its memory.
forgets(l) ==
  /\ at(l, "gone") /\ flags' = [flags EXCEPT ![l] = newService] /\ pending' = [pending EXCEPT ![l] = {}]
  /\ sigwaiter' = [sigwaiter EXCEPT ![l] = [pc |-> "ended", signal |-> "SIGINT"]]
dies(l) == forgets(l) /\ pipe' = [pipe EXCEPT ![l].writable = FALSE] /\ died' = died \cup {l}
gets(l, s) == pending' = [pending EXCEPT ![l] = @ \cup {s}] /\ wanted' = [wanted EXCEPT ![l] = @ + 1]
mainKill(l) ==
  LET k == target[l]
  IN /\ shell[l] = "kill" /\ exits(l, "success")
     /\ \/ k \in Launches /\ exists(k) /\ unheard(k) /\ dies(k) /\ UNCHANGED wanted
        \/ /\ k \in Launches /\ exists(k) /\ ~unheard(k) /\ gets(k, "SIGINT")
           /\ UNCHANGED <<service, flags, pipe, died, sigwaiter>>
        \/ ~(k \in Launches /\ exists(k)) /\ UNCHANGED <<service, flags, pipe, died, sigwaiter, pending, wanted>>
     /\ UNCHANGED <<command, pidFile, target, ran, detached, disturbed>>

-----------------------------------------------------------------------------
(* The service: the rest of runDaemon() and start(), and the destructor *)

\* setsid() and the second fork; chdir() and sysconf(), the CtrlCHandler and the files.
becomeDaemon(l) ==
  /\ \/ service[l] = "child" /\ (at(l, "grandchild") \/ at(l, "failed")) /\ UNCHANGED sigwaiter
     \/ service[l] = "grandchild" /\ at(l, "failed") /\ UNCHANGED sigwaiter
     \/ service[l] = "grandchild" /\ at(l, "run") /\ sigwaiter' = [sigwaiter EXCEPT ![l].pc = "sigwait"]
  /\ UNCHANGED <<shell, command, flags, pending, pipe, pidFile, target, ghostVars>>

runEnds(l) ==
  /\ service[l] = "run"
  /\ LET daemon == shell[l] # "foreground"
     IN \/ at(l, IF daemon THEN "report" ELSE "waitForShutdown") /\ ran' = ran \cup {l}
        \/ at(l, IF daemon THEN "failed" ELSE "~Service") /\ UNCHANGED ran
  /\ UNCHANGED <<shell, command, flags, sigwaiter, pending, pipe, pidFile, target, died, wanted, detached, disturbed>>

\* One byte for the shell: run() succeeded, or what failed.
\* Seeded fault: a failure is reported like a success.
reportByteAlways0(l) == 0
reportByte(l) == IF service[l] = "report" THEN 0 ELSE 1
report(l) ==
  /\ service[l] \in {"report", "failed"}
  /\ pipe' = [pipe EXCEPT ![l] = [bytes |-> <<reportByte(l)>>, writable |-> FALSE]]
  /\ at(l, IF service[l] = "report" THEN "initialize" ELSE "~Service")
  /\ UNCHANGED <<shell, command, flags, sigwaiter, pending, pidFile, target, ghostVars>>

\* initialize() of the program may throw; there is nobody left to tell.
initialize(l) ==
  /\ service[l] = "initialize" /\ (at(l, "open pid") \/ at(l, "~Service"))
  /\ UNCHANGED <<shell, command, flags, sigwaiter, pending, pipe, pidFile, target, ghostVars>>

\* The pid file is emptied when it is opened; a file that cannot be opened is passed over.
openPid(l) ==
  /\ service[l] = "open pid"
  /\ \/ at(l, "write pid") /\ pidFile' = Truncated /\ UNCHANGED disturbed
     \/ at(l, "waitForShutdown") /\ disturbed' = TRUE /\ UNCHANGED pidFile
  /\ UNCHANGED <<shell, command, flags, sigwaiter, pending, pipe, target, ran, died, wanted, detached>>
writePid(l) ==
  /\ service[l] = "write pid" /\ at(l, "waitForShutdown")
  /\ pidFile' = IF l \in detached THEN pidFile ELSE l
  /\ UNCHANGED <<shell, command, flags, sigwaiter, pending, pipe, target, ghostVars>>

\* waitForShutdown(): with _monitor locked up to wait(), and again until it returns.
startWaiting(l) ==
  /\ service[l] = "waitForShutdown" /\ at(l, "waiting")
  /\ flags' = [flags EXCEPT ![l].callback = TRUE]
  /\ UNCHANGED <<shell, command, sigwaiter, pending, pipe, pidFile, target, ghostVars>>
\* Seeded fault: only a stop() of the program ends the loop.
isOverStopped(l) == flags[l].destroyed /\ flags[l].chlidStop
isOver(l) == flags[l].destroyed
stopWaiting(l) ==
  /\ service[l] = "waiting" /\ isOver(l)
  /\ at(l, IF flags[l].chlidStop THEN "destroy" ELSE "~Service")
  /\ flags' = [flags EXCEPT ![l].callback = FALSE]
  /\ UNCHANGED <<shell, command, sigwaiter, pending, pipe, pidFile, target, ghostVars>>

destroy(l) ==
  /\ service[l] = "destroy" /\ at(l, "~Service")
  /\ \E ok \in {"success", "failure"} : flags' = [flags EXCEPT ![l].status = ok]
  /\ UNCHANGED <<shell, command, sigwaiter, pending, pipe, pidFile, target, ghostVars>>

\* ~Service() and ~CtrlCHandler(): the thread is cancelled, and joined in endService.
deleteService(l) ==
  /\ service[l] = "~Service" /\ at(l, "join")
  /\ flags' = [flags EXCEPT ![l].instance = FALSE, ![l].cancelled = TRUE]
  /\ UNCHANGED <<shell, command, sigwaiter, pending, pipe, pidFile, target, ghostVars>>
endService(l) ==
  /\ service[l] = "join" /\ sigwaiter[l].pc \in {"none", "ended"} /\ forgets(l)
  /\ IF shell[l] = "foreground" THEN exits(l, flags[l].status) ELSE UNCHANGED shell
  /\ UNCHANGED <<command, pipe, pidFile, target, ghostVars>>

mainThread(l) ==
  \/ becomeDaemon(l) \/ runEnds(l) \/ report(l) \/ initialize(l) \/ openPid(l) \/ writePid(l)
  \/ startWaiting(l) \/ stopWaiting(l) \/ destroy(l) \/ deleteService(l) \/ endService(l)

-----------------------------------------------------------------------------
(* The sigwait thread, ctrlCHandlerCallback() and handleInterrupt() *)

\* The calls that a callback makes for a signal, in their order.
\* Seeded fault: the service is shut down before its program is told.
interruptStepsSwapped(s) == IF s = "SIGHUP" THEN <<"interruptCallback">> ELSE <<"shutdown", "interruptCallback">>
interruptSteps(s) == IF s = "SIGHUP" THEN <<"interruptCallback">> ELSE <<"interruptCallback", "shutdown">>
firstStep(s) == interruptSteps(s)[1]
stepAfter(s, pc) == IF Len(interruptSteps(s)) = 2 /\ pc = firstStep(s) THEN interruptSteps(s)[2] ELSE "sigwait"
goesTo(l, pc) == sigwaiter' = [sigwaiter EXCEPT ![l].pc = pc]
mainElsewhere == UNCHANGED <<shell, command, pidFile, target, ran, wanted, detached, disturbed>>

sigwaitReturns(l) ==
  /\ sigwaiter[l].pc = "sigwait"
  /\ \E s \in pending[l] : /\ sigwaiter' = [sigwaiter EXCEPT ![l] = [pc |-> "getCallback", signal |-> s]]
                           /\ pending' = [pending EXCEPT ![l] = @ \ {s}]
  /\ mainElsewhere /\ UNCHANGED <<service, flags, pipe, died>>

\* A signal without a callback is forgotten.
getCallback(l) ==
  /\ sigwaiter[l].pc = "getCallback" /\ goesTo(l, IF flags[l].callback THEN "callback" ELSE "sigwait")
  /\ mainElsewhere /\ UNCHANGED <<service, flags, pending, pipe, died>>

callback(l) ==
  /\ sigwaiter[l].pc = "callback"
  /\ IF flags[l].instance
     THEN goesTo(l, firstStep(sigwaiter[l].signal)) /\ UNCHANGED <<service, flags, pending, pipe, died>>
     ELSE dies(l)
  /\ mainElsewhere

\* The program's interruptCallback() may call stop(), and has yet to return then, while
\* the main thread goes on to destroy(); shutdown() sets _destroyed in any case.
interruptCallback(l) ==
  LET s == sigwaiter[l].signal
  IN /\ sigwaiter[l].pc = "interruptCallback"
     /\ \/ goesTo(l, stepAfter(s, "interruptCallback")) /\ UNCHANGED flags
        \/ /\ s = "SIGINT" /\ goesTo(l, "returning")
           /\ flags' = [flags EXCEPT ![l].chlidStop = TRUE, ![l].destroyed = TRUE]
     /\ mainElsewhere /\ UNCHANGED <<service, pending, pipe, died>>
callbackReturns(l) ==
  /\ sigwaiter[l].pc = "returning" /\ goesTo(l, stepAfter(sigwaiter[l].signal, "interruptCallback"))
  /\ mainElsewhere /\ UNCHANGED <<service, flags, pending, pipe, died>>
shutdown(l) ==
  /\ sigwaiter[l].pc = "shutdown" /\ goesTo(l, stepAfter(sigwaiter[l].signal, "shutdown"))
  /\ flags' = [flags EXCEPT ![l].destroyed = TRUE]
  /\ mainElsewhere /\ UNCHANGED <<service, pending, pipe, died>>

cancelled(l) ==
  /\ sigwaiter[l].pc = "sigwait" /\ flags[l].cancelled /\ goesTo(l, "ended")
  /\ mainElsewhere /\ UNCHANGED <<service, flags, pending, pipe, died>>

sigwaitThread(l) ==
  \/ sigwaitReturns(l) \/ getCallback(l) \/ callback(l) \/ interruptCallback(l) \/ callbackReturns(l)
  \/ shutdown(l) \/ cancelled(l)

-----------------------------------------------------------------------------
(* What happens to a service from outside *)

sendSignal(l, s) ==
  /\ exists(l) /\ ~unheard(l) /\ mayAsk /\ gets(l, s)
  /\ UNCHANGED <<shell, command, service, flags, sigwaiter, pipe, pidFile, target, ran, died, detached, disturbed>>

\* A thread of the program calls stop().
stop(l) ==
  /\ service[l] \in {"run", "report", "initialize", "open pid", "write pid", "waitForShutdown", "waiting"}
  /\ mayAsk /\ wanted' = [wanted EXCEPT ![l] = @ + 1]
  /\ flags' = [flags EXCEPT ![l].chlidStop = TRUE, ![l].destroyed = TRUE]
  /\ UNCHANGED <<shell, command, service, sigwaiter, pending, pipe, pidFile, target, ran, died, detached, disturbed>>

\* The process is killed or fails an assertion; at most one is.
crash(l) ==
  /\ exists(l) /\ died = {} /\ dies(l)
  /\ IF shell[l] = "foreground" THEN exits(l, "failure") ELSE UNCHANGED shell
  /\ UNCHANGED <<command, pidFile, target, ran, wanted, detached, disturbed>>

shellStep(l) ==
  mainStop(l) \/ mainForeground(l) \/ mainElse(l) \/ checkPid(l) \/ forkChild(l) \/ readPipe(l) \/ mainKill(l)

ServiceNext ==
  \E l \in Launches :
    \/ \E args \in CommandLines : callMain(l, args)
    \/ shellStep(l)
    \/ mainThread(l)
    \/ sigwaitThread(l)
    \/ \E s \in Signals : sendSignal(l, s)
    \/ stop(l)
    \/ crash(l)

-----------------------------------------------------------------------------
(* Properties *)

isDaemon(l) == command[l] = "runDaemon" /\ service[l] # "none"

\* The shell says what became of the daemon: success only when run() succeeded, or
\* the daemon died without a word, which reads like success; failure only when
\* run() did not succeed (Service.cpp:489-537, :640-656, :699-739).
TruthIsTold ==
  \A l \in Launches : isDaemon(l) =>
    /\ shell[l] = "success" => l \in ran \cup died
    /\ shell[l] = "failure" => l \notin ran

\* One daemon serves a pid file, as long as no start overlapped another, every pid
\* was written, and no stop command removed the file (Service.cpp:450-471, :663-671).
OneDaemon ==
  disturbed \/ Cardinality({l \in Launches : isDaemon(l) /\ service[l] \in {"waitForShutdown", "waiting"}}) <= 1

\* A service that was asked once to end is still whole when the signal thread calls
\* the program's part of it; a second request may find that destroyed, and so may what
\* that part does after a stop() of its own. The monitor that shutdown() uses is there in
\* any case (Service.cpp:32-37, :53-54, :388-396).
CallbackFindsService ==
  \A l \in Launches :
    /\ sigwaiter[l].pc \in {"callback", "interruptCallback"}
         => wanted[l] > 1 \/ service[l] \notin {"~Service", "join"}
    /\ sigwaiter[l].pc \in {"interruptCallback", "returning", "shutdown"} => service[l] # "gone"

ServiceSafe == TruthIsTold /\ OneDaemon /\ CallbackFindsService

\* A service whose shutdown has been asked for ends, with its signal thread, and so
\* does one whose callback got the signal (Service.cpp:376-397, CtrlCHandler.cpp:139-150).
ShutdownEnds ==
  \A l \in Launches :
    (exists(l) /\ (flags[l].destroyed \/ sigwaiter[l] = [pc |-> "callback", signal |-> "SIGINT"]))
      ~> service[l] = "gone"

\* A stop command that has found the pid of a service stops it (Service.cpp:414).
StopStops ==
  \A l, k \in Launches : (shell[l] = "kill" /\ target[l] = k) ~> ~exists(k)
=============================================================================
