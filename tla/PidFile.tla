------------------------------ MODULE PidFile ------------------------------
(***************************************************************************)
(* CProcess: processes that make themselves daemons and write their number *)
(* into the same pid file, and whoever asks the file for a live process.   *)
(* The file is cut to nothing before it is locked, and the lock goes with  *)
(* the descriptor that wrote the number.                                   *)
(***************************************************************************)
EXTENDS Integers, Sequences, FiniteSets, SequencesExt

CONSTANT Pids    \* the processes, each the digits of its number

ASSUME PidAssumption == Pids \subseteq Seq(0..9)

VARIABLES
  pidText,       \* the file: digits and ends of lines, or <<NoFileYet>>
  pidLock,       \* who has the lock of the file, as a set
  daemon,        \* how far a process is
  halfWritten    \* ghost: a write of a number was cut short

pidVars == <<pidText, pidLock, daemon, halfWritten>>

NewLine == -1
NoFileYet == -2
DaemonSteps == {"new", "child", "opened", "locked", "written", "running", "gone"}

PidTypeOK ==
  /\ pidText \in Seq(0..9 \cup {NewLine, NoFileYet}) /\ pidLock \in SUBSET Pids
  /\ daemon \in [Pids -> DaemonSteps] /\ halfWritten \in BOOLEAN

PidInit ==
  /\ pidText = <<NoFileYet>> /\ pidLock = {}
  /\ daemon = [p \in Pids |-> "new"] /\ halfWritten = FALSE

-----------------------------------------------------------------------------

becomes(p, step) == daemon' = [daemon EXCEPT ![p] = step]

\* startDaemon(): the child of fork(), or no child.
forkDaemon(p) ==
  /\ daemon[p] = "new" /\ (becomes(p, "child") \/ becomes(p, "gone"))
  /\ UNCHANGED <<pidText, pidLock, halfWritten>>

\* writePidFile(): open() with O_TRUNC, or no file.
openPidFile(p) ==
  /\ daemon[p] = "child"
  /\ \/ pidText' = <<>> /\ becomes(p, "opened")
     \/ UNCHANGED pidText /\ becomes(p, "gone")
  /\ UNCHANGED <<pidLock, halfWritten>>

\* lockf() with F_TLOCK: who does not get the lock exits.
\* Seeded fault: the answer of lockf() is ignored.
lockAlways(p) == becomes(p, "locked") /\ pidLock' = pidLock \cup {p}
lockOrExit(p) ==
  IF pidLock = {} THEN becomes(p, "locked") /\ pidLock' = {p}
  ELSE becomes(p, "gone") /\ UNCHANGED pidLock

lockPidFile(p) ==
  /\ daemon[p] = "opened" /\ lockOrExit(p)
  /\ UNCHANGED <<pidText, halfWritten>>

\* write(): over the beginning of what is there. Part of it, or none: the process exits.
\* Seeded fault: the number without the end of its line.
pidLineBare(p) == p
pidLine(p) == Append(p, NewLine)
overwritten(s) == s \o SubSeq(pidText, Len(s) + 1, Len(pidText))

writeNumber(p) ==
  /\ daemon[p] = "locked"
  /\ \E n \in 0..Len(pidLine(p)) :
       /\ pidText' = overwritten(SubSeq(pidLine(p), 1, n))
       /\ IF n = Len(pidLine(p)) THEN becomes(p, "written") /\ UNCHANGED <<pidLock, halfWritten>>
          ELSE becomes(p, "gone") /\ pidLock' = pidLock \ {p} /\ halfWritten' = (halfWritten \/ n > 0)

closePidFile(p) ==
  /\ daemon[p] = "written" /\ becomes(p, "running") /\ pidLock' = pidLock \ {p}
  /\ UNCHANGED <<pidText, halfWritten>>

\* A process may end anywhere, and its lock goes with it.
daemonEnds(p) ==
  /\ daemon[p] \notin {"new", "gone"} /\ becomes(p, "gone") /\ pidLock' = pidLock \ {p}
  /\ UNCHANGED <<pidText, halfWritten>>

PidNext ==
  \E p \in Pids : forkDaemon(p) \/ openPidFile(p) \/ lockPidFile(p) \/ writeNumber(p) \/ closePidFile(p) \/ daemonEnds(p)

-----------------------------------------------------------------------------
(* existPid() *)

alivePids == {p \in Pids : daemon[p] \notin {"new", "gone"}}
noPid == <<>>

\* The number in the first line, if that process is alive. Without an end of a line the
\* buffer that was read into goes on with what it held before.
existPid ==
  LET ends == {i \in 1..Len(pidText) : pidText[i] = NewLine}
      line == SubSeq(pidText, 1, (CHOOSE i \in ends : \A j \in ends : i <= j) - 1)
  IN IF pidText = <<NoFileYet>> THEN {noPid}
     ELSE IF ends = {} THEN alivePids \cup {noPid}
     ELSE IF line \in alivePids THEN {line} ELSE {noPid}

\* However many start at once, a file with a whole line names one process that wrote its
\* number, never a mixture of two, unless a write was cut short; and existPid() finds a
\* process that never wrote only through an empty file (process.cpp:49-96).
PidFileNamesOne ==
  halfWritten \/ pidText \in {<<>>, <<NoFileYet>>}
    \/ \E p \in Pids : /\ daemon[p] \in {"written", "running", "gone"}
                       /\ IsPrefix(pidLine(p), pidText)
                       /\ existPid \subseteq {p, noPid}
=============================================================================
