------------------------------- MODULE Logger -------------------------------
(***************************************************************************)
(* CLogger: threads that log to one descriptor, the rotation of the file   *)
(* when it is full, the list of rotated files of which the oldest is       *)
(* deleted, and the check that follows a file somebody else has moved. The *)
(* mutex of the size is held by a rotation; the check holds none.          *)
(***************************************************************************)
EXTENDS Integers, Sequences, FiniteSets, Functions, SequencesExt

CONSTANTS
  LogThreads,
  Settings,      \* records of _check, _maxFileSize in lines, and _maxFileIndex, 0 for no limit
  MaxLines,      \* bound of the lines that are written
  MaxSeconds,    \* bound of the clock
  MaxFd          \* bound of the descriptors

NoLogger == "none"

\* setMaxFileSize() and setMaxFileIndex() replace what is negative. The bounds leave room
\* for a second to rotate in and for a descriptor besides that of stderr.
ASSUME LoggerAssumption ==
  /\ IsFiniteSet(LogThreads) /\ NoLogger \notin LogThreads
  /\ Settings \subseteq [check : BOOLEAN, maxFileSize : Nat, maxFileIndex : Nat]
  /\ MaxLines \in Nat /\ MaxSeconds \in Nat \ {0} /\ MaxFd \in Nat /\ MaxFd >= 3

VARIABLES
  settings,
  logger,       \* _fd, _flag, and if _name is set
  descriptor,   \* the open file behind each descriptor
  logFile,      \* the file that _name leads to
  rotated,      \* the file that the name with each second leads to
  moved,        \* the file that somebody else has moved away
  linesIn,      \* the lines in each file, numbered as they were written
  fileList,     \* _fileList
  sizeMutex,    \* the thread that holds _fileSizeMutex
  second,       \* the time of the last rotation
  logging,      \* each thread: where it is, in which call, and its local variables
  lines,        \* ghost: the number of lines
  lost,         \* ghost: the lines whose write() failed
  asked,        \* bound: the program has called rotateLog(), or somebody has moved the file
  disorder,     \* ghost: two rotations in one second, or one during another
  early         \* ghost: a line has gone to the next file while the last was open

loggerVars == <<settings, logger, descriptor, logFile, rotated, moved, linesIn, fileList, sizeMutex, second,
                logging, lines, lost, asked, disorder, early>>

Terminal == 0
NoInode == -1
Inodes == 0..MaxLines + 2
Fds == 2..MaxFd
Seconds == 1..MaxSeconds
LogSteps == {"idle", "fstat", "stat", "open", "publish", "assign", "load", "write", "size", "rotate", "rename"}

LoggerTypeOK ==
  /\ settings \in Settings /\ logger \in [fd : Fds, flag : BOOLEAN, name : BOOLEAN]
  /\ descriptor \in [Fds -> Inodes \cup {NoInode}] /\ logFile \in Inodes \cup {NoInode}
  /\ rotated \in [Seconds -> Inodes \cup {NoInode}] /\ moved \in Inodes \cup {NoInode}
  /\ linesIn \in [Inodes -> SUBSET (1..MaxLines)] /\ fileList \in Seq(Seconds)
  /\ sizeMutex \in LogThreads \cup {NoLogger} /\ second \in Seconds
  /\ logging \in [LogThreads -> [pc : LogSteps, call : {"checkFile", "size", "rotateLog"}, fd : Fds,
                                 seen : Inodes \cup {NoInode}, old : Seconds]]
  /\ lines \in 0..MaxLines /\ lost \subseteq 1..MaxLines
  /\ asked \in BOOLEAN /\ disorder \in BOOLEAN /\ early \in BOOLEAN

\* The local variables of a call end with it.
atRest == [pc |-> "idle", call |-> "size", fd |-> 2, seen |-> NoInode, old |-> 1]
LoggerInit ==
  /\ settings \in Settings /\ logger = [fd |-> 2, flag |-> FALSE, name |-> FALSE]
  /\ descriptor = [f \in Fds |-> IF f = 2 THEN Terminal ELSE NoInode]
  /\ logFile = NoInode /\ rotated = [s \in Seconds |-> NoInode] /\ moved = NoInode
  /\ linesIn = [i \in Inodes |-> {}] /\ fileList = <<>> /\ sizeMutex = NoLogger /\ second = 1
  /\ logging = [t \in LogThreads |-> atRest]
  /\ lines = 0 /\ lost = {} /\ asked = FALSE /\ disorder = FALSE /\ early = FALSE

logAt(t, pc) == logging[t].pc = pc
toStep(t, pc) ==
  logging' = [logging EXCEPT ![t] = IF pc = "idle" THEN atRest ELSE [atRest EXCEPT !.pc = pc, !.call = logging[t].call]]

-----------------------------------------------------------------------------
(* The files *)

leastFd == CHOOSE f \in Fds : descriptor[f] = NoInode /\ \A g \in Fds : descriptor[g] = NoInode => f <= g
\* A file that has not been used; Inodes bounds their number.
isFresh(i) == i \notin ({logFile, moved} \cup Range(rotated) \cup Range(descriptor)) /\ linesIn[i] = {}
freshInode == CHOOSE i \in Inodes \ {Terminal} : isFresh(i)
hasInode == logFile # NoInode \/ \E i \in Inodes \ {Terminal} : isFresh(i)

\* open() of _name with O_CREAT: the file it leads to then.
openedFile == IF logFile = NoInode THEN freshInode ELSE logFile

\* setFileName(), before there are threads: a descriptor of its own, or the one of stderr.
setFileName(flag) ==
  /\ ~logger.name /\ hasInode /\ \A t \in LogThreads : logAt(t, "idle")
  /\ logFile' = openedFile
  /\ LET fd == IF flag THEN leastFd ELSE logger.fd
     IN /\ logger' = [logger EXCEPT !.name = TRUE, !.flag = flag, !.fd = fd]
        /\ descriptor' = [descriptor EXCEPT ![fd] = openedFile]
  /\ UNCHANGED <<settings, rotated, moved, linesIn, fileList, sizeMutex, second, logging, lines, lost, asked, disorder, early>>

\* Somebody else moves the file away.
moveLog ==
  /\ logFile # NoInode /\ ~asked /\ asked' = TRUE /\ moved' = logFile /\ logFile' = NoInode
  /\ UNCHANGED <<settings, logger, descriptor, rotated, linesIn, fileList, sizeMutex, second, logging, lines, lost, disorder, early>>

-----------------------------------------------------------------------------
(* A thread *)

underWay == {t \in LogThreads : logging[t].call = "checkFile" /\ logging[t].pc \notin {"idle", "size"}}
callLog(t) ==
  /\ logAt(t, "idle") /\ lines + Cardinality(underWay) < MaxLines
  /\ logging' = [logging EXCEPT ![t].pc = IF settings.check /\ logger.name THEN "fstat" ELSE "load",
                                ![t].call = "checkFile"]
  /\ UNCHANGED <<settings, logger, descriptor, logFile, rotated, moved, linesIn, fileList, sizeMutex, second, lines, lost, asked, disorder, early>>

\* A program may also rotate the file itself.
rotating(t) == logging[t].pc \notin {"idle", "load", "write", "size"} /\ logging[t].call # "checkFile"
callRotate(t) ==
  /\ logAt(t, "idle") /\ logger.name /\ ~asked /\ asked' = TRUE
  /\ logging' = [logging EXCEPT ![t].pc = "rotate", ![t].call = "rotateLog"]
  /\ UNCHANGED <<settings, logger, descriptor, logFile, rotated, moved, linesIn, fileList, sizeMutex, second, lines, lost, disorder, early>>

\* checkFile(): what is open, and then what _name leads to. When fstat() fails its result
\* is what was on the stack, which can be the answer of an earlier call.
fstatFd(t) ==
  /\ logAt(t, "fstat")
  /\ \E i \in IF descriptor[logger.fd] = NoInode THEN {NoInode, logFile} ELSE {descriptor[logger.fd]} :
       logging' = [logging EXCEPT ![t].pc = "stat", ![t].seen = i]
  /\ UNCHANGED <<settings, logger, descriptor, logFile, rotated, moved, linesIn, fileList, sizeMutex, second, lines, lost, asked, disorder, early>>
statName(t) ==
  /\ logAt(t, "stat")
  /\ toStep(t, IF logFile = NoInode \/ logFile # logging[t].seen THEN "open" ELSE "load")
  /\ UNCHANGED <<settings, logger, descriptor, logFile, rotated, moved, linesIn, fileList, sizeMutex, second, lines, lost, asked, disorder, early>>

\* The end of checkFile() and of rotateLog(), with the unlock that follows.
goesOn(t) == IF logging[t].call = "checkFile" THEN "load" ELSE "idle"
unlockSize(t) == sizeMutex' = IF sizeMutex = t THEN NoLogger ELSE sizeMutex

\* open() succeeds: what follows when it returns -1, which the code does not test, is
\* left out.
openName(t) ==
  /\ logAt(t, "open") /\ hasInode /\ \E f \in Fds : descriptor[f] = NoInode
  /\ logFile' = openedFile /\ descriptor' = [descriptor EXCEPT ![leastFd] = openedFile]
  /\ logging' = [logging EXCEPT ![t].pc = "publish", ![t].fd = leastFd]
  /\ UNCHANGED <<settings, logger, rotated, moved, linesIn, fileList, sizeMutex, second, lines, lost, asked, disorder, early>>

\* With _flag the old descriptor is closed and then replaced; without it dup2() does both.
publish(t) ==
  /\ logAt(t, "publish")
  /\ IF logger.flag
     THEN /\ descriptor' = [descriptor EXCEPT ![logger.fd] = NoInode]
          /\ logging' = [logging EXCEPT ![t].pc = "assign"] /\ UNCHANGED sizeMutex
     ELSE /\ descriptor' = [descriptor EXCEPT ![logger.fd] = descriptor[logging[t].fd], ![logging[t].fd] = NoInode]
          /\ toStep(t, goesOn(t)) /\ unlockSize(t)
  /\ UNCHANGED <<settings, logger, logFile, rotated, moved, linesIn, fileList, second, lines, lost, asked, disorder, early>>
assignFd(t) ==
  /\ logAt(t, "assign") /\ logger' = [logger EXCEPT !.fd = logging[t].fd]
  /\ toStep(t, goesOn(t)) /\ unlockSize(t)
  /\ UNCHANGED <<settings, descriptor, logFile, rotated, moved, linesIn, fileList, second, lines, lost, asked, disorder, early>>

\* A line can go to a file other than that of _fd, while both are open.
goesAhead(i) == NoInode \notin {i, descriptor[logger.fd]} /\ i # descriptor[logger.fd]

\* write(_fd): the argument, and the call.
loadFd(t) ==
  /\ logAt(t, "load") /\ logging' = [logging EXCEPT ![t].pc = "write", ![t].fd = logger.fd]
  /\ UNCHANGED <<settings, logger, descriptor, logFile, rotated, moved, linesIn, fileList, sizeMutex, second, lines, lost, asked, disorder, early>>
writeLine(t) ==
  /\ logAt(t, "write") /\ lines' = lines + 1 /\ toStep(t, "size")
  /\ LET i == descriptor[logging[t].fd]
     IN IF i = NoInode THEN lost' = lost \cup {lines + 1} /\ UNCHANGED linesIn
        ELSE linesIn' = [linesIn EXCEPT ![i] = @ \cup {lines + 1}] /\ UNCHANGED lost
  /\ early' = (early \/ goesAhead(descriptor[logging[t].fd]))
  /\ UNCHANGED <<settings, logger, descriptor, logFile, rotated, moved, fileList, sizeMutex, second, asked, disorder>>

\* lseek() of _fd, which fails on a terminal, with _fileSizeMutex locked.
full == LET i == descriptor[logger.fd]
        IN settings.maxFileSize > 0 /\ i \notin {NoInode, Terminal} /\ Cardinality(linesIn[i]) >= settings.maxFileSize
size(t) ==
  /\ logAt(t, "size") /\ sizeMutex = NoLogger
  /\ IF full THEN logging' = [logging EXCEPT ![t].pc = "rotate", ![t].call = "size"] ELSE toStep(t, "idle")
  /\ sizeMutex' = IF full THEN t ELSE NoLogger
  /\ UNCHANGED <<settings, logger, descriptor, logFile, rotated, moved, linesIn, fileList, second, lines, lost, asked, disorder, early>>

\* rotateLog() up to rename(): the time, which is looked at nowhere else and of which only
\* the order matters, the new name and the oldest file.
\* Seeded fault: the newest file is deleted.
oldestNewest == Len(fileList)
oldest == 1
tooMany == settings.maxFileIndex > 0 /\ Len(fileList) >= settings.maxFileIndex
rotate(t) ==
  /\ logAt(t, "rotate") /\ second' \in {second, second + 1} \cap Seconds
  /\ disorder' = (disorder \/ (\E u \in LogThreads \ {t} : rotating(u))
                           \/ rotated[second'] # NoInode \/ second' \in Range(fileList))
  /\ IF logFile = NoInode THEN toStep(t, "open") /\ UNCHANGED <<fileList, rotated>>
     ELSE /\ logging' = [logging EXCEPT ![t].pc = "rename", ![t].old = second']
          /\ rotated' = IF tooMany THEN [rotated EXCEPT ![fileList[oldest]] = NoInode] ELSE rotated
          /\ fileList' = IF settings.maxFileIndex = 0 THEN fileList
                         ELSE Append(IF tooMany THEN RemoveAt(fileList, oldest) ELSE fileList, second')
  /\ UNCHANGED <<settings, logger, descriptor, logFile, moved, linesIn, sizeMutex, lines, lost, asked, early>>

\* rename(), which replaces a file that has the name already.
renameLog(t) ==
  /\ logAt(t, "rename") /\ toStep(t, "open")
  /\ IF logFile = NoInode THEN UNCHANGED <<logFile, rotated>>
     ELSE logFile' = NoInode /\ rotated' = [rotated EXCEPT ![logging[t].old] = logFile]
  /\ UNCHANGED <<settings, logger, descriptor, moved, linesIn, fileList, sizeMutex, second, lines, lost, asked, disorder, early>>

LoggerNext ==
  \/ \E flag \in BOOLEAN : setFileName(flag)
  \/ moveLog
  \/ \E t \in LogThreads :
       \/ callLog(t) \/ callRotate(t) \/ fstatFd(t) \/ statName(t) \/ openName(t) \/ publish(t) \/ assignFd(t)
       \/ loadFd(t) \/ writeLine(t) \/ size(t) \/ rotate(t) \/ renameLog(t)

-----------------------------------------------------------------------------
(* Properties *)

linesOf(files) == UNION {linesIn[i] : i \in files \ {NoInode}}
kept == linesOf({logFile} \cup Range(rotated))
gone == (1..lines) \ (lost \cup kept \cup linesOf({Terminal, moved, descriptor[logger.fd]}))

\* A write never fails for want of a descriptor as long as the log shares the one of
\* stderr: dup2() replaces it in one step. With a descriptor of its own the log can lose
\* the line that is written while it is replaced (tblog.cpp:120, :171-185, :198-212).
NoLineLost == lost # {} => logger.flag

\* The lines that are deleted with a file are older than all that are kept, as long as
\* rotations do not overlap, as rotateLog() of a program can, and no two fall in one
\* second; nobody but the rotations moves files; and no thread has used the number of an
\* earlier descriptor that open() has given to the next file, while another still writes
\* to the last (tblog.cpp:120, :125-185).
OldestGoFirst ==
  \/ disorder \/ early \/ settings.check \/ moved # NoInode
  \/ \A l \in gone, k \in kept : l < k

\* Every rotated file is on the list from which it will be deleted, and the list stays
\* within its limit, even for two rotations in a second (tblog.cpp:158-168).
FilesAreListed ==
  settings.maxFileIndex > 0 =>
    /\ Len(fileList) <= settings.maxFileIndex
    /\ disorder \/ \A s \in Seconds : rotated[s] # NoInode => s \in Range(fileList)

\* Between rotations the log goes to the file that its name leads to, and no other
\* descriptor is left open, unless somebody moves the file or two threads replace the
\* descriptor at a time (tblog.cpp:170-185).
LogFollowsName ==
  \/ disorder \/ settings.check \/ moved # NoInode \/ ~logger.name
  \/ \E t \in LogThreads : logging[t].pc \in {"open", "publish", "assign"}
  \/ /\ descriptor[logger.fd] = logFile
     /\ \A f \in Fds : descriptor[f] # NoInode => f \in {2, logger.fd}

\* With the check and without rotations, the log is in the new file as soon as one thread
\* has opened it and none is about to replace the descriptor. With a descriptor of its
\* own it need not be: between the close() and the assignment of one thread another can
\* be given the number by open(), close it as the old one and leave it in _fd
\* (tblog.cpp:188-213).
CheckFollowsMove ==
  \/ logger.flag \/ moved = NoInode
  \/ settings.maxFileSize > 0 \/ ~settings.check \/ logFile = NoInode
  \/ \E t \in LogThreads : logging[t].pc \in {"publish", "assign"}
  \/ descriptor[logger.fd] = logFile

LogSafe == NoLineLost /\ OldestGoFirst /\ FilesAreListed /\ LogFollowsName /\ CheckFollowsMove
=============================================================================
