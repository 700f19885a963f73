----------------------------- MODULE FilesProofs -----------------------------
(***************************************************************************)
(* Proofs about the parts of Tbsys that work on files. CLogger, for any    *)
(* number of threads, lines, seconds, files and descriptors: no line goes  *)
(* into a file that has been deleted, the terminal is left alone, nothing  *)
(* is lost, the list of rotated files names what is there, and the oldest  *)
(* are deleted first. The functions that make directories and links, for   *)
(* any threads, paths and trees: what they report is so, whatever the      *)
(* others do. The pid file, for any processes: it names one that wrote.    *)
(***************************************************************************)
EXTENDS Tbsys, FunctionTheorems, FiniteSetTheorems, SequenceTheorems,
        WellFoundedInduction, TLAPS

-----------------------------------------------------------------------------
(* CLogger: its invariant *)

logIn(t, steps) == logging[t].pc \in steps
Replacing == {"open", "publish", "assign"}
AfterRotate == Replacing \cup {"rename"}

\* What a thread can be doing in which call; rotateLog() of the program and a move by
\* somebody else exclude each other, as asked has it.
CallsInv ==
  /\ \A t \in LogThreads :
       /\ logIn(t, {"fstat", "stat", "load", "write", "size"}) => logging[t].call = "checkFile"
       /\ logIn(t, {"rotate", "rename"}) => logging[t].call # "checkFile"
       /\ ~settings.check => ~logIn(t, {"fstat", "stat"}) /\ (logIn(t, Replacing) => logging[t].call # "checkFile")
       /\ ~logIn(t, {"idle"}) /\ logging[t].call = "size" => settings.maxFileSize > 0
       /\ ~logIn(t, {"idle"}) /\ logging[t].call = "rotateLog" => asked /\ moved = NoInode
  /\ moved # NoInode => asked
  /\ lines + Cardinality(underWay) <= MaxLines

\* Before setFileName() the log is the terminal.
NamelessInv ==
  ~logger.name =>
    /\ ~logger.flag /\ logger.fd = 2 /\ descriptor = [f \in Fds |-> IF f = 2 THEN Terminal ELSE NoInode]
    /\ logFile = NoInode /\ moved = NoInode /\ rotated = [s \in Seconds |-> NoInode] /\ fileList = <<>>
    /\ \A t \in LogThreads : logIn(t, {"idle", "load", "write", "size"})

\* Descriptor 2 is open, and is the log's unless the log has one of its own. Without one,
\* those that a thread opens are its own until dup2().
DescriptorsInv ==
  /\ descriptor[2] # NoInode /\ (logger.flag <=> logger.fd # 2)
  /\ \A t \in LogThreads : /\ logIn(t, {"publish", "assign"}) => logging[t].fd # 2
                           /\ logIn(t, {"write"}) => (logging[t].fd = 2 <=> ~logger.flag)
  /\ ~logger.flag =>
       \A t \in LogThreads :
         /\ ~logIn(t, {"assign"})
         /\ logIn(t, {"publish"}) =>
              /\ descriptor[logging[t].fd] # NoInode
              /\ \A u \in LogThreads \ {t} : logIn(u, {"publish"}) => logging[u].fd # logging[t].fd
  /\ lost # {} => logger.flag

\* A file is on the list before it is renamed, and the list is in the order of time.
ListInv ==
  settings.maxFileIndex > 0 =>
    /\ Len(fileList) <= settings.maxFileIndex
    /\ ~disorder =>
         /\ \A s \in Seconds : rotated[s] # NoInode => s \in Range(fileList)
         /\ \A t \in LogThreads : logIn(t, {"rename"}) => logging[t].old \in Range(fileList)
         /\ \A i \in DOMAIN fileList : fileList[i] <= second
         /\ \A i, j \in DOMAIN fileList : i < j => fileList[i] < fileList[j]

\* The part of a log that only rotations change.
Orderly == ~disorder /\ ~settings.check /\ moved = NoInode
opens(fds) == \A f \in Fds : descriptor[f] # NoInode => f \in fds

\* One thread at a time replaces the file of a rotation.
OneRotates ==
  ~disorder => \A t, u \in LogThreads : logIn(t, AfterRotate) /\ logIn(u, AfterRotate) /\ t # u =>
                 "checkFile" \in {logging[t].call, logging[u].call}

\* Where the log and the descriptors are, by what that thread has done.
PlaceOf(t) ==
  /\ logIn(t, {"rename"}) => logging[t].old = second /\ rotated[second] = NoInode
  /\ logIn(t, {"open"}) => logFile = NoInode /\ opens({2, logger.fd})
  /\ logIn(t, {"open", "publish"}) => descriptor[logger.fd] # NoInode /\ descriptor[logger.fd] = rotated[second]
  /\ logIn(t, {"publish", "assign"}) => logFile # NoInode /\ descriptor[logging[t].fd] = logFile
  /\ logIn(t, {"publish"}) => opens({2, logger.fd, logging[t].fd}) /\ logging[t].fd # logger.fd
  /\ logIn(t, {"assign"}) => opens({2, logging[t].fd}) /\ descriptor[logger.fd] = NoInode
InPlace ==
  (\A t \in LogThreads : ~logIn(t, Replacing)) =>
     logFile # NoInode /\ descriptor[logger.fd] = logFile /\ opens({2, logger.fd})
PlaceInv == Orderly /\ logger.name => InPlace /\ \A t \in LogThreads : PlaceOf(t)

\* Which lines are where.
LinesInv ==
  /\ \A i \in Inodes : linesIn[i] \subseteq 1..lines
  /\ lost \subseteq 1..lines
  /\ Orderly /\ logger.name =>
       /\ logFile # Terminal
       /\ \A s \in Seconds : rotated[s] # NoInode => s <= second /\ rotated[s] \notin {Terminal, logFile}
       /\ \A s, r \in Seconds : rotated[s] # NoInode /\ rotated[s] = rotated[r] => s = r

\* They are in the order of time.
OrderInv ==
  Orderly /\ ~early =>
    /\ \A s, r \in Seconds : s < r /\ rotated[s] # NoInode /\ rotated[r] # NoInode =>
         \A l \in linesIn[rotated[s]], k \in linesIn[rotated[r]] : l < k
    /\ \A s \in Seconds : rotated[s] # NoInode /\ logFile # NoInode =>
         \A l \in linesIn[rotated[s]], k \in linesIn[logFile] : l < k
    /\ \A t \in LogThreads : logIn(t, {"publish"}) => linesIn[logFile] = {}
    /\ \A l \in gone, k \in kept : l < k

\* A log that is only moved by somebody else.
CheckInv ==
  ~logger.flag /\ settings.check /\ settings.maxFileSize = 0 =>
    /\ ~asked /\ logger.name =>
         /\ logFile # NoInode /\ descriptor[2] = logFile
         /\ \A t \in LogThreads : ~logIn(t, {"open", "publish"}) /\ (logIn(t, {"stat"}) => logging[t].seen = logFile)
    /\ moved # NoInode =>
         /\ \A t \in LogThreads : logIn(t, {"publish"}) => logFile # NoInode /\ descriptor[logging[t].fd] = logFile
         /\ logFile # NoInode => descriptor[2] = logFile \/ \E t \in LogThreads : logIn(t, {"publish"})

LoggerInv ==
  /\ LoggerTypeOK /\ CallsInv /\ NamelessInv /\ DescriptorsInv /\ ListInv /\ OneRotates /\ PlaceInv /\ LinesInv /\ OrderInv
  /\ CheckInv


-----------------------------------------------------------------------------
(* CLogger: its steps *)

LogRecord == [pc : LogSteps, call : {"checkFile", "size", "rotateLog"}, fd : Fds,
              seen : Inodes \cup {NoInode}, old : Seconds]

\* Thread t comes to r, and no other thread does anything.
Becomes(t, r) ==
  /\ r \in LogRecord /\ logging' \in [LogThreads -> LogRecord]
  /\ \A u \in LogThreads : logging'[u] = IF u = t THEN r ELSE logging[u]

LEMMA AtRestTyped == atRest \in LogRecord
BY LoggerAssumption DEF atRest, LogRecord, LogSteps, Fds, Seconds, NoInode

LEMMA BecomesBy ==
  ASSUME LoggerTypeOK, NEW t \in LogThreads, NEW r \in LogRecord, logging' = [logging EXCEPT ![t] = r]
  PROVE  Becomes(t, r)
BY DEF Becomes, LoggerTypeOK, LogRecord

LEMMA StepBecomes ==
  ASSUME LoggerTypeOK, NEW t \in LogThreads, NEW pc \in LogSteps, toStep(t, pc)
  PROVE  Becomes(t, IF pc = "idle" THEN atRest ELSE [atRest EXCEPT !.pc = pc, !.call = logging[t].call])
<1> DEFINE r == IF pc = "idle" THEN atRest ELSE [atRest EXCEPT !.pc = pc, !.call = logging[t].call]
<1>1. logging[t] \in LogRecord
  BY DEF LoggerTypeOK, LogRecord
<1>2. r \in LogRecord
  BY <1>1, AtRestTyped DEF LogRecord
<1>3. logging' = [logging EXCEPT ![t] = r]
  BY DEF toStep
<1> QED
  BY <1>2, <1>3, BecomesBy

\* No thread but t does anything.
Alone(t) ==
  logging' \in [LogThreads -> LogRecord] /\ \A u \in LogThreads : u # t => logging'[u] = logging[u]

\* The locals of a call end with a step of toStep().
LEMMA StepFields ==
  ASSUME LoggerTypeOK, NEW t \in LogThreads, NEW pc \in LogSteps, toStep(t, pc)
  PROVE  Alone(t) /\ logging'[t].pc = pc /\ (pc # "idle" => logging'[t].call = logging[t].call)
<1> DEFINE r == IF pc = "idle" THEN atRest ELSE [atRest EXCEPT !.pc = pc, !.call = logging[t].call]
<1>1. Becomes(t, r)
  BY StepBecomes
<1>2. r.pc = pc /\ (pc # "idle" => r.call = logging[t].call)
  BY DEF atRest
<1> QED
  BY <1>1, <1>2 DEF Becomes, Alone

LEMMA OpenedFile ==
  ASSUME LoggerTypeOK, hasInode
  PROVE  /\ openedFile \in Inodes /\ openedFile # NoInode
         /\ logFile = NoInode => openedFile # Terminal /\ isFresh(openedFile)
<1>1. CASE logFile = NoInode
  <2>1. openedFile \in Inodes \ {Terminal} /\ isFresh(openedFile)
    BY <1>1 DEF hasInode, openedFile, freshInode
  <2> QED
    BY <2>1, LoggerAssumption DEF Inodes, NoInode
<1>2. CASE logFile # NoInode
  BY <1>2 DEF openedFile, LoggerTypeOK
<1> QED
  BY <1>1, <1>2

LEMMA LeastOf ==
  ASSUME NEW S \in SUBSET Nat, S # {}
  PROVE  \E m \in S : \A n \in S : m <= n
<1>1. PICK m \in S : \A n \in S : <<n, m>> \notin OpToRel(<, Nat)
  <2>1. IsWellFoundedOn(OpToRel(<, Nat), Nat) /\ S \subseteq Nat
    BY NatLessThanWellFounded
  <2> QED
    BY <2>1, WFMin
<1>2. \A n \in S : ~(n < m)
  BY <1>1 DEF OpToRel
<1> QED
  BY <1>2

LEMMA LeastFd ==
  ASSUME NEW f \in Fds, descriptor[f] = NoInode
  PROVE  leastFd \in Fds /\ descriptor[leastFd] = NoInode
<1> DEFINE P(n) == n \in Fds /\ descriptor[n] = NoInode
<1>1. f \in Nat /\ P(f) /\ \A n : P(n) => n \in Nat
  BY LoggerAssumption DEF Fds
<1>2. \E m \in Nat : P(m) /\ \A n : P(n) => m <= n
  <2> DEFINE S == {n \in Nat : P(n)}
  <2>1. \E m \in S : \A n \in S : m <= n
    BY <1>1, LeastOf
  <2> QED
    BY <1>1, <2>1
<1> QED
  BY <1>2 DEF leastFd

\* What each step of a thread does to it.
LEMMA CallFields ==
  ASSUME LoggerTypeOK, NEW t \in LogThreads, callLog(t)
  PROVE  /\ Alone(t) /\ logging'[t].call = "checkFile" /\ logging'[t].pc \in {"fstat", "load"}
         /\ logging'[t].pc = "fstat" => settings.check /\ logger.name
<1> DEFINE r == [logging[t] EXCEPT !.pc = IF settings.check /\ logger.name THEN "fstat" ELSE "load",
                                   !.call = "checkFile"]
<1>1. r \in LogRecord /\ logging' = [logging EXCEPT ![t] = r]
  <2>1. logging[t] \in LogRecord
    BY DEF LoggerTypeOK, LogRecord
  <2>2. r \in LogRecord
    BY <2>1 DEF LogRecord, LogSteps
  <2>3. logging' = [logging EXCEPT ![t] = r]
    BY DEF callLog
  <2> QED
    BY <2>2, <2>3
<1>2. Becomes(t, r)
  BY <1>1, BecomesBy
<1>3. logging[t] \in LogRecord
  BY DEF LoggerTypeOK, LogRecord
<1>4. /\ r.call = "checkFile" /\ r.pc \in {"fstat", "load"}
      /\ r.pc = "fstat" => settings.check /\ logger.name
  BY <1>3 DEF LogRecord
<1> HIDE DEF r
<1> QED
  BY <1>2, <1>4 DEF Becomes, Alone

LEMMA CallRotateFields ==
  ASSUME LoggerTypeOK, NEW t \in LogThreads, callRotate(t)
  PROVE  Alone(t) /\ logging'[t].pc = "rotate" /\ logging'[t].call = "rotateLog"
<1> DEFINE r == [logging[t] EXCEPT !.pc = "rotate", !.call = "rotateLog"]
<1>1. r \in LogRecord /\ logging' = [logging EXCEPT ![t] = r]
  <2>1. logging[t] \in LogRecord
    BY DEF LoggerTypeOK, LogRecord
  <2>2. r \in LogRecord
    BY <2>1 DEF LogRecord, LogSteps
  <2>3. logging' = [logging EXCEPT ![t] = r]
    BY DEF callRotate
  <2> QED
    BY <2>2, <2>3
<1>2. Becomes(t, r)
  BY <1>1, BecomesBy
<1> QED
  BY <1>2 DEF Becomes, Alone, LogRecord, LoggerTypeOK

LEMMA FstatFields ==
  ASSUME LoggerTypeOK, NEW t \in LogThreads, fstatFd(t)
  PROVE  /\ Alone(t) /\ logging'[t].pc = "stat" /\ logging'[t].call = logging[t].call
         /\ logging'[t].seen \in
              IF descriptor[logger.fd] = NoInode THEN {NoInode, logFile} ELSE {descriptor[logger.fd]}
<1>1. PICK i \in IF descriptor[logger.fd] = NoInode THEN {NoInode, logFile} ELSE {descriptor[logger.fd]} :
        logging' = [logging EXCEPT ![t].pc = "stat", ![t].seen = i]
  BY DEF fstatFd
<1> DEFINE r == [logging[t] EXCEPT !.pc = "stat", !.seen = i]
<1>2. i \in Inodes \cup {NoInode}
  BY DEF LoggerTypeOK
<1>3. r \in LogRecord /\ logging' = [logging EXCEPT ![t] = r]
  BY <1>1, <1>2 DEF LoggerTypeOK, LogRecord, LogSteps
<1>4. Becomes(t, r)
  BY <1>3, BecomesBy
<1> QED
  BY <1>4 DEF Becomes, Alone, LogRecord, LoggerTypeOK

LEMMA OpenFields ==
  ASSUME LoggerTypeOK, NEW t \in LogThreads, openName(t)
  PROVE  /\ Alone(t) /\ logging'[t].pc = "publish" /\ logging'[t].call = logging[t].call
         /\ logging'[t].fd = leastFd /\ leastFd \in Fds /\ descriptor[leastFd] = NoInode
<1>1. leastFd \in Fds /\ descriptor[leastFd] = NoInode
  BY LeastFd DEF openName
<1> DEFINE r == [logging[t] EXCEPT !.pc = "publish", !.fd = leastFd]
<1>2. r \in LogRecord /\ logging' = [logging EXCEPT ![t] = r]
  <2>1. logging[t] \in LogRecord
    BY DEF LoggerTypeOK, LogRecord
  <2>2. r \in LogRecord
    BY <1>1, <2>1 DEF LogRecord, LogSteps
  <2>3. logging' = [logging EXCEPT ![t] = r]
    BY <1>1 DEF openName
  <2> QED
    BY <2>2, <2>3
<1>3. Becomes(t, r)
  BY <1>2, BecomesBy
<1> QED
  BY <1>1, <1>3 DEF Becomes, Alone, LogRecord, LoggerTypeOK

\* The end of checkFile() or rotateLog().
LEMMA EndFields ==
  ASSUME LoggerTypeOK, NEW t \in LogThreads, toStep(t, goesOn(t))
  PROVE  /\ Alone(t) /\ logging'[t].pc \in {"idle", "load"}
         /\ logging'[t].pc = "load" => logging[t].call = "checkFile" /\ logging'[t].call = "checkFile"
<1>1. goesOn(t) \in LogSteps
  BY DEF goesOn, LogSteps
<1> QED
  BY <1>1, StepFields DEF goesOn

LEMMA PublishFields ==
  ASSUME LoggerTypeOK, NEW t \in LogThreads, publish(t)
  PROVE  /\ Alone(t) /\ logging'[t].pc \in {"idle", "load", "assign"}
         /\ logging'[t].pc # "idle" => logging'[t].call = logging[t].call
         /\ logging'[t].pc = "load" => logging[t].call = "checkFile"
         /\ logger.flag => logging'[t].pc = "assign" /\ logging'[t].fd = logging[t].fd
         /\ ~logger.flag => logging'[t].pc # "assign"
<1>1. CASE logger.flag
  <2> DEFINE r == [logging[t] EXCEPT !.pc = "assign"]
  <2>1. r \in LogRecord /\ logging' = [logging EXCEPT ![t] = r]
    <3>1. logging[t] \in LogRecord
      BY DEF LoggerTypeOK, LogRecord
    <3>2. r \in LogRecord
      BY <1>1, <3>1 DEF LogRecord, LogSteps
    <3>3. logging' = [logging EXCEPT ![t] = r]
      BY <1>1 DEF publish
    <3> QED
      BY <3>2, <3>3
  <2>2. Becomes(t, r)
    BY <2>1, BecomesBy
  <2> QED
    BY <1>1, <2>2 DEF Becomes, Alone, LogRecord, LoggerTypeOK
<1>2. CASE ~logger.flag
  BY <1>2, EndFields DEF publish
<1> QED
  BY <1>1, <1>2

LEMMA LoadFields ==
  ASSUME LoggerTypeOK, NEW t \in LogThreads, loadFd(t)
  PROVE  /\ Alone(t) /\ logging'[t].pc = "write" /\ logging'[t].call = logging[t].call
         /\ logging'[t].fd = logger.fd
<1> DEFINE r == [logging[t] EXCEPT !.pc = "write", !.fd = logger.fd]
<1>1. r \in LogRecord /\ logging' = [logging EXCEPT ![t] = r]
  <2>1. logging[t] \in LogRecord
    BY DEF LoggerTypeOK, LogRecord
  <2>2. r \in LogRecord
    BY <2>1 DEF LogRecord, LogSteps, LoggerTypeOK
  <2>3. logging' = [logging EXCEPT ![t] = r]
    BY DEF loadFd
  <2> QED
    BY <2>2, <2>3
<1>2. Becomes(t, r)
  BY <1>1, BecomesBy
<1> QED
  BY <1>2 DEF Becomes, Alone, LogRecord, LoggerTypeOK

LEMMA SizeFields ==
  ASSUME LoggerTypeOK, NEW t \in LogThreads, size(t)
  PROVE  /\ Alone(t) /\ logging'[t].pc \in {"idle", "rotate"}
         /\ logging'[t].pc = "rotate" => full /\ logging'[t].call = "size"
<1>1. CASE full
  <2> DEFINE r == [logging[t] EXCEPT !.pc = "rotate", !.call = "size"]
  <2>1. r \in LogRecord /\ logging' = [logging EXCEPT ![t] = r]
    <3>1. logging[t] \in LogRecord
      BY DEF LoggerTypeOK, LogRecord
    <3>2. r \in LogRecord
      BY <1>1, <3>1 DEF LogRecord, LogSteps
    <3>3. logging' = [logging EXCEPT ![t] = r]
      BY <1>1 DEF size
    <3> QED
      BY <3>2, <3>3
  <2>2. Becomes(t, r)
    BY <2>1, BecomesBy
  <2> QED
    BY <1>1, <2>2 DEF Becomes, Alone, LogRecord, LoggerTypeOK
<1>2. CASE ~full
  <2>1. toStep(t, "idle") /\ "idle" \in LogSteps
    BY <1>2 DEF size, LogSteps
  <2> QED
    BY <2>1, StepFields
<1> QED
  BY <1>1, <1>2

LEMMA RotateFields ==
  ASSUME LoggerTypeOK, NEW t \in LogThreads, rotate(t)
  PROVE  /\ Alone(t) /\ second' \in Seconds
         /\ logging'[t].pc = (IF logFile = NoInode THEN "open" ELSE "rename")
         /\ logging'[t].call = logging[t].call
         /\ logging'[t].pc = "rename" => logging'[t].old = second'
<1>0. second' \in Seconds
  BY DEF rotate
<1>1. CASE logFile = NoInode
  <2>1. toStep(t, "open") /\ "open" \in LogSteps
    BY <1>1 DEF rotate, LogSteps
  <2> QED
    BY <1>0, <1>1, <2>1, StepFields
<1>2. CASE logFile # NoInode
  <2> DEFINE r == [logging[t] EXCEPT !.pc = "rename", !.old = second']
  <2>1. r \in LogRecord /\ logging' = [logging EXCEPT ![t] = r]
    <3>1. logging[t] \in LogRecord
      BY DEF LoggerTypeOK, LogRecord
    <3>2. r \in LogRecord
      BY <1>0, <3>1 DEF LogRecord, LogSteps
    <3>3. logging' = [logging EXCEPT ![t] = r]
      BY <1>2 DEF rotate
    <3> QED
      BY <3>2, <3>3
  <2>2. Becomes(t, r)
    BY <2>1, BecomesBy
  <2> QED
    BY <1>0, <1>2, <2>2 DEF Becomes, Alone, LogRecord, LoggerTypeOK
<1> QED
  BY <1>1, <1>2

LEMMA OtherFields ==
  ASSUME LoggerTypeOK, NEW t \in LogThreads
  PROVE  /\ statName(t) => /\ Alone(t) /\ logging'[t].call = logging[t].call
                           /\ logging'[t].pc = IF logFile = NoInode \/ logFile # logging[t].seen THEN "open" ELSE "load"
         /\ assignFd(t) => /\ Alone(t) /\ logging'[t].pc \in {"idle", "load"}
                           /\ logging'[t].pc = "load" => logging[t].call = "checkFile" /\ logging'[t].call = "checkFile"
         /\ writeLine(t) => Alone(t) /\ logging'[t].pc = "size" /\ logging'[t].call = logging[t].call
         /\ renameLog(t) => Alone(t) /\ logging'[t].pc = "open" /\ logging'[t].call = logging[t].call
<1>1. {"open", "load", "size"} \subseteq LogSteps
  BY DEF LogSteps
<1>2. ASSUME statName(t)
      PROVE  /\ Alone(t) /\ logging'[t].call = logging[t].call
             /\ logging'[t].pc = IF logFile = NoInode \/ logFile # logging[t].seen THEN "open" ELSE "load"
  <2> DEFINE pc == IF logFile = NoInode \/ logFile # logging[t].seen THEN "open" ELSE "load"
  <2>1. toStep(t, pc) /\ pc \in LogSteps /\ pc # "idle"
    BY <1>1, <1>2 DEF statName
  <2> QED
    BY <2>1, StepFields
<1>3. assignFd(t) => toStep(t, goesOn(t))
  BY DEF assignFd
<1>4. writeLine(t) => toStep(t, "size")
  BY DEF writeLine
<1>5. renameLog(t) => toStep(t, "open")
  BY DEF renameLog
<1> QED
  BY <1>1, <1>2, <1>3, <1>4, <1>5, StepFields, EndFields


-----------------------------------------------------------------------------
(* CLogger: types *)

LEMMA LoggerStarts == LoggerInit => LoggerInv
<1> SUFFICES ASSUME LoggerInit PROVE LoggerInv
  OBVIOUS
<1> USE DEF LoggerInit
<1>0. /\ \A t \in LogThreads : logging[t] = atRest
      /\ \A t \in LogThreads : logIn(t, {"idle"}) /\ logging[t].pc = "idle"
  BY DEF atRest, logIn
<1>1. LoggerTypeOK
  <2>0. /\ linesIn \in [Inodes -> SUBSET (1..MaxLines)] /\ rotated \in [Seconds -> Inodes \cup {NoInode}]
        /\ fileList \in Seq(Seconds)
    OBVIOUS
  <2>1. logging \in [LogThreads -> LogRecord]
    BY AtRestTyped
  <2>2. /\ logger \in [fd : Fds, flag : BOOLEAN, name : BOOLEAN] /\ NoInode \notin Inodes /\ Terminal \in Inodes
        /\ 1 \in Seconds /\ lines \in 0..MaxLines
    BY LoggerAssumption DEF Fds, Inodes, NoInode, Terminal, Seconds
  <2> QED
    BY <2>0, <2>1, <2>2 DEF LoggerTypeOK, LogRecord
<1>2. CallsInv
  <2>1. underWay = {}
    BY <1>0 DEF underWay
  <2>2. lines + Cardinality(underWay) <= MaxLines
    BY <2>1, FS_EmptySet, LoggerAssumption
  <2> QED
    BY <1>0, <2>2 DEF CallsInv, logIn, Replacing
<1>3. NamelessInv
  BY <1>0 DEF NamelessInv, logIn
<1>4. DescriptorsInv
  <2>1. descriptor[2] = Terminal /\ Terminal # NoInode
    BY LoggerAssumption DEF Fds, Terminal, NoInode
  <2> QED
    BY <1>0, <2>1 DEF DescriptorsInv, logIn
<1>5. ListInv
  <2>1. Len(fileList) = 0 /\ DOMAIN fileList = {} /\ settings.maxFileIndex \in Nat
    BY LoggerAssumption
  <2> QED
    BY <1>0, <2>1 DEF ListInv, logIn
<1>6. OneRotates /\ PlaceInv
  BY <1>0 DEF OneRotates, PlaceInv, logIn, AfterRotate, Replacing
<1>7. LinesInv
  BY DEF LinesInv
<1>8. OrderInv
  <2>1. kept = {}
    BY DEF kept, linesOf, Range
  <2> QED
    BY <1>0, <2>1 DEF OrderInv, logIn
<1>9. CheckInv
  BY DEF CheckInv
<1> QED
  BY <1>1, <1>2, <1>3, <1>4, <1>5, <1>6, <1>7, <1>8, <1>9 DEF LoggerInv

\* A step of a thread.
threadLogs(t) ==
  \/ callLog(t) \/ callRotate(t) \/ fstatFd(t) \/ statName(t) \/ openName(t) \/ publish(t) \/ assignFd(t)
  \/ loadFd(t) \/ writeLine(t) \/ size(t) \/ rotate(t) \/ renameLog(t)

LEMMA ThreadAlone ==
  ASSUME LoggerTypeOK, NEW t \in LogThreads, threadLogs(t)
  PROVE  Alone(t)
BY CallFields, CallRotateFields, FstatFields, OpenFields, PublishFields, LoadFields, SizeFields, RotateFields,
   OtherFields DEF threadLogs

LEMMA ListTail ==
  ASSUME NEW s \in Seq(Seconds), Len(s) > 0
  PROVE  RemoveAt(s, oldest) = Tail(s) /\ Tail(s) \in Seq(Seconds)
<1>1. SubSeq(s, 1, 0) = <<>>
  OBVIOUS
<1>2. SubSeq(s, 2, Len(s)) = Tail(s) /\ Tail(s) \in Seq(Seconds)
  OBVIOUS
<1>3. RemoveAt(s, 1) = SubSeq(s, 1, 0) \o SubSeq(s, 2, Len(s))
  BY DEF RemoveAt
<1>4. <<>> \o Tail(s) = Tail(s)
  BY <1>2, ConcatEmptySeq
<1>5. RemoveAt(s, 1) = Tail(s)
  BY <1>1, <1>2, <1>3, <1>4, Zenon
<1> QED
  BY <1>2, <1>5 DEF oldest

\* What a rotation does to the list: with the oldest removed, if there are too many.
LEMMA RotateLists ==
  ASSUME LoggerTypeOK, NEW t \in LogThreads, rotate(t)
  PROVE  /\ second' \in Seconds /\ second <= second'
         /\ rotated' \in [Seconds -> Inodes \cup {NoInode}] /\ fileList' \in Seq(Seconds)
         /\ \/ UNCHANGED <<rotated, fileList>> /\ (settings.maxFileIndex = 0 \/ logFile = NoInode)
            \/ /\ settings.maxFileIndex > 0 /\ Len(fileList) < settings.maxFileIndex /\ logFile # NoInode
               /\ UNCHANGED rotated /\ fileList' = Append(fileList, second')
            \/ /\ settings.maxFileIndex > 0 /\ Len(fileList) >= settings.maxFileIndex /\ logFile # NoInode
               /\ Len(fileList) > 0 /\ fileList[1] \in Seconds
               /\ rotated' = [rotated EXCEPT ![fileList[1]] = NoInode]
               /\ fileList' = Append(Tail(fileList), second') /\ Tail(fileList) \in Seq(Seconds)
<1>1. second' \in Seconds /\ second <= second'
  BY DEF rotate, LoggerTypeOK, Seconds
<1>2. settings.maxFileIndex \in Nat /\ fileList \in Seq(Seconds) /\ Len(fileList) \in Nat
  BY LoggerAssumption DEF LoggerTypeOK
<1>3. rotated' \in [Seconds -> Inodes \cup {NoInode}]
  BY DEF rotate, LoggerTypeOK
<1>4. CASE logFile = NoInode
  BY <1>1, <1>2, <1>3, <1>4 DEF rotate
<1>5. CASE logFile # NoInode /\ settings.maxFileIndex = 0
  BY <1>1, <1>2, <1>3, <1>5 DEF rotate, tooMany
<1>6. CASE logFile # NoInode /\ settings.maxFileIndex > 0 /\ Len(fileList) < settings.maxFileIndex
  <2>1. ~tooMany
    BY <1>2, <1>6 DEF tooMany
  <2>2. UNCHANGED rotated /\ fileList' = Append(fileList, second')
    BY <1>2, <1>6, <2>1 DEF rotate
  <2>3. fileList' \in Seq(Seconds)
    BY <1>1, <1>2, <2>2
  <2> QED
    BY <1>1, <1>3, <1>6, <2>2, <2>3
<1>7. CASE logFile # NoInode /\ settings.maxFileIndex > 0 /\ Len(fileList) >= settings.maxFileIndex
  <2>1. tooMany /\ Len(fileList) > 0 /\ fileList[1] \in Seconds
    BY <1>2, <1>7 DEF tooMany
  <2>2. RemoveAt(fileList, oldest) = Tail(fileList) /\ Tail(fileList) \in Seq(Seconds)
    BY <1>2, <2>1, ListTail
  <2>3. rotated' = [rotated EXCEPT ![fileList[1]] = NoInode] /\ fileList' = Append(Tail(fileList), second')
    BY <1>2, <1>7, <2>1, <2>2 DEF rotate, oldest
  <2>4. fileList' \in Seq(Seconds)
    BY <1>1, <2>2, <2>3
  <2> QED
    BY <1>1, <1>3, <1>7, <2>1, <2>2, <2>3, <2>4
<1> QED
  BY <1>2, <1>4, <1>5, <1>6, <1>7

\* The parts of LoggerTypeOK.
LEMMA LoggerTyped ==
  ASSUME LoggerTypeOK
  PROVE  /\ settings.check \in BOOLEAN /\ settings.maxFileSize \in Nat /\ settings.maxFileIndex \in Nat
         /\ logger.fd \in Fds /\ logger.flag \in BOOLEAN /\ logger.name \in BOOLEAN
         /\ \A f \in Fds : descriptor[f] \in Inodes \cup {NoInode}
         /\ \A t \in LogThreads : /\ logging[t] \in LogRecord /\ logging[t].fd \in Fds /\ logging[t].pc \in LogSteps
                                  /\ logging[t].call \in {"checkFile", "size", "rotateLog"}
         /\ NoInode \notin Inodes /\ Terminal \in Inodes /\ 2 \in Fds /\ lines \in Nat /\ MaxLines \in Nat
         /\ \A s \in Seconds : rotated[s] \in Inodes \cup {NoInode}
         /\ fileList \in Seq(Seconds) /\ Len(fileList) \in Nat
<1>1. settings \in [check : BOOLEAN, maxFileSize : Nat, maxFileIndex : Nat]
  BY LoggerAssumption DEF LoggerTypeOK
<1>2. logging \in [LogThreads -> LogRecord]
  BY DEF LoggerTypeOK, LogRecord
<1>3. NoInode \notin Inodes /\ Terminal \in Inodes /\ 2 \in Fds
  BY LoggerAssumption DEF Inodes, NoInode, Terminal, Fds
<1>4. lines \in Nat /\ MaxLines \in Nat /\ fileList \in Seq(Seconds) /\ Len(fileList) \in Nat
  BY LoggerAssumption DEF LoggerTypeOK
<1>5. \A t \in LogThreads : /\ logging[t] \in LogRecord /\ logging[t].fd \in Fds /\ logging[t].pc \in LogSteps
                            /\ logging[t].call \in {"checkFile", "size", "rotateLog"}
  BY <1>2 DEF LogRecord
<1>6. /\ logger.fd \in Fds /\ logger.flag \in BOOLEAN /\ logger.name \in BOOLEAN
      /\ \A f \in Fds : descriptor[f] \in Inodes \cup {NoInode}
      /\ \A s \in Seconds : rotated[s] \in Inodes \cup {NoInode}
  BY DEF LoggerTypeOK
<1> QED
  BY <1>1, <1>3, <1>4, <1>5, <1>6

\* setFileName() takes descriptor 2 or one that was closed.
LEMMA NamesFd ==
  ASSUME LoggerTypeOK, NamelessInv, NEW flag \in BOOLEAN, setFileName(flag)
  PROVE  /\ logger' \in [fd : Fds, flag : BOOLEAN, name : BOOLEAN] /\ logger'.flag = flag /\ logger'.name
         /\ openedFile \in Inodes \ {NoInode, Terminal} /\ isFresh(openedFile) /\ logFile' = openedFile
         /\ IF flag THEN logger'.fd # 2 ELSE logger'.fd = 2
         /\ descriptor' = [descriptor EXCEPT ![logger'.fd] = openedFile]
         /\ descriptor = [f \in Fds |-> IF f = 2 THEN Terminal ELSE NoInode]
         /\ logFile = NoInode /\ moved = NoInode /\ rotated = [s \in Seconds |-> NoInode] /\ fileList = <<>>
         /\ \A t \in LogThreads : logging[t].pc = "idle"
<1>1. /\ ~logger.name /\ hasInode /\ logFile' = openedFile
      /\ \A t \in LogThreads : logging[t].pc = "idle"
  BY DEF setFileName, logAt
<1>2. /\ ~logger.flag /\ descriptor = [f \in Fds |-> IF f = 2 THEN Terminal ELSE NoInode]
      /\ logFile = NoInode /\ moved = NoInode /\ rotated = [s \in Seconds |-> NoInode] /\ fileList = <<>>
  BY <1>1 DEF NamelessInv
<1>3. openedFile \in Inodes \ {NoInode, Terminal} /\ isFresh(openedFile)
  BY <1>1, <1>2, OpenedFile
<1>4. 3 \in Fds /\ 2 \in Fds /\ descriptor[3] = NoInode /\ descriptor[2] # NoInode
  BY <1>2, LoggerAssumption DEF Fds, NoInode, Terminal
<1>5. leastFd \in Fds /\ leastFd # 2
  BY <1>4, LeastFd
<1> DEFINE fd == IF flag THEN leastFd ELSE logger.fd
<1>6. logger' = [logger EXCEPT !.name = TRUE, !.flag = flag, !.fd = fd] /\ descriptor' = [descriptor EXCEPT ![fd] = openedFile]
  BY DEF setFileName
<1>7. logger \in [fd : Fds, flag : BOOLEAN, name : BOOLEAN]
  BY DEF LoggerTypeOK
<1>8. logger' = [fd |-> fd, flag |-> flag, name |-> TRUE]
  BY <1>6, <1>7
<1>9. ~flag => logger.fd = 2
  BY <1>1 DEF NamelessInv
<1> QED
  BY <1>1, <1>2, <1>3, <1>4, <1>5, <1>6, <1>7, <1>8, <1>9


LEMMA LoggerTypes ==
  ASSUME LoggerTypeOK, CallsInv, NamelessInv, LoggerNext
  PROVE  LoggerTypeOK'
<1>1. ASSUME NEW flag \in BOOLEAN, setFileName(flag)
      PROVE  LoggerTypeOK'
  <2>1. logger' \in [fd : Fds, flag : BOOLEAN, name : BOOLEAN] /\ openedFile \in Inodes
        /\ logFile' = openedFile /\ descriptor' = [descriptor EXCEPT ![logger'.fd] = openedFile]
    BY <1>1, NamesFd
  <2>2. descriptor' \in [Fds -> Inodes \cup {NoInode}]
    BY <2>1 DEF LoggerTypeOK
  <2> QED
    BY <1>1, <2>1, <2>2 DEF setFileName, LoggerTypeOK
<1>2. CASE moveLog
  BY <1>2 DEF moveLog, LoggerTypeOK
<1>3. ASSUME NEW t \in LogThreads, threadLogs(t)
      PROVE  LoggerTypeOK'
  <2>0. logging' \in [LogThreads -> LogRecord]
    BY <1>3, ThreadAlone DEF Alone
  <2> DEFINE Typed == logging' \in [LogThreads -> [pc : LogSteps, call : {"checkFile", "size", "rotateLog"}, fd : Fds,
                                 seen : Inodes \cup {NoInode}, old : Seconds]]
  <2>00. Typed
    BY <2>0 DEF LogRecord
  <2> HIDE DEF Typed
  <2>1. CASE callLog(t)
    BY <2>00, <2>1 DEF callLog, LoggerTypeOK, Typed
  <2>2. CASE callRotate(t)
    BY <2>00, <2>2 DEF callRotate, LoggerTypeOK, Typed
  <2>3. CASE fstatFd(t)
    BY <2>00, <2>3 DEF fstatFd, LoggerTypeOK, Typed
  <2>4. CASE statName(t)
    BY <2>00, <2>4 DEF statName, LoggerTypeOK, Typed
  <2>5. CASE openName(t)
    <3>1. openedFile \in Inodes /\ leastFd \in Fds
      BY <2>5, OpenedFile, LeastFd DEF openName
    <3>2. logFile' = openedFile /\ descriptor' = [descriptor EXCEPT ![leastFd] = openedFile]
      BY <2>5 DEF openName
    <3>3. descriptor' \in [Fds -> Inodes \cup {NoInode}]
      BY <3>1, <3>2 DEF LoggerTypeOK
    <3>4. UNCHANGED <<settings, logger, rotated, moved, linesIn, fileList, sizeMutex, second, lines, lost, asked,
                      disorder, early>>
      BY <2>5 DEF openName
    <3>5. logFile' \in Inodes \cup {NoInode}
      BY <3>1, <3>2
    <3> QED
      BY <2>00, <3>3, <3>4, <3>5 DEF LoggerTypeOK, Typed
  <2>6. CASE publish(t)
    <3>1. descriptor' \in [Fds -> Inodes \cup {NoInode}]
      BY <2>6, LoggerTyped DEF publish, LoggerTypeOK
    <3>2. sizeMutex' \in LogThreads \cup {NoLogger}
      BY <2>6 DEF publish, LoggerTypeOK, unlockSize
    <3> QED
      BY <2>00, <2>6, <3>1, <3>2 DEF publish, LoggerTypeOK, Typed
  <2>7. CASE assignFd(t)
    <3>1. logger' \in [fd : Fds, flag : BOOLEAN, name : BOOLEAN]
      BY <2>7, LoggerTyped DEF assignFd, LoggerTypeOK
    <3>2. sizeMutex' \in LogThreads \cup {NoLogger}
      BY <2>7 DEF assignFd, LoggerTypeOK, unlockSize
    <3> QED
      BY <2>00, <2>7, <3>1, <3>2 DEF assignFd, LoggerTypeOK, Typed
  <2>8. CASE loadFd(t)
    BY <2>00, <2>8 DEF loadFd, LoggerTypeOK, Typed
  <2>9. CASE writeLine(t)
    <3>1. lines' = lines + 1 /\ lines + 1 \in 1..MaxLines
      <4>1. t \in underWay
        BY <2>9 DEF writeLine, logAt, underWay, CallsInv, logIn
      <4>2. IsFiniteSet(underWay)
        BY LoggerAssumption, FS_Subset DEF underWay
      <4>3. Cardinality(underWay) \in Nat /\ Cardinality(underWay) # 0
        BY <4>1, <4>2, FS_CardinalityType, FS_EmptySet
      <4>4. lines + Cardinality(underWay) <= MaxLines
        BY DEF CallsInv
      <4> QED
        BY <2>9, <4>3, <4>4, LoggerTyped DEF writeLine
    <3>2. linesIn' \in [Inodes -> SUBSET (1..MaxLines)] /\ lost' \subseteq 1..MaxLines
      <4> DEFINE i == descriptor[logging[t].fd]
      <4>1. i \in Inodes \cup {NoInode} /\ linesIn \in [Inodes -> SUBSET (1..MaxLines)] /\ lost \subseteq 1..MaxLines
        BY LoggerTyped DEF LoggerTypeOK
      <4>2. IF i = NoInode THEN lost' = lost \cup {lines + 1} /\ UNCHANGED linesIn
            ELSE linesIn' = [linesIn EXCEPT ![i] = @ \cup {lines + 1}] /\ UNCHANGED lost
        BY <2>9 DEF writeLine
      <4> HIDE DEF i
      <4> QED
        BY <3>1, <4>1, <4>2
    <3>3. lines' \in 0..MaxLines /\ early' \in BOOLEAN
      BY <2>9, <3>1 DEF writeLine, LoggerTypeOK, goesAhead
    <3> QED
      BY <2>00, <2>9, <3>2, <3>3 DEF writeLine, LoggerTypeOK, Typed
  <2>10. CASE size(t)
    <3>1. sizeMutex' \in LogThreads \cup {NoLogger}
      BY <2>10 DEF size
    <3> QED
      BY <2>00, <2>10, <3>1 DEF size, LoggerTypeOK, Typed
  <2>11. CASE rotate(t)
    <3>1. second' \in Seconds /\ rotated' \in [Seconds -> Inodes \cup {NoInode}] /\ fileList' \in Seq(Seconds)
      BY <2>11, RotateLists
    <3>2. disorder' \in BOOLEAN
      BY <2>11 DEF rotate, LoggerTypeOK, rotating
    <3> QED
      BY <2>00, <2>11, <3>1, <3>2 DEF rotate, LoggerTypeOK, Typed
  <2>12. CASE renameLog(t)
    <3>1. logFile' \in Inodes \cup {NoInode} /\ rotated' \in [Seconds -> Inodes \cup {NoInode}]
      BY <2>12, LoggerTyped DEF renameLog, LoggerTypeOK
    <3> QED
      BY <2>00, <2>12, <3>1 DEF renameLog, LoggerTypeOK, Typed
  <2> QED
    BY <1>3, <2>1, <2>2, <2>3, <2>4, <2>5, <2>6, <2>7, <2>8, <2>9, <2>10, <2>11, <2>12 DEF threadLogs
<1> QED
  BY <1>1, <1>2, <1>3 DEF LoggerNext, threadLogs

\* The lines to come: one more for a call, which the write of the line ends.
LEMMA LinesToCome ==
  ASSUME LoggerTypeOK, CallsInv, NEW t \in LogThreads, Alone(t)
  PROVE  /\ callLog(t) => (lines + Cardinality(underWay) <= MaxLines)'
         /\ writeLine(t) => (lines + Cardinality(underWay) <= MaxLines)'
         /\ UNCHANGED lines /\ (t \in underWay' => t \in underWay) => (lines + Cardinality(underWay) <= MaxLines)'
<1>0. /\ IsFiniteSet(underWay) /\ IsFiniteSet(underWay') /\ Cardinality(underWay) \in Nat
      /\ Cardinality(underWay') \in Nat /\ lines \in Nat /\ MaxLines \in Nat
  <2>1. underWay \subseteq LogThreads /\ underWay' \subseteq LogThreads
    BY DEF underWay
  <2> QED
    BY <2>1, LoggerAssumption, LoggerTyped, FS_Subset, FS_CardinalityType
<1>1. \A u \in LogThreads \ {t} : u \in underWay' <=> u \in underWay
  BY DEF underWay, Alone
<1>2. lines + Cardinality(underWay) <= MaxLines
  BY DEF CallsInv
<1>3. ASSUME callLog(t)
      PROVE  (lines + Cardinality(underWay) <= MaxLines)'
  <2>1. t \notin underWay /\ lines' = lines /\ lines + Cardinality(underWay) < MaxLines
    BY <1>3 DEF callLog, logAt, underWay
  <2>2. underWay' \subseteq underWay \cup {t}
    BY <1>1 DEF underWay
  <2>3. Cardinality(underWay \cup {t}) = Cardinality(underWay) + 1 /\ IsFiniteSet(underWay \cup {t})
    BY <1>0, <2>1, FS_AddElement
  <2>4. Cardinality(underWay') <= Cardinality(underWay) + 1
    BY <2>2, <2>3, FS_Subset
  <2> QED
    BY <1>0, <2>1, <2>4
<1>4. ASSUME writeLine(t)
      PROVE  (lines + Cardinality(underWay) <= MaxLines)'
  <2>1. t \in underWay /\ lines' = lines + 1
    BY <1>4 DEF writeLine, logAt, underWay, CallsInv, logIn
  <2>2. logging'[t].pc = "size"
    BY <1>4, OtherFields
  <2>3. underWay' \subseteq underWay \ {t}
    BY <1>1, <2>2 DEF underWay
  <2>4. Cardinality(underWay \ {t}) = Cardinality(underWay) - 1 /\ IsFiniteSet(underWay \ {t})
    BY <1>0, <2>1, FS_RemoveElement
  <2>5. Cardinality(underWay') <= Cardinality(underWay) - 1
    BY <2>3, <2>4, FS_Subset
  <2> QED
    BY <1>0, <1>2, <2>1, <2>5
<1>5. ASSUME UNCHANGED lines, t \in underWay' => t \in underWay
      PROVE  (lines + Cardinality(underWay) <= MaxLines)'
  <2>1. underWay' \subseteq underWay
    BY <1>1, <1>5 DEF underWay
  <2>2. Cardinality(underWay') <= Cardinality(underWay)
    BY <1>0, <2>1, FS_Subset
  <2> QED
    BY <1>0, <1>2, <1>5, <2>2
<1> QED
  BY <1>3, <1>4, <1>5


LEMMA CallsStep ==
  ASSUME LoggerTypeOK, CallsInv, NamelessInv, DescriptorsInv, LoggerNext
  PROVE  CallsInv'
<1> DEFINE Count == lines + Cardinality(underWay) <= MaxLines
           Calls(u) ==
             /\ logIn(u, {"fstat", "stat", "load", "write", "size"}) => logging[u].call = "checkFile"
             /\ logIn(u, {"rotate", "rename"}) => logging[u].call # "checkFile"
             /\ ~settings.check => ~logIn(u, {"fstat", "stat"}) /\ (logIn(u, Replacing) => logging[u].call # "checkFile")
             /\ ~logIn(u, {"idle"}) /\ logging[u].call = "size" => settings.maxFileSize > 0
             /\ ~logIn(u, {"idle"}) /\ logging[u].call = "rotateLog" => asked /\ moved = NoInode
<1>0. Count /\ (moved # NoInode => asked) /\ \A u \in LogThreads : Calls(u)
  BY DEF CallsInv
<1>1. ASSUME NEW flag \in BOOLEAN, setFileName(flag)
      PROVE  CallsInv'
  <2>1. UNCHANGED <<settings, moved, logging, lines, asked>>
    BY <1>1 DEF setFileName
  <2>2. UNCHANGED underWay
    BY <2>1 DEF underWay
  <2> QED
    BY <2>1, <2>2 DEF CallsInv, logIn
<1>2. CASE moveLog
  <2>1. UNCHANGED <<settings, logging, lines>> /\ asked' /\ ~asked
    BY <1>2 DEF moveLog
  <2>2. UNCHANGED underWay
    BY <2>1 DEF underWay
  <2> QED
    BY <2>1, <2>2 DEF CallsInv, logIn
<1>3. ASSUME NEW t \in LogThreads, threadLogs(t)
      PROVE  CallsInv'
  <2>0. Alone(t) /\ UNCHANGED settings /\ UNCHANGED moved /\ (asked => asked')
    <3>1. Alone(t)
      BY <1>3, ThreadAlone
    <3>2. UNCHANGED <<settings, moved>> /\ (asked => asked')
      BY <1>3 DEF threadLogs, callLog, callRotate, fstatFd, statName, openName, publish, assignFd, loadFd,
         writeLine, size, rotate, renameLog
    <3> QED
      BY <3>1, <3>2
  <2> HIDE DEF Count
  <2>1. SUFFICES Count' /\ (moved # NoInode => asked)' /\ Calls(t)'
    <3>1. ASSUME NEW u \in LogThreads, u # t
          PROVE  Calls(u)'
      BY <1>0, <2>0, <3>1 DEF Alone, logIn
    <3> QED
      BY <3>1 DEF CallsInv, Count
  <2>2. (moved # NoInode => asked)'
    BY <1>0, <2>0
  <2>3. ASSUME UNCHANGED lines, t \in underWay' => t \in underWay
        PROVE  Count'
    BY <2>0, <2>3, LinesToCome DEF Count
  <2> USE DEF logIn, logAt
  <2>4. CASE callLog(t)
    <3>1. Count'
      BY <2>0, <2>4, LinesToCome DEF Count
    <3>2. Calls(t)'
      BY <2>0, <2>4, CallFields DEF Replacing
    <3> QED
      BY <2>2, <3>1, <3>2
  <2>5. CASE callRotate(t)
    <3>1. logging'[t].pc = "rotate" /\ logging'[t].call = "rotateLog" /\ UNCHANGED lines /\ asked' /\ ~asked
      BY <2>5, CallRotateFields DEF callRotate
    <3>2. Calls(t)'
      BY <1>0, <2>0, <3>1 DEF Replacing
    <3>3. t \notin underWay'
      BY <3>1 DEF underWay
    <3> QED
      BY <2>2, <2>3, <3>1, <3>2, <3>3
  <2>6. CASE fstatFd(t)
    <3>1. logging[t].pc = "fstat" /\ logging'[t].pc = "stat" /\ logging'[t].call = logging[t].call /\ UNCHANGED lines
      BY <2>6, FstatFields DEF fstatFd
    <3>2. Calls(t)'
      BY <1>0, <2>0, <3>1 DEF Replacing
    <3>3. t \in underWay' => t \in underWay
      BY <3>1 DEF underWay
    <3> QED
      BY <2>2, <2>3, <3>1, <3>2, <3>3
  <2>7. CASE statName(t)
    <3>1. /\ logging[t].pc = "stat" /\ logging'[t].pc \in {"open", "load"}
          /\ logging'[t].call = logging[t].call /\ UNCHANGED lines
      BY <2>7, OtherFields DEF statName
    <3>2. Calls(t)'
      BY <1>0, <2>0, <3>1 DEF Replacing
    <3>3. t \in underWay' => t \in underWay
      BY <3>1 DEF underWay
    <3> QED
      BY <2>2, <2>3, <3>1, <3>2, <3>3
  <2>8. CASE openName(t)
    <3>1. logging[t].pc = "open" /\ logging'[t].pc = "publish" /\ logging'[t].call = logging[t].call /\ UNCHANGED lines
      BY <2>8, OpenFields DEF openName
    <3>2. Calls(t)'
      BY <1>0, <2>0, <3>1 DEF Replacing
    <3>3. t \in underWay' => t \in underWay
      BY <3>1 DEF underWay
    <3> QED
      BY <2>2, <2>3, <3>1, <3>2, <3>3
  <2>9. CASE publish(t)
    <3>1. /\ logging[t].pc = "publish" /\ logging'[t].pc \in {"idle", "load", "assign"}
          /\ logging'[t].pc # "idle" => logging'[t].call = logging[t].call
          /\ logging'[t].pc = "load" => logging[t].call = "checkFile"
          /\ UNCHANGED lines
      BY <2>9, PublishFields DEF publish
    <3>2. Calls(t)'
      BY <1>0, <2>0, <3>1 DEF Replacing
    <3>3. t \in underWay' => t \in underWay
      BY <3>1 DEF underWay
    <3> QED
      BY <2>2, <2>3, <3>1, <3>2, <3>3
  <2>10. CASE assignFd(t)
    <3>1. /\ logging[t].pc = "assign" /\ logging'[t].pc \in {"idle", "load"}
          /\ logging'[t].pc = "load" => logging[t].call = "checkFile" /\ logging'[t].call = "checkFile"
          /\ UNCHANGED lines
      BY <2>10, OtherFields DEF assignFd
    <3>2. Calls(t)'
      BY <1>0, <2>0, <3>1 DEF Replacing
    <3>3. t \in underWay' => t \in underWay
      BY <3>1 DEF underWay
    <3> QED
      BY <2>2, <2>3, <3>1, <3>2, <3>3
  <2>11. CASE loadFd(t)
    <3>1. logging[t].pc = "load" /\ logging'[t].pc = "write" /\ logging'[t].call = logging[t].call /\ UNCHANGED lines
      BY <2>11, LoadFields DEF loadFd
    <3>2. Calls(t)'
      BY <1>0, <2>0, <3>1 DEF Replacing
    <3>3. t \in underWay' => t \in underWay
      BY <3>1 DEF underWay
    <3> QED
      BY <2>2, <2>3, <3>1, <3>2, <3>3
  <2>12. CASE writeLine(t)
    <3>1. logging[t].pc = "write" /\ logging'[t].pc = "size" /\ logging'[t].call = logging[t].call
      BY <2>12, OtherFields DEF writeLine
    <3>2. Calls(t)'
      BY <1>0, <2>0, <3>1 DEF Replacing
    <3>3. Count'
      BY <2>0, <2>12, LinesToCome DEF Count
    <3> QED
      BY <2>2, <3>2, <3>3
  <2>13. CASE size(t)
    <3>1. /\ logging'[t].pc \in {"idle", "rotate"} /\ UNCHANGED lines
          /\ logging'[t].pc = "rotate" => settings.maxFileSize > 0 /\ logging'[t].call = "size"
      BY <2>13, SizeFields DEF size, full
    <3>2. Calls(t)'
      BY <1>0, <2>0, <3>1 DEF Replacing
    <3>3. t \notin underWay'
      BY <3>1 DEF underWay
    <3> QED
      BY <2>2, <2>3, <3>1, <3>2, <3>3
  <2>14. CASE rotate(t)
    <3>1. /\ logging[t].pc = "rotate" /\ logging'[t].pc \in {"open", "rename"} /\ logging'[t].call = logging[t].call
          /\ UNCHANGED lines
      BY <2>14, RotateFields DEF rotate
    <3>2. Calls(t)'
      BY <1>0, <2>0, <3>1 DEF Replacing
    <3>3. t \in underWay' => t \in underWay
      BY <3>1 DEF underWay
    <3> QED
      BY <2>2, <2>3, <3>1, <3>2, <3>3
  <2>15. CASE renameLog(t)
    <3>1. logging[t].pc = "rename" /\ logging'[t].pc = "open" /\ logging'[t].call = logging[t].call /\ UNCHANGED lines
      BY <2>15, OtherFields DEF renameLog
    <3>2. Calls(t)'
      BY <1>0, <2>0, <3>1 DEF Replacing
    <3>3. t \in underWay' => t \in underWay
      BY <3>1 DEF underWay
    <3> QED
      BY <2>2, <2>3, <3>1, <3>2, <3>3
  <2> QED
    BY <1>3, <2>4, <2>5, <2>6, <2>7, <2>8, <2>9, <2>10, <2>11, <2>12, <2>13, <2>14, <2>15 DEF threadLogs
<1> QED
  BY <1>1, <1>2, <1>3 DEF LoggerNext, threadLogs


LEMMA NamelessStep ==
  ASSUME LoggerTypeOK, NamelessInv, LoggerNext
  PROVE  NamelessInv'
<1>1. ASSUME NEW flag \in BOOLEAN, setFileName(flag)
      PROVE  NamelessInv'
  BY <1>1, NamesFd DEF NamelessInv
<1>2. CASE moveLog
  BY <1>2 DEF moveLog, NamelessInv
<1>3. ASSUME NEW t \in LogThreads, threadLogs(t)
      PROVE  NamelessInv'
  <2>0. CASE logger.name
    <3>1. logger' = logger \/ assignFd(t)
      BY <1>3 DEF threadLogs, callLog, callRotate, fstatFd, statName, openName, publish, loadFd,
         writeLine, size, rotate, renameLog
    <3>2. assignFd(t) => logger'.name
      BY <2>0, LoggerTyped DEF assignFd, LoggerTypeOK
    <3> QED
      BY <2>0, <3>1, <3>2 DEF NamelessInv
  <2>00. CASE ~logger.name
    <3>1. \A u \in LogThreads : logging[u].pc \in {"idle", "load", "write", "size"}
      BY <2>00 DEF NamelessInv, logIn
    <3>2. descriptor[logger.fd] = Terminal
      BY <2>00, LoggerTyped DEF NamelessInv
    <3>3. callLog(t) \/ loadFd(t) \/ writeLine(t) \/ size(t)
      BY <1>3, <2>00, <3>1 DEF threadLogs, callRotate, fstatFd, statName, openName, publish, assignFd, rotate,
         renameLog, logAt
    <3>4. UNCHANGED <<logger, descriptor, logFile, moved, rotated, fileList>>
      BY <3>3 DEF callLog, loadFd, writeLine, size
    <3>5. Alone(t) /\ logging'[t].pc \in {"idle", "load", "write", "size"}
      <4>1. ~full
        BY <3>2 DEF full
      <4>2. size(t) => logging'[t].pc = "idle"
        BY <4>1, SizeFields
      <4>3. callLog(t) => logging'[t].pc = "load"
        BY <2>00, CallFields
      <4> QED
        BY <1>3, <3>3, <4>2, <4>3, ThreadAlone, LoadFields, OtherFields
    <3>6. \A u \in LogThreads : logging'[u].pc \in {"idle", "load", "write", "size"}
      BY <3>1, <3>5 DEF Alone
    <3> QED
      BY <2>00, <3>4, <3>6 DEF NamelessInv, logIn
  <2> QED
    BY <2>0, <2>00
<1> QED
  BY <1>1, <1>2, <1>3 DEF LoggerNext, threadLogs

LEMMA DescriptorsStep ==
  ASSUME LoggerTypeOK, NamelessInv, DescriptorsInv, LoggerNext
  PROVE  DescriptorsInv'
<1> USE DEF logIn, logAt
<1> DEFINE A(u) == /\ logIn(u, {"publish", "assign"}) => logging[u].fd # 2
                   /\ logIn(u, {"write"}) => (logging[u].fd = 2 <=> ~logger.flag)
           O(u) == logIn(u, {"publish"}) => descriptor[logging[u].fd] # NoInode
           D(u, v) == logIn(u, {"publish"}) /\ logIn(v, {"publish"}) /\ u # v => logging[u].fd # logging[v].fd
<1>0. /\ \A u \in LogThreads : A(u)
      /\ ~logger.flag => /\ \A u \in LogThreads : ~logIn(u, {"assign"}) /\ O(u)
                         /\ \A u, v \in LogThreads : D(u, v)
  BY DEF DescriptorsInv
<1>1. ASSUME NEW flag \in BOOLEAN, setFileName(flag)
      PROVE  DescriptorsInv'
  <2>1. \A t \in LogThreads : logging'[t].pc = "idle"
    BY <1>1, NamesFd DEF setFileName
  <2>2. lost' = lost /\ lost = {}
    BY <1>1 DEF setFileName, DescriptorsInv, NamelessInv
  <2>3. descriptor'[2] # NoInode /\ (logger'.flag <=> logger'.fd # 2)
    BY <1>1, NamesFd, LoggerTyped DEF Fds, Terminal, NoInode
  <2> QED
    BY <2>1, <2>2, <2>3 DEF DescriptorsInv
<1>2. CASE moveLog
  BY <1>2 DEF moveLog, DescriptorsInv
<1>3. ASSUME NEW t \in LogThreads, threadLogs(t)
      PROVE  DescriptorsInv'
  <2>0. Alone(t)
    BY <1>3, ThreadAlone
  \* A step that leaves the descriptors, and does not come to publish() or write().
  <2>1. ASSUME UNCHANGED <<logger, descriptor, lost>>, logging'[t].pc \notin {"publish", "assign", "write"}
        PROVE  DescriptorsInv'
    BY <2>0, <2>1 DEF DescriptorsInv, Alone
  <2>2. CASE callLog(t)
    BY <2>1, <2>2, CallFields DEF callLog
  <2>3. CASE callRotate(t)
    BY <2>1, <2>3, CallRotateFields DEF callRotate
  <2>4. CASE fstatFd(t)
    BY <2>1, <2>4, FstatFields DEF fstatFd
  <2>5. CASE statName(t)
    BY <2>1, <2>5, OtherFields DEF statName
  <2>6. CASE openName(t)
    <3>1. /\ logging'[t].pc = "publish" /\ logging'[t].fd = leastFd /\ leastFd \in Fds
          /\ descriptor[leastFd] = NoInode /\ UNCHANGED <<logger, lost>>
          /\ descriptor' = [descriptor EXCEPT ![leastFd] = openedFile] /\ openedFile # NoInode
      BY <2>6, OpenFields, OpenedFile DEF openName
    <3>2. leastFd # 2 /\ descriptor'[2] # NoInode
      BY <3>1, LoggerTyped DEF DescriptorsInv, LoggerTypeOK
    <3>3. \A u \in LogThreads : A(u)'
      BY <1>0, <2>0, <3>1, <3>2 DEF Alone
    <3>4. ASSUME ~logger.flag
          PROVE  (\A u \in LogThreads : (~logIn(u, {"assign"}))' /\ O(u)') /\ \A u, v \in LogThreads : D(u, v)'
      <4>1. descriptor'[leastFd] # NoInode /\ \A f \in Fds : f # leastFd => descriptor'[f] = descriptor[f]
        BY <3>1 DEF LoggerTypeOK
      <4>2. \A u \in LogThreads : u # t => logging'[u] = logging[u]
        BY <2>0 DEF Alone
      <4>3. \A u \in LogThreads : u # t /\ logging[u].pc = "publish" => logging[u].fd # leastFd /\ logging[u].fd \in Fds
        BY <1>0, <3>1, <3>4, LoggerTyped
      <4>4. \A u \in LogThreads : (~logIn(u, {"assign"}))' /\ O(u)'
        BY <1>0, <3>1, <3>4, <4>1, <4>2, <4>3
      <4>5. \A u, v \in LogThreads : D(u, v)'
        BY <1>0, <3>1, <3>4, <4>2, <4>3
      <4> QED
        BY <4>4, <4>5
    <3> QED
      BY <3>1, <3>2, <3>3, <3>4 DEF DescriptorsInv
  <2>7. CASE publish(t)
    <3>0. UNCHANGED <<logger, lost>> /\ logging[t].pc = "publish" /\ logging[t].fd \in Fds /\ logging[t].fd # 2
      BY <1>0, <2>7, LoggerTyped DEF publish
    <3>1. CASE logger.flag
      <4>1. /\ logging'[t].pc = "assign" /\ logging'[t].fd = logging[t].fd
            /\ descriptor' = [descriptor EXCEPT ![logger.fd] = NoInode] /\ logger.fd # 2
        BY <2>7, <3>1, PublishFields DEF publish, DescriptorsInv
      <4>2. descriptor'[2] # NoInode
        BY <4>1, LoggerTyped DEF DescriptorsInv, LoggerTypeOK
      <4>3. \A u \in LogThreads : A(u)'
        BY <1>0, <2>0, <3>0, <4>1 DEF Alone
      <4> QED
        BY <3>0, <3>1, <4>2, <4>3 DEF DescriptorsInv
    <3>2. CASE ~logger.flag
      <4>1. /\ logging'[t].pc \in {"idle", "load"} /\ logger.fd = 2
            /\ descriptor' = [descriptor EXCEPT ![2] = descriptor[logging[t].fd], ![logging[t].fd] = NoInode]
        BY <2>7, <3>2, PublishFields DEF publish, DescriptorsInv
      <4>2. /\ descriptor'[2] # NoInode
            /\ \A f \in Fds : f # logging[t].fd /\ f # 2 => descriptor'[f] = descriptor[f]
        BY <1>0, <3>0, <3>2, <4>1, LoggerTyped DEF LoggerTypeOK
      <4>3. \A u \in LogThreads : u # t => logging'[u] = logging[u]
        BY <2>0 DEF Alone
      <4>4. \A u \in LogThreads : A(u)'
        BY <1>0, <3>0, <4>1, <4>3
      <4>5. \A u \in LogThreads : u # t /\ logging[u].pc = "publish" =>
               logging[u].fd # 2 /\ logging[u].fd # logging[t].fd /\ logging[u].fd \in Fds
        BY <1>0, <3>0, <3>2, LoggerTyped
      <4>6. \A u \in LogThreads : (~logIn(u, {"assign"}))' /\ O(u)'
        <5>1. (~logIn(t, {"assign"}))' /\ O(t)'
          BY <4>1
        <5>2. ASSUME NEW u \in LogThreads, u # t
              PROVE  (~logIn(u, {"assign"}))' /\ O(u)'
          <6>1. logging'[u] = logging[u] /\ ~logIn(u, {"assign"}) /\ O(u)
            BY <1>0, <3>2, <4>3, <5>2
          <6>2. logIn(u, {"publish"}) => descriptor'[logging[u].fd] = descriptor[logging[u].fd]
            BY <4>2, <4>5, <5>2
          <6> QED
            BY <6>1, <6>2
        <5> QED
          BY <5>1, <5>2
      <4>7. \A u, v \in LogThreads : D(u, v)'
        BY <1>0, <3>2, <4>1, <4>3
      <4>8. (lost # {} => logger.flag)' /\ (logger.flag <=> logger.fd # 2)'
        BY <3>0 DEF DescriptorsInv
      <4> QED
        BY <4>2, <4>4, <4>6, <4>7, <4>8 DEF DescriptorsInv
    <3> QED
      BY <3>1, <3>2
  <2>8. CASE assignFd(t)
    <3>1. /\ logging[t].pc = "assign" /\ logging[t].fd # 2 /\ logger.flag
          /\ logger' = [logger EXCEPT !.fd = logging[t].fd] /\ UNCHANGED <<descriptor, lost>>
          /\ logging'[t].pc \in {"idle", "load"}
      BY <1>0, <2>8, OtherFields, LoggerTyped DEF assignFd
    <3>2. logger'.flag = logger.flag /\ logger'.fd = logging[t].fd
      BY <3>1 DEF LoggerTypeOK
    <3>3. \A u \in LogThreads : A(u)'
      BY <1>0, <2>0, <3>1, <3>2 DEF Alone
    <3> QED
      BY <3>1, <3>2, <3>3 DEF DescriptorsInv
  <2>9. CASE loadFd(t)
    <3>1. logging'[t].pc = "write" /\ logging'[t].fd = logger.fd /\ UNCHANGED <<logger, descriptor, lost>>
      BY <2>9, LoadFields DEF loadFd
    <3>2. \A u \in LogThreads : A(u)'
      BY <1>0, <2>0, <3>1 DEF Alone, DescriptorsInv
    <3>3. ~logger.flag => /\ \A u \in LogThreads : (~logIn(u, {"assign"}))' /\ O(u)'
                          /\ \A u, v \in LogThreads : D(u, v)'
      BY <1>0, <2>0, <3>1 DEF Alone
    <3> QED
      BY <3>1, <3>2, <3>3 DEF DescriptorsInv
  <2>10. CASE writeLine(t)
    <3>1. logging[t].pc = "write" /\ logging'[t].pc = "size" /\ UNCHANGED <<logger, descriptor>>
      BY <2>10, OtherFields DEF writeLine
    <3>2. ~logger.flag => lost' = lost
      BY <1>0, <2>10, <3>1 DEF writeLine, DescriptorsInv
    <3> QED
      BY <2>0, <3>1, <3>2 DEF DescriptorsInv, Alone
  <2>11. CASE size(t)
    BY <2>1, <2>11, SizeFields DEF size
  <2>12. CASE rotate(t)
    BY <2>1, <2>12, RotateFields DEF rotate
  <2>13. CASE renameLog(t)
    BY <2>1, <2>13, OtherFields DEF renameLog
  <2> QED
    BY <1>3, <2>2, <2>3, <2>4, <2>5, <2>6, <2>7, <2>8, <2>9, <2>10, <2>11, <2>12, <2>13 DEF threadLogs
<1> QED
  BY <1>1, <1>2, <1>3 DEF LoggerNext, threadLogs


-----------------------------------------------------------------------------
(* CLogger: the list of files *)

\* A list in the order of time.
Sorted(s) == \A i, j \in DOMAIN s : i < j => s[i] < s[j]

LEMMA ListAppend ==
  ASSUME NEW s \in Seq(Seconds), Sorted(s), NEW n \in Seconds, \A i \in DOMAIN s : s[i] < n
  PROVE  /\ Sorted(Append(s, n)) /\ Len(Append(s, n)) = Len(s) + 1
         /\ \A i \in DOMAIN Append(s, n) : Append(s, n)[i] <= n
         /\ Range(Append(s, n)) = Range(s) \cup {n}
<1>1. /\ Len(s) \in Nat /\ DOMAIN s = 1..Len(s) /\ DOMAIN Append(s, n) = 1..Len(s) + 1 /\ Len(Append(s, n)) = Len(s) + 1
      /\ \A i \in 1..Len(s) : Append(s, n)[i] = s[i] /\ s[i] \in Int
      /\ Append(s, n)[Len(s) + 1] = n /\ n \in Int
  BY LoggerAssumption DEF Seconds
<1>2. \A i \in 1..Len(s) + 1 : i \in 1..Len(s) \/ i = Len(s) + 1
  BY <1>1
<1>3. Sorted(Append(s, n))
  <2> SUFFICES ASSUME NEW i \in 1..Len(s) + 1, NEW j \in 1..Len(s) + 1, i < j
               PROVE  Append(s, n)[i] < Append(s, n)[j]
    BY <1>1 DEF Sorted
  <2>1. i \in 1..Len(s)
    BY <1>1
  <2> QED
    BY <1>1, <1>2, <2>1 DEF Sorted
<1>4. \A i \in DOMAIN Append(s, n) : Append(s, n)[i] <= n
  BY <1>1, <1>2
<1>5. Range(Append(s, n)) = Range(s) \cup {n}
  BY <1>1, <1>2 DEF Range
<1> QED
  BY <1>1, <1>3, <1>4, <1>5

LEMMA SortedTail ==
  ASSUME NEW s \in Seq(Seconds), Sorted(s), Len(s) > 0
  PROVE  /\ Sorted(Tail(s)) /\ Tail(s) \in Seq(Seconds) /\ Len(Tail(s)) = Len(s) - 1
         /\ Range(s) = Range(Tail(s)) \cup {s[1]}
         /\ \A r \in Range(Tail(s)) : s[1] < r
<1>1. /\ Len(s) \in Nat /\ DOMAIN s = 1..Len(s) /\ DOMAIN Tail(s) = 1..Len(s) - 1 /\ Len(Tail(s)) = Len(s) - 1
      /\ Tail(s) \in Seq(Seconds) /\ \A i \in 1..Len(s) - 1 : Tail(s)[i] = s[i + 1]
  OBVIOUS
<1>2. Sorted(Tail(s))
  <2> SUFFICES ASSUME NEW i \in 1..Len(s) - 1, NEW j \in 1..Len(s) - 1, i < j
               PROVE  Tail(s)[i] < Tail(s)[j]
    BY <1>1 DEF Sorted
  <2>1. i + 1 \in 1..Len(s) /\ j + 1 \in 1..Len(s) /\ i + 1 < j + 1
    BY <1>1
  <2> QED
    BY <1>1, <2>1 DEF Sorted
<1>3. Range(s) = Range(Tail(s)) \cup {s[1]}
  <2>1. \A i \in 1..Len(s) : i = 1 \/ (i - 1 \in 1..Len(s) - 1 /\ s[i] = Tail(s)[i - 1])
    BY <1>1
  <2>2. Range(s) \subseteq Range(Tail(s)) \cup {s[1]}
    <3> SUFFICES ASSUME NEW i \in 1..Len(s)
                 PROVE  s[i] \in Range(Tail(s)) \cup {s[1]}
      BY <1>1 DEF Range
    <3>1. CASE i = 1
      BY <3>1
    <3>2. CASE i # 1
      <4>1. i - 1 \in DOMAIN Tail(s) /\ s[i] = Tail(s)[i - 1]
        BY <1>1, <2>1, <3>2
      <4> QED
        BY <4>1 DEF Range
    <3> QED
      BY <3>1, <3>2
  <2>3. Range(Tail(s)) \subseteq Range(s)
    <3>1. \A i \in 1..Len(s) - 1 : i + 1 \in 1..Len(s)
      BY <1>1
    <3> QED
      BY <1>1, <3>1 DEF Range
  <2>4. s[1] \in Range(s)
    BY <1>1 DEF Range
  <2> QED
    BY <2>2, <2>3, <2>4
<1>4. \A r \in Range(Tail(s)) : s[1] < r
  <2> SUFFICES ASSUME NEW i \in 1..Len(s) - 1
               PROVE  s[1] < Tail(s)[i]
    BY <1>1 DEF Range
  <2>1. 1 \in 1..Len(s) /\ i + 1 \in 1..Len(s) /\ 1 < i + 1
    BY <1>1
  <2> QED
    BY <1>1, <2>1 DEF Sorted
<1> QED
  BY <1>1, <1>2, <1>3, <1>4

\* A rotation in order is the only one.
LEMMA RotatesAlone ==
  ASSUME LoggerTypeOK, CallsInv, NEW t \in LogThreads, rotate(t), ~disorder'
  PROVE  /\ ~disorder /\ rotated[second'] = NoInode /\ second' \notin Range(fileList)
         /\ \A u \in LogThreads : u # t /\ logIn(u, AfterRotate) => logging[u].call = "checkFile"
         /\ \A u \in LogThreads : u # t => ~logIn(u, {"rename"})
<1>1. ~disorder /\ rotated[second'] = NoInode /\ second' \notin Range(fileList) /\ \A u \in LogThreads \ {t} : ~rotating(u)
  <2>1. disorder' = (disorder \/ (\E u \in LogThreads \ {t} : rotating(u))
                              \/ rotated[second'] # NoInode \/ second' \in Range(fileList))
    BY DEF rotate
  <2> QED
    BY <2>1
<1>2. \A u \in LogThreads : u # t /\ logIn(u, AfterRotate) => logging[u].call = "checkFile"
  BY <1>1 DEF rotating, logIn, AfterRotate, Replacing
<1>3. \A u \in LogThreads : u # t => ~logIn(u, {"rename"})
  BY <1>2 DEF CallsInv, logIn, AfterRotate
<1> QED
  BY <1>1, <1>2, <1>3

\* What of a step of a thread other than rotateLog() up to rename() leaves the list.
LEMMA ListSame ==
  ASSUME LoggerTypeOK, NEW t \in LogThreads, threadLogs(t), ~rotate(t)
  PROVE  /\ UNCHANGED <<settings, fileList, second, disorder>> /\ ~logIn(t, {"rename"})'
         /\ UNCHANGED rotated \/ renameLog(t)
<1>1. /\ UNCHANGED <<settings, fileList, second, disorder>>
      /\ UNCHANGED rotated \/ renameLog(t)
  BY DEF threadLogs, callLog, callRotate, fstatFd, statName, openName, publish, assignFd, loadFd, writeLine, size,
     renameLog
<1>2. logging'[t].pc # "rename"
  BY CallFields, CallRotateFields, FstatFields, OpenFields, PublishFields, LoadFields, SizeFields,
     OtherFields DEF threadLogs
<1> QED
  BY <1>1, <1>2 DEF logIn

LEMMA ListStep ==
  ASSUME LoggerTypeOK, CallsInv, NamelessInv, ListInv, LoggerNext
  PROVE  ListInv'
<1>1. ASSUME NEW flag \in BOOLEAN, setFileName(flag)
      PROVE  ListInv'
  BY <1>1, NamesFd DEF setFileName, ListInv, logIn
<1>2. CASE moveLog
  BY <1>2 DEF moveLog, ListInv, logIn
<1>3. ASSUME NEW t \in LogThreads, threadLogs(t)
      PROVE  ListInv'
  <2>0. Alone(t)
    BY <1>3, ThreadAlone
  <2>1. CASE ~rotate(t) /\ UNCHANGED rotated
    BY <1>3, <2>0, <2>1, ListSame DEF ListInv, Alone, logIn
  <2>2. CASE ~rotate(t) /\ renameLog(t)
    <3>1. logging[t].old \in Seconds
      BY LoggerTyped DEF LogRecord
    <3>2. \A s \in Seconds : s # logging[t].old => rotated'[s] = rotated[s]
      BY <2>2, <3>1 DEF renameLog, LoggerTypeOK
    <3>3. settings.maxFileIndex > 0 /\ ~disorder =>
            \A s \in Seconds : rotated'[s] # NoInode => s \in Range(fileList)
      BY <2>2, <3>1, <3>2 DEF ListInv, renameLog, logAt, logIn
    <3> QED
      BY <1>3, <2>0, <2>2, <3>3, ListSame DEF ListInv, Alone, logIn
  <2>3. CASE rotate(t)
    <3> DEFINE Ordered == \A s \in Seconds : rotated[s] # NoInode => s \in Range(fileList)
    <3>0. /\ UNCHANGED settings /\ fileList \in Seq(Seconds) /\ Len(fileList) \in Nat /\ settings.maxFileIndex \in Nat
          /\ second \in Seconds /\ second' \in Seconds /\ second <= second' /\ Seconds \subseteq Int
      BY <2>3, RotateLists, LoggerTyped DEF rotate, LoggerTypeOK, Seconds
    <3>1. \A u \in LogThreads : (logIn(u, {"rename"}))' /\ ~disorder' => u = t /\ logging'[u].old = second' /\ logFile # NoInode
      <4>1. \A u \in LogThreads : u # t /\ ~disorder' => ~logIn(u, {"rename"})
        BY <2>3, RotatesAlone
      <4>2. (logIn(t, {"rename"}))' => logging'[t].old = second' /\ logFile # NoInode
        BY <2>3, RotateFields DEF logIn
      <4> QED
        BY <2>0, <4>1, <4>2 DEF Alone, logIn
    <3>2. ~disorder' => ~disorder /\ rotated[second'] = NoInode /\ second' \notin Range(fileList)
      BY <2>3, RotatesAlone
    <3>3. settings.maxFileIndex > 0 /\ ~disorder' =>
            /\ Sorted(fileList) /\ Ordered /\ \A i \in DOMAIN fileList : fileList[i] < second'
      <4> SUFFICES ASSUME settings.maxFileIndex > 0, ~disorder'
                   PROVE  /\ Sorted(fileList) /\ Ordered /\ \A i \in DOMAIN fileList : fileList[i] < second'
        OBVIOUS
      <4>1. Sorted(fileList) /\ Ordered /\ \A i \in DOMAIN fileList : fileList[i] <= second
        BY <3>2 DEF ListInv, Sorted
      <4>2. \A i \in DOMAIN fileList : fileList[i] \in Int /\ fileList[i] # second'
        BY <3>0, <3>2 DEF Range
      <4> QED
        BY <3>0, <4>1, <4>2
    <3>4. CASE UNCHANGED <<rotated, fileList>> /\ (settings.maxFileIndex = 0 \/ logFile = NoInode)
      <4>1. settings.maxFileIndex > 0 /\ ~disorder' => \A i \in DOMAIN fileList : fileList[i] <= second'
        BY <3>0, <3>3 DEF Range
      <4> QED
        BY <3>0, <3>1, <3>2, <3>4, <4>1 DEF ListInv, Range
    <3>5. CASE /\ settings.maxFileIndex > 0 /\ Len(fileList) < settings.maxFileIndex /\ logFile # NoInode
               /\ UNCHANGED rotated /\ fileList' = Append(fileList, second')
      <4>1. Len(fileList') <= settings.maxFileIndex
        BY <3>0, <3>5
      <4>2. ASSUME ~disorder'
            PROVE  /\ Sorted(fileList') /\ Range(fileList') = Range(fileList) \cup {second'}
                   /\ \A i \in DOMAIN fileList' : fileList'[i] <= second'
        BY <3>0, <3>3, <3>5, <4>2, ListAppend
      <4> QED
        BY <3>0, <3>1, <3>3, <3>5, <4>1, <4>2 DEF ListInv, Sorted
    <3>6. CASE /\ settings.maxFileIndex > 0 /\ Len(fileList) >= settings.maxFileIndex /\ logFile # NoInode
               /\ Len(fileList) > 0 /\ fileList[1] \in Seconds
               /\ rotated' = [rotated EXCEPT ![fileList[1]] = NoInode]
               /\ fileList' = Append(Tail(fileList), second') /\ Tail(fileList) \in Seq(Seconds)
      <4>1. Len(fileList') <= settings.maxFileIndex
        <5>1. Len(fileList) <= settings.maxFileIndex
          BY <3>6 DEF ListInv
        <5>2. Len(Tail(fileList)) = Len(fileList) - 1
          BY <3>0, <3>6
        <5>3. Len(Append(Tail(fileList), second')) = Len(Tail(fileList)) + 1
          BY <3>0, <3>6
        <5> QED
          BY <3>0, <3>6, <5>1, <5>2, <5>3
      <4>2. ASSUME ~disorder'
            PROVE  /\ Sorted(fileList') /\ Range(fileList') = Range(Tail(fileList)) \cup {second'}
                   /\ Range(fileList) = Range(Tail(fileList)) \cup {fileList[1]}
                   /\ \A i \in DOMAIN fileList' : fileList'[i] <= second'
        <5>1. Sorted(fileList) /\ \A i \in DOMAIN fileList : fileList[i] < second'
          BY <3>3, <3>6, <4>2
        <5>2. /\ Sorted(Tail(fileList)) /\ Range(fileList) = Range(Tail(fileList)) \cup {fileList[1]}
          BY <3>0, <3>6, <5>1, SortedTail
        <5>3. \A i \in DOMAIN Tail(fileList) : Tail(fileList)[i] < second'
          BY <5>1, <5>2 DEF Range
        <5> QED
          BY <3>0, <3>6, <5>2, <5>3, ListAppend
      <4>3. \A s \in Seconds : rotated'[s] # NoInode => s # fileList[1] /\ rotated[s] # NoInode
        BY <3>6 DEF LoggerTypeOK
      <4>4. ~disorder' => \A s \in Seconds : rotated'[s] # NoInode => s \in Range(fileList')
        BY <3>3, <3>6, <4>2, <4>3
      <4> QED
        BY <3>0, <3>1, <3>6, <4>1, <4>2, <4>4 DEF ListInv, Sorted
    <3> QED
      BY <2>3, <3>4, <3>5, <3>6, RotateLists
  <2> QED
    BY <1>3, <2>1, <2>2, <2>3, ListSame
<1> QED
  BY <1>1, <1>2, <1>3 DEF LoggerNext, threadLogs


-----------------------------------------------------------------------------
(* CLogger: where the log is *)

LEMMA OneRotatesStep ==
  ASSUME LoggerTypeOK, CallsInv, OneRotates, LoggerNext
  PROVE  OneRotates'
<1>1. ASSUME NEW flag \in BOOLEAN, setFileName(flag)
      PROVE  OneRotates'
  BY <1>1 DEF setFileName, OneRotates, logIn
<1>2. CASE moveLog
  BY <1>2 DEF moveLog, OneRotates, logIn
<1>3. ASSUME NEW t \in LogThreads, threadLogs(t)
      PROVE  OneRotates'
  <2>0. Alone(t)
    BY <1>3, ThreadAlone
  <2>1. CASE rotate(t)
    <3>1. ~disorder' => \A u \in LogThreads : u # t /\ logIn(u, AfterRotate) => logging[u].call = "checkFile"
      BY <2>1, RotatesAlone
    <3>2. ~disorder' => ~disorder
      BY <2>1, RotatesAlone
    <3> QED
      BY <2>0, <3>1, <3>2 DEF OneRotates, Alone, logIn
  <2>2. CASE ~rotate(t)
    <3>1. UNCHANGED disorder
      BY <1>3, <2>2, ListSame
    <3>2. (logIn(t, AfterRotate))' =>
             logging'[t].call = "checkFile" \/ (logIn(t, AfterRotate) /\ logging'[t].call = logging[t].call)
      BY <1>3, <2>2, CallFields, CallRotateFields, FstatFields, OpenFields, PublishFields, LoadFields, SizeFields,
         OtherFields
         DEF threadLogs, logIn, AfterRotate, Replacing, CallsInv, statName, openName, publish, renameLog, assignFd, logAt
    <3> QED
      BY <2>0, <3>1, <3>2 DEF OneRotates, Alone, logIn
  <2> QED
    BY <2>1, <2>2
<1> QED
  BY <1>1, <1>2, <1>3 DEF LoggerNext, threadLogs

\* Where only rotations change the log, no two threads replace it at a time.
LEMMA OneActive ==
  ASSUME LoggerTypeOK, CallsInv, OneRotates, Orderly
  PROVE  /\ \A t \in LogThreads : ~logIn(t, {"fstat", "stat"})
         /\ \A t \in LogThreads : logIn(t, AfterRotate) => logging[t].call # "checkFile"
         /\ \A t, u \in LogThreads : logIn(t, AfterRotate) /\ logIn(u, AfterRotate) => t = u
<1>1. /\ \A t \in LogThreads : ~logIn(t, {"fstat", "stat"})
      /\ \A t \in LogThreads : logIn(t, AfterRotate) => logging[t].call # "checkFile"
  BY DEF Orderly, CallsInv, logIn, AfterRotate
<1> QED
  BY <1>1 DEF Orderly, OneRotates

\* A step that leaves the places, of a thread that neither is replacing the file nor
\* comes to that.
LEMMA PlaceSame ==
  ASSUME LoggerTypeOK, NEW t \in LogThreads, Alone(t), PlaceInv,
         UNCHANGED <<settings, logger, descriptor, logFile, rotated, moved, second, disorder>>,
         ~logIn(t, AfterRotate), (~logIn(t, AfterRotate))'
  PROVE  PlaceInv'
<1>1. \A u \in LogThreads : u # t => logging'[u] = logging[u]
  BY DEF Alone
<1>2. Orderly' /\ logger'.name => Orderly /\ logger.name
  BY DEF Orderly
<1> SUFFICES ASSUME Orderly', logger'.name
             PROVE  InPlace' /\ \A u \in LogThreads : PlaceOf(u)'
  BY DEF PlaceInv
<1>3. InPlace /\ \A u \in LogThreads : PlaceOf(u)
  BY <1>2 DEF PlaceInv
<1>4. InPlace'
  BY <1>1, <1>3 DEF InPlace, logIn, AfterRotate, opens
<1>5. ASSUME NEW u \in LogThreads
      PROVE  PlaceOf(u)'
  <2>1. CASE u = t
    BY <2>1 DEF PlaceOf, logIn, AfterRotate, Replacing
  <2>2. CASE u # t
    BY <1>1, <1>3, <2>2 DEF PlaceOf, logIn, opens
  <2> QED
    BY <2>1, <2>2
<1> QED
  BY <1>4, <1>5

\* After a step of the only thread that replaces the file.
LEMMA PlaceOfOne ==
  ASSUME LoggerTypeOK, CallsInv, OneRotates, NEW t \in LogThreads, Alone(t), Orderly,
         logIn(t, AfterRotate) \/ \A u \in LogThreads : ~logIn(u, AfterRotate),
         InPlace', PlaceOf(t)'
  PROVE  PlaceInv'
<1>1. \A u \in LogThreads : u # t => logging'[u] = logging[u]
  BY DEF Alone
<1>2. ASSUME NEW u \in LogThreads, u # t
      PROVE  PlaceOf(u)'
  <2>1. ~logIn(u, AfterRotate)
    BY <1>2, OneActive
  <2> QED
    BY <1>1, <1>2, <2>1 DEF PlaceOf, logIn, AfterRotate, Replacing
<1> QED
  BY <1>2 DEF PlaceInv

LEMMA PlaceStep ==
  ASSUME LoggerTypeOK, CallsInv, NamelessInv, DescriptorsInv, OneRotates, PlaceInv, LoggerNext
  PROVE  PlaceInv'
<1>1. ASSUME NEW flag \in BOOLEAN, setFileName(flag)
      PROVE  PlaceInv'
  <2>0. UNCHANGED logging /\ \A t \in LogThreads : logging[t].pc = "idle"
    BY <1>1, NamesFd DEF setFileName
  <2>1. \A t \in LogThreads : PlaceOf(t)'
    BY <2>0 DEF PlaceOf, logIn
  <2>2. /\ logFile' # NoInode /\ logFile' = openedFile /\ logger'.fd \in Fds
        /\ descriptor' = [descriptor EXCEPT ![logger'.fd] = openedFile]
        /\ descriptor = [f \in Fds |-> IF f = 2 THEN Terminal ELSE NoInode]
    BY <1>1, NamesFd
  <2>3. InPlace'
    BY <2>2 DEF InPlace, opens
  <2> QED
    BY <2>1, <2>3 DEF PlaceInv
<1>2. CASE moveLog
  BY <1>2 DEF moveLog, PlaceInv, Orderly
<1>3. ASSUME NEW t \in LogThreads, threadLogs(t)
      PROVE  PlaceInv'
  <2>0. Alone(t)
    BY <1>3, ThreadAlone
  <2> USE DEF logIn
  <2>1. CASE callLog(t)
    BY <2>0, <2>1, PlaceSame, CallFields DEF callLog, logAt, AfterRotate, Replacing
  <2>2. CASE callRotate(t)
    BY <2>0, <2>2, PlaceSame, CallRotateFields DEF callRotate, logAt, AfterRotate, Replacing
  <2>3. CASE fstatFd(t)
    BY <2>0, <2>3, PlaceSame, FstatFields DEF fstatFd, logAt, AfterRotate, Replacing
  <2>4. CASE statName(t)
    <3>1. ~Orderly /\ UNCHANGED <<settings, disorder, moved>>
      BY <2>4, OneActive DEF statName, logAt
    <3> QED
      BY <3>1 DEF PlaceInv, Orderly
  <2>5. CASE loadFd(t)
    BY <2>0, <2>5, PlaceSame, LoadFields DEF loadFd, logAt, AfterRotate, Replacing
  <2>6. CASE writeLine(t)
    BY <2>0, <2>6, PlaceSame, OtherFields DEF writeLine, logAt, AfterRotate, Replacing
  <2>7. CASE size(t)
    BY <2>0, <2>7, PlaceSame, SizeFields DEF size, logAt, AfterRotate, Replacing
  <2>8. CASE openName(t) \/ publish(t) \/ assignFd(t) \/ renameLog(t)
    <3> SUFFICES ASSUME Orderly', logger'.name
                 PROVE  PlaceInv'
      BY DEF PlaceInv
    <3>0. UNCHANGED <<settings, disorder, moved, second>> /\ logger'.name = logger.name
      BY <2>8, LoggerTyped DEF openName, publish, assignFd, renameLog, LoggerTypeOK
    <3>00. Orderly /\ logger.name
      BY <3>0 DEF Orderly
    <3>1. InPlace /\ PlaceOf(t) /\ logIn(t, AfterRotate)
      BY <2>8, <3>00 DEF PlaceInv, openName, publish, assignFd, renameLog, logAt, AfterRotate, Replacing
    <3>2. \A u \in LogThreads : u # t => ~logIn(u, AfterRotate)
      BY <3>00, <3>1, OneActive
    <3>3. SUFFICES InPlace' /\ PlaceOf(t)'
      BY <2>0, <3>00, <3>1, PlaceOfOne
    <3>4. CASE openName(t)
      <4>1. /\ logging[t].pc = "open" /\ logging'[t].pc = "publish" /\ logging'[t].fd = leastFd
            /\ leastFd \in Fds /\ descriptor[leastFd] = NoInode /\ openedFile # NoInode
            /\ logFile' = openedFile /\ UNCHANGED <<logger, rotated>>
            /\ descriptor' = [descriptor EXCEPT ![leastFd] = openedFile]
        BY <3>4, OpenFields, OpenedFile DEF openName, logAt
      <4>2. descriptor'[leastFd] = openedFile /\ \A f \in Fds : f # leastFd => descriptor'[f] = descriptor[f]
        BY <4>1 DEF LoggerTypeOK
      <4>3. /\ logFile = NoInode /\ opens({2, logger.fd}) /\ descriptor[logger.fd] # NoInode
            /\ descriptor[logger.fd] = rotated[second] /\ logger.fd \in Fds
        BY <3>1, <4>1, LoggerTyped DEF PlaceOf
      <4>4. leastFd # logger.fd
        BY <4>1, <4>3
      <4>5. opens({2, logger.fd, logging[t].fd})'
        BY <4>1, <4>2, <4>3 DEF opens
      <4>6. PlaceOf(t)'
        BY <3>0, <4>1, <4>2, <4>3, <4>4, <4>5 DEF PlaceOf, opens
      <4>7. InPlace'
        BY <4>1 DEF InPlace, Replacing
      <4> QED
        BY <4>6, <4>7
    <3>5. CASE publish(t)
      <4>1. /\ logging[t].pc = "publish" /\ UNCHANGED <<logger, logFile, rotated>>
            /\ logFile # NoInode /\ descriptor[logging[t].fd] = logFile
            /\ opens({2, logger.fd, logging[t].fd}) /\ logging[t].fd # logger.fd
            /\ logging[t].fd \in Fds /\ logger.fd \in Fds
        BY <3>1, <3>5, LoggerTyped DEF PlaceOf, publish, logAt
      <4>2. CASE logger.flag
        <5>1. /\ logging'[t].pc = "assign" /\ logging'[t].fd = logging[t].fd
              /\ descriptor' = [descriptor EXCEPT ![logger.fd] = NoInode]
          BY <3>5, <4>2, PublishFields DEF publish
        <5>2. descriptor'[logger.fd] = NoInode /\ \A f \in Fds : f # logger.fd => descriptor'[f] = descriptor[f]
          BY <4>1, <5>1 DEF LoggerTypeOK
        <5>3. opens({2, logging[t].fd})'
          BY <4>1, <5>1, <5>2 DEF opens
        <5>4. PlaceOf(t)'
          BY <4>1, <5>1, <5>2, <5>3 DEF PlaceOf, opens
        <5>5. InPlace'
          BY <5>1 DEF InPlace, Replacing
        <5> QED
          BY <5>4, <5>5
      <4>3. CASE ~logger.flag
        <5>1. /\ logging'[t].pc \in {"idle", "load"} /\ logger.fd = 2 /\ 2 \in Fds
              /\ descriptor' = [descriptor EXCEPT ![2] = descriptor[logging[t].fd], ![logging[t].fd] = NoInode]
          BY <3>5, <4>3, PublishFields, LoggerTyped DEF publish, DescriptorsInv
        <5>2. /\ descriptor'[2] = logFile /\ descriptor'[logging[t].fd] = NoInode
              /\ \A f \in Fds : f \notin {2, logging[t].fd} => descriptor'[f] = descriptor[f]
          BY <4>1, <5>1 DEF LoggerTypeOK
        <5>3. opens({2})'
          BY <4>1, <5>1, <5>2 DEF opens
        <5>4. PlaceOf(t)'
          BY <5>1 DEF PlaceOf
        <5>5. InPlace'
          BY <4>1, <5>1, <5>2, <5>3 DEF InPlace, opens
        <5> QED
          BY <5>4, <5>5
      <4> QED
        BY <4>2, <4>3
    <3>6. CASE assignFd(t)
      <4>1. /\ logging[t].pc = "assign" /\ UNCHANGED <<descriptor, logFile, rotated>>
            /\ logFile # NoInode /\ descriptor[logging[t].fd] = logFile /\ opens({2, logging[t].fd})
            /\ logger'.fd = logging[t].fd /\ logging'[t].pc \in {"idle", "load"}
        BY <3>1, <3>6, LoggerTyped, OtherFields DEF PlaceOf, assignFd, logAt, LoggerTypeOK
      <4>2. PlaceOf(t)'
        BY <4>1 DEF PlaceOf
      <4>3. InPlace'
        BY <4>1 DEF InPlace, opens
      <4> QED
        BY <4>2, <4>3
    <3>7. CASE renameLog(t)
      <4>1. /\ logging[t].pc = "rename" /\ UNCHANGED <<logger, descriptor>> /\ logging[t].old = second
            /\ logging'[t].pc = "open" /\ second \in Seconds
        BY <3>1, <3>7, OtherFields DEF PlaceOf, renameLog, logAt, LoggerTypeOK
      <4>2. \A u \in LogThreads : ~logIn(u, Replacing)
        BY <3>2, <4>1 DEF AfterRotate, Replacing
      <4>3. logFile # NoInode /\ descriptor[logger.fd] = logFile /\ opens({2, logger.fd})
        BY <3>1, <4>2 DEF InPlace
      <4>4. logFile' = NoInode /\ rotated'[second] = logFile
        BY <3>7, <4>1, <4>3 DEF renameLog, LoggerTypeOK
      <4>5. PlaceOf(t)'
        BY <3>0, <4>1, <4>3, <4>4 DEF PlaceOf, opens
      <4>6. InPlace'
        BY <4>1 DEF InPlace, Replacing
      <4> QED
        BY <4>5, <4>6
    <3> QED
      BY <2>8, <3>4, <3>5, <3>6, <3>7
  <2>9. CASE rotate(t)
    <3> SUFFICES ASSUME Orderly', logger'.name
                 PROVE  PlaceInv'
      BY DEF PlaceInv
    <3>0. UNCHANGED <<settings, logger, descriptor, logFile, moved>> /\ ~disorder'
      BY <2>9 DEF rotate, Orderly
    <3>1. /\ Orderly /\ logger.name /\ rotated[second'] = NoInode
          /\ \A u \in LogThreads : u # t /\ logIn(u, AfterRotate) => logging[u].call = "checkFile"
      BY <2>9, <3>0, RotatesAlone DEF Orderly
    <3>2. \A u \in LogThreads : ~logIn(u, AfterRotate)
      <4>1. \A u \in LogThreads : u # t => ~logIn(u, AfterRotate)
        BY <3>1, OneActive
      <4>2. ~logIn(t, AfterRotate)
        BY <2>9 DEF rotate, logAt, AfterRotate, Replacing
      <4> QED
        BY <4>1, <4>2
    <3>3. logFile # NoInode /\ descriptor[logger.fd] = logFile /\ opens({2, logger.fd})
      BY <3>1, <3>2 DEF PlaceInv, InPlace, AfterRotate
    <3>4. logging'[t].pc = "rename" /\ logging'[t].old = second' /\ second' \in Seconds
      BY <2>9, <3>3, RotateFields
    <3>5. rotated'[second'] = NoInode
      BY <2>9, <3>1, <3>4, RotateLists DEF LoggerTypeOK
    <3>6. PlaceOf(t)'
      BY <3>4, <3>5 DEF PlaceOf
    <3>7. InPlace'
      BY <3>0, <3>3 DEF InPlace, opens
    <3> QED
      BY <2>0, <3>1, <3>2, <3>6, <3>7, PlaceOfOne
  <2> QED
    BY <1>3, <2>1, <2>2, <2>3, <2>4, <2>5, <2>6, <2>7, <2>8, <2>9 DEF threadLogs
<1> QED
  BY <1>1, <1>2, <1>3 DEF LoggerNext, threadLogs


-----------------------------------------------------------------------------
(* CLogger: the lines of the files *)

LEMMA LinesStep ==
  ASSUME LoggerTypeOK, CallsInv, NamelessInv, DescriptorsInv, OneRotates, PlaceInv, LinesInv, LoggerNext
  PROVE  LinesInv'
<1> DEFINE Known == (\A i \in Inodes : linesIn[i] \subseteq 1..lines) /\ lost \subseteq 1..lines
           Apart == /\ logFile # Terminal
                    /\ \A s \in Seconds : rotated[s] # NoInode => s <= second /\ rotated[s] \notin {Terminal, logFile}
                    /\ \A s, r \in Seconds : rotated[s] # NoInode /\ rotated[s] = rotated[r] => s = r
<1>0. Known /\ (Orderly /\ logger.name => Apart)
  BY DEF LinesInv
<1>1. ASSUME NEW flag \in BOOLEAN, setFileName(flag)
      PROVE  LinesInv'
  <2>1. /\ openedFile # Terminal /\ logFile' = openedFile /\ rotated = [s \in Seconds |-> NoInode]
        /\ UNCHANGED <<rotated, linesIn, lines, lost>>
    BY <1>1, NamesFd DEF setFileName
  <2> QED
    BY <1>0, <2>1 DEF LinesInv
<1>2. CASE moveLog
  <2>1. moved' # NoInode /\ UNCHANGED <<linesIn, lines, lost>>
    BY <1>2 DEF moveLog
  <2> QED
    BY <1>0, <2>1 DEF LinesInv, Orderly
<1>3. ASSUME NEW t \in LogThreads, threadLogs(t)
      PROVE  LinesInv'
  <2>1. CASE writeLine(t)
    <3> DEFINE i == descriptor[logging[t].fd]
    <3>1. /\ lines' = lines + 1 /\ lines \in Nat /\ UNCHANGED <<settings, logger, logFile, rotated, second, moved, disorder>>
          /\ IF i = NoInode THEN lost' = lost \cup {lines + 1} /\ UNCHANGED linesIn
             ELSE linesIn' = [linesIn EXCEPT ![i] = @ \cup {lines + 1}] /\ UNCHANGED lost
      BY <2>1, LoggerTyped DEF writeLine
    <3> HIDE DEF i
    <3>2. 1..lines' = (1..lines) \cup {lines + 1}
      BY <3>1
    <3>3. \A j \in Inodes : linesIn'[j] \subseteq linesIn[j] \cup {lines + 1}
      BY <3>1 DEF LoggerTypeOK
    <3>4. Known'
      BY <1>0, <3>1, <3>2, <3>3
    <3> QED
      BY <1>0, <3>1, <3>4 DEF LinesInv, Orderly
  <2>2. CASE ~writeLine(t)
    <3>0. UNCHANGED <<linesIn, lines, lost>>
      BY <1>3, <2>2 DEF threadLogs, callLog, callRotate, fstatFd, statName, openName, publish, assignFd, loadFd,
         size, rotate, renameLog
    <3> SUFFICES ASSUME Orderly', logger'.name
                 PROVE  Apart'
      BY <1>0, <3>0 DEF LinesInv
    <3>1. CASE openName(t) \/ renameLog(t)
      <4>1. Orderly /\ logger.name /\ UNCHANGED second
        BY <3>1 DEF Orderly, openName, renameLog
      <4>2. PlaceOf(t) /\ InPlace /\ Apart
        BY <1>0, <4>1 DEF PlaceInv
      <4>3. CASE openName(t)
        <5>1. logFile = NoInode /\ openedFile # Terminal /\ isFresh(openedFile) /\ logFile' = openedFile /\ UNCHANGED rotated
          BY <4>2, <4>3, OpenedFile DEF openName, PlaceOf, logIn, logAt
        <5>2. \A s \in Seconds : rotated[s] # openedFile
          BY <5>1 DEF isFresh, Range, LoggerTypeOK
        <5> QED
          BY <4>1, <4>2, <5>1, <5>2
      <4>4. CASE renameLog(t)
        <5>1. logging[t].old = second /\ second \in Seconds /\ second \in Int /\ rotated[second] = NoInode
          BY <4>2, <4>4 DEF renameLog, PlaceOf, logIn, logAt, LoggerTypeOK, Seconds
        <5>2. CASE logFile = NoInode
          BY <4>1, <4>2, <4>4, <5>2 DEF renameLog
        <5>3. CASE logFile # NoInode
          <6>1. logFile' = NoInode /\ rotated' = [rotated EXCEPT ![second] = logFile]
            BY <4>4, <5>1, <5>3 DEF renameLog
          <6>2. rotated'[second] = logFile /\ \A s \in Seconds : s # second => rotated'[s] = rotated[s]
            BY <5>1, <6>1 DEF LoggerTypeOK
          <6>3. logFile' # Terminal
            BY <6>1 DEF NoInode, Terminal
          <6>4. \A s \in Seconds : rotated'[s] # NoInode => s <= second' /\ rotated'[s] \notin {Terminal, logFile'}
            BY <4>1, <4>2, <5>1, <6>1, <6>2
          <6>5. \A s, r \in Seconds : rotated'[s] # NoInode /\ rotated'[s] = rotated'[r] => s = r
            BY <4>2, <5>3, <6>2
          <6> QED
            BY <6>3, <6>4, <6>5
        <5> QED
          BY <5>2, <5>3
      <4> QED
        BY <3>1, <4>3, <4>4
    <3>2. CASE rotate(t)
      <4>1. Orderly /\ logger.name /\ UNCHANGED logFile
        BY <3>2, RotatesAlone DEF Orderly, rotate
      <4>2. second <= second' /\ second \in Int /\ second' \in Int /\ Seconds \subseteq Int
        BY <3>2, RotateLists DEF Seconds, LoggerTypeOK
      <4>3. \A s \in Seconds : rotated'[s] # NoInode => rotated[s] # NoInode /\ rotated'[s] = rotated[s]
        BY <3>2, RotateLists DEF LoggerTypeOK
      <4>4. Apart
        BY <1>0, <4>1
      <4>5. \A s \in Seconds : rotated'[s] # NoInode => s <= second' /\ rotated'[s] \notin {Terminal, logFile'}
        BY <4>1, <4>2, <4>3, <4>4
      <4>6. \A s, r \in Seconds : rotated'[s] # NoInode /\ rotated'[s] = rotated'[r] => s = r
        BY <4>3, <4>4
      <4> QED
        BY <4>1, <4>4, <4>5, <4>6
    <3>3. CASE ~openName(t) /\ ~renameLog(t) /\ ~rotate(t)
      <4>1. UNCHANGED <<settings, logFile, rotated, second, moved, disorder>>
        BY <1>3, <2>2, <3>3 DEF threadLogs, callLog, callRotate, fstatFd, statName, publish, assignFd, loadFd, size
      <4>2. logger'.name = logger.name
        BY <1>3, <2>2, <3>3 DEF threadLogs, callLog, callRotate, fstatFd, statName, publish, assignFd, loadFd, size,
           LoggerTypeOK
      <4> QED
        BY <1>0, <4>1, <4>2 DEF Orderly
    <3> QED
      BY <3>1, <3>2, <3>3
  <2> QED
    BY <2>1, <2>2
<1> QED
  BY <1>1, <1>2, <1>3 DEF LoggerNext, threadLogs


-----------------------------------------------------------------------------
(* CLogger: the oldest lines go first *)

\* What is kept and what is gone.
InFiles(k) ==
  \/ logFile # NoInode /\ k \in linesIn[logFile]
  \/ \E s \in Seconds : rotated[s] # NoInode /\ k \in linesIn[rotated[s]]
IsGone(l) ==
  /\ l \in 1..lines /\ l \notin lost /\ ~InFiles(l) /\ l \notin linesIn[Terminal]
  /\ moved # NoInode => l \notin linesIn[moved]
  /\ descriptor[logger.fd] # NoInode => l \notin linesIn[descriptor[logger.fd]]

LEMMA KeptLines ==
  ASSUME LoggerTypeOK
  PROVE  \A k : (k \in kept <=> InFiles(k)) /\ (k \in gone <=> IsGone(k))
<1>1. DOMAIN rotated = Seconds /\ Terminal # NoInode
  BY DEF LoggerTypeOK, Terminal, NoInode
<1>2. ASSUME NEW k
      PROVE  k \in kept <=> InFiles(k)
  BY <1>1 DEF kept, linesOf, Range, InFiles
<1>3. ASSUME NEW k
      PROVE  k \in gone <=> IsGone(k)
  <2>1. k \in linesOf({Terminal, moved, descriptor[logger.fd]}) <=>
          \/ k \in linesIn[Terminal]
          \/ moved # NoInode /\ k \in linesIn[moved]
          \/ descriptor[logger.fd] # NoInode /\ k \in linesIn[descriptor[logger.fd]]
    BY <1>1 DEF linesOf
  <2> QED
    BY <1>2, <2>1 DEF gone, IsGone
<1> QED
  BY <1>2, <1>3

LEMMA KeptLinesNext ==
  ASSUME LoggerTypeOK'
  PROVE  \A k : (k \in kept' <=> InFiles(k)') /\ (k \in gone' <=> IsGone(k)')
<1>1. DOMAIN rotated' = Seconds /\ Terminal # NoInode
  BY DEF LoggerTypeOK, Terminal, NoInode
<1>2. ASSUME NEW CONSTANT k
      PROVE  k \in kept' <=> InFiles(k)'
  BY <1>1 DEF kept, linesOf, Range, InFiles
<1>3. ASSUME NEW CONSTANT k
      PROVE  k \in gone' <=> IsGone(k)'
  <2>1. k \in linesOf({Terminal, moved, descriptor[logger.fd]})' <=>
          \/ k \in linesIn'[Terminal]
          \/ moved' # NoInode /\ k \in linesIn'[moved']
          \/ descriptor'[logger'.fd] # NoInode /\ k \in linesIn'[descriptor'[logger'.fd]]
    BY <1>1 DEF linesOf
  <2> QED
    BY <1>2, <2>1 DEF gone, IsGone
<1> QED
  BY <1>2, <1>3

\* The order of the files, and that of the lines that are gone and those that are kept.
FilesInOrder ==
  /\ \A s, r \in Seconds : s < r /\ rotated[s] # NoInode /\ rotated[r] # NoInode =>
       \A l \in linesIn[rotated[s]], k \in linesIn[rotated[r]] : l < k
  /\ \A s \in Seconds : rotated[s] # NoInode /\ logFile # NoInode =>
       \A l \in linesIn[rotated[s]], k \in linesIn[logFile] : l < k
  /\ \A t \in LogThreads : logIn(t, {"publish"}) => linesIn[logFile] = {}
GoneFirst == \A l, k : IsGone(l) /\ InFiles(k) => l < k

LEMMA OrderParts ==
  ASSUME LoggerTypeOK, OrderInv, Orderly, ~early
  PROVE  FilesInOrder /\ GoneFirst
BY KeptLines DEF OrderInv, FilesInOrder, GoneFirst

LEMMA PartsOrder ==
  ASSUME LoggerTypeOK', Orderly' /\ ~early' => FilesInOrder' /\ GoneFirst'
  PROVE  OrderInv'
BY KeptLinesNext DEF OrderInv, FilesInOrder, GoneFirst

\* Without a name there is nothing in order or out of it.
LEMMA NamelessOrder ==
  ASSUME NamelessInv', ~logger'.name
  PROVE  FilesInOrder' /\ GoneFirst'
<1>1. /\ logFile' = NoInode /\ \A s \in Seconds : rotated'[s] = NoInode
      /\ \A t \in LogThreads : (~logIn(t, {"publish"}))'
  BY DEF NamelessInv, logIn
<1> QED
  BY <1>1 DEF FilesInOrder, GoneFirst, InFiles

\* The file that a line goes to: that of the name, or that of the last rotation while
\* the next one is still empty.
LEMMA LineGoesTo ==
  ASSUME LoggerTypeOK, CallsInv, DescriptorsInv, OneRotates, PlaceInv, OrderInv, Orderly, logger.name, ~early,
         NEW t \in LogThreads, logIn(t, {"write"}), descriptor[logging[t].fd] # NoInode,
         ~goesAhead(descriptor[logging[t].fd])
  PROVE  \/ descriptor[logging[t].fd] = logFile /\ \A u \in LogThreads : ~logIn(u, {"publish"})
         \/ /\ descriptor[logging[t].fd] = rotated[second]
            /\ logFile = NoInode \/ linesIn[logFile] = {}
<1> DEFINE i == descriptor[logging[t].fd]
<1>1. i = descriptor[logger.fd] \/ descriptor[logger.fd] = NoInode
  BY DEF goesAhead
<1>2. InPlace /\ \A u \in LogThreads : PlaceOf(u)
  BY DEF PlaceInv
<1>3. CASE \A u \in LogThreads : ~logIn(u, Replacing)
  BY <1>1, <1>2, <1>3 DEF InPlace, logIn, Replacing
<1>4. CASE \E u \in LogThreads : logIn(u, Replacing)
  <2>1. PICK u \in LogThreads : logIn(u, Replacing)
    BY <1>4
  <2>2. CASE logIn(u, {"open", "publish"})
    <3>1. i = rotated[second]
      BY <1>1, <1>2, <2>2 DEF PlaceOf
    <3>2. logFile = NoInode \/ linesIn[logFile] = {}
      BY <1>2, <2>2, OrderParts DEF PlaceOf, logIn, FilesInOrder
    <3> QED
      BY <3>1, <3>2
  <2>3. CASE logIn(u, {"assign"})
    <3>1. opens({2, logging[u].fd}) /\ descriptor[logging[u].fd] = logFile
      BY <1>2, <2>3 DEF PlaceOf, logIn
    <3>2. logger.flag /\ logging[t].fd # 2 /\ logging[t].fd \in Fds
      BY <2>3, LoggerTyped DEF DescriptorsInv, logIn
    <3>3. i = logFile
      BY <3>1, <3>2 DEF opens
    <3>4. \A v \in LogThreads : ~logIn(v, {"publish"})
      BY <2>3, OneActive DEF logIn, AfterRotate, Replacing
    <3> QED
      BY <3>3, <3>4
  <2> QED
    BY <2>1, <2>2, <2>3 DEF logIn, Replacing
<1> QED
  BY <1>3, <1>4

LEMMA OrderWrite ==
  ASSUME LoggerTypeOK, LoggerTypeOK', CallsInv, DescriptorsInv, OneRotates, PlaceInv, LinesInv, OrderInv,
         Orderly, logger.name, ~early', NEW t \in LogThreads, writeLine(t)
  PROVE  FilesInOrder' /\ GoneFirst'
<1> DEFINE i == descriptor[logging[t].fd]
           n == lines + 1
<1>1. /\ lines' = n /\ lines \in Nat /\ logIn(t, {"write"})
      /\ UNCHANGED <<logger, descriptor, logFile, rotated, moved>>
      /\ IF i = NoInode THEN lost' = lost \cup {n} /\ UNCHANGED linesIn
         ELSE linesIn' = [linesIn EXCEPT ![i] = @ \cup {n}] /\ UNCHANGED lost
  BY LoggerTyped DEF writeLine, logIn, logAt
<1>2. ~early /\ ~goesAhead(i)
  <2>1. early' = (early \/ goesAhead(i))
    BY DEF writeLine
  <2> QED
    BY <2>1
<1>3. FilesInOrder /\ GoneFirst
  BY <1>2, OrderParts
<1>4. /\ \A j \in Inodes : linesIn[j] \subseteq 1..lines
      /\ logFile # Terminal
      /\ \A s \in Seconds : rotated[s] # NoInode => s <= second /\ rotated[s] \notin {Terminal, logFile}
      /\ \A s, r \in Seconds : rotated[s] # NoInode /\ rotated[s] = rotated[r] => s = r
  BY DEF LinesInv
<1>5. \A u \in LogThreads : (logIn(u, {"publish"}))' => logIn(u, {"publish"})
  BY OtherFields DEF Alone, logIn
<1>6. /\ i \in Inodes \cup {NoInode} /\ logFile \in Inodes \cup {NoInode} /\ moved \in Inodes \cup {NoInode}
      /\ descriptor[logger.fd] \in Inodes \cup {NoInode} /\ Terminal \in Inodes /\ second \in Seconds
      /\ \A s \in Seconds : rotated[s] \in Inodes \cup {NoInode} /\ s \in Int
      /\ linesIn \in [Inodes -> SUBSET (1..MaxLines)]
  <2>1. \A s \in Seconds : s \in Int
    BY LoggerAssumption DEF Seconds
  <2>2. second \in Seconds /\ moved \in Inodes \cup {NoInode} /\ logFile \in Inodes \cup {NoInode}
        /\ linesIn \in [Inodes -> SUBSET (1..MaxLines)]
    BY DEF LoggerTypeOK
  <2> QED
    BY <2>1, <2>2, LoggerTyped
<1>7. \A l : IsGone(l) => l \in Int /\ l < n
  BY <1>1 DEF IsGone
<1> HIDE DEF i
<1>8. CASE i = NoInode
  <2>1. UNCHANGED linesIn /\ lost' = lost \cup {n}
    BY <1>1, <1>8
  <2>2. FilesInOrder'
    BY <1>1, <1>3, <1>5, <2>1 DEF FilesInOrder
  <2>3. \A l : IsGone(l)' => IsGone(l)
    BY <1>1, <2>1 DEF IsGone, InFiles
  <2>4. \A k : InFiles(k)' => InFiles(k)
    BY <1>1, <2>1 DEF InFiles
  <2> QED
    BY <1>3, <2>2, <2>3, <2>4 DEF GoneFirst
<1>9. CASE i # NoInode
  <2>1. UNCHANGED lost /\ linesIn' = [linesIn EXCEPT ![i] = @ \cup {n}]
    BY <1>1, <1>9
  <2>2. i \in Inodes /\ linesIn'[i] = linesIn[i] \cup {n} /\ \A j \in Inodes : j # i => linesIn'[j] = linesIn[j]
    BY <1>6, <1>9, <2>1
  <2>3. \/ i = logFile /\ \A u \in LogThreads : ~logIn(u, {"publish"})
        \/ i = rotated[second] /\ (logFile = NoInode \/ linesIn[logFile] = {})
    BY <1>1, <1>2, <1>9, LineGoesTo DEF i
  <2>4. \A j \in Inodes : linesIn[j] \subseteq linesIn'[j] /\ linesIn'[j] \subseteq linesIn[j] \cup {n}
    BY <2>2
  <2>5. \A j \in Inodes : \A l \in linesIn[j] : l \in Int /\ l < n
    BY <1>1, <1>4
  <2>6. ASSUME NEW s \in Seconds, NEW r \in Seconds, s < r, rotated[s] # NoInode, rotated[r] # NoInode
        PROVE  \A l \in linesIn'[rotated[s]], k \in linesIn'[rotated[r]] : l < k
    <3>1. rotated[s] # i
      BY <1>4, <1>6, <1>9, <2>3, <2>6
    <3>2. linesIn'[rotated[s]] = linesIn[rotated[s]]
      BY <1>6, <2>2, <2>6, <3>1
    <3> QED
      BY <1>3, <1>6, <2>4, <2>5, <2>6, <3>2 DEF FilesInOrder
  <2>7. ASSUME NEW s \in Seconds, rotated[s] # NoInode, logFile # NoInode
        PROVE  \A l \in linesIn'[rotated[s]], k \in linesIn'[logFile] : l < k
    <3>1. CASE i = logFile
      <4>1. linesIn'[rotated[s]] = linesIn[rotated[s]]
        BY <1>4, <1>6, <2>2, <2>7, <3>1
      <4> QED
        BY <1>3, <1>6, <2>4, <2>5, <2>7, <4>1 DEF FilesInOrder
    <3>2. CASE i # logFile
      <4>1. linesIn'[logFile] = {}
        BY <1>6, <2>2, <2>3, <2>7, <3>2
      <4> QED
        BY <4>1
    <3> QED
      BY <3>1, <3>2
  <2>8. ASSUME NEW u \in LogThreads, (logIn(u, {"publish"}))'
        PROVE  linesIn'[logFile] = {}
    <3>1. logIn(u, {"publish"}) /\ logFile # NoInode
      BY <1>2, <1>5, <2>8 DEF PlaceInv, PlaceOf, logIn
    <3>2. linesIn[logFile] = {} /\ i # logFile
      <4>1. linesIn[logFile] = {}
        BY <1>3, <3>1 DEF FilesInOrder
      <4>2. i = rotated[second]
        BY <2>3, <3>1
      <4> QED
        BY <1>4, <1>6, <1>9, <4>1, <4>2
    <3> QED
      BY <1>6, <2>2, <3>1, <3>2
  <2>9. FilesInOrder'
    BY <1>1, <2>6, <2>7, <2>8 DEF FilesInOrder
  <2>10. \A k : k = n => InFiles(k)'
    <3>1. n \in linesIn'[i]
      BY <2>2
    <3> QED
      BY <1>1, <1>6, <1>9, <2>3, <3>1 DEF InFiles
  <2>11. \A k : InFiles(k) => InFiles(k)'
    BY <1>1, <1>6, <2>4 DEF InFiles
  <2>12. \A k : InFiles(k)' => InFiles(k) \/ k = n
    BY <1>1, <1>6, <2>4 DEF InFiles
  <2>13. ASSUME NEW CONSTANT l, IsGone(l)'
         PROVE  IsGone(l)
    <3>1. l \in 1..n /\ l # n
      BY <1>1, <2>10, <2>13 DEF IsGone
    <3>2. l \in 1..lines
      BY <1>1, <3>1
    <3> QED
      BY <1>1, <1>6, <2>1, <2>4, <2>11, <2>13, <3>2 DEF IsGone
  <2>14. GoneFirst'
    <3> SUFFICES ASSUME NEW CONSTANT l, NEW CONSTANT k, IsGone(l)', InFiles(k)'
                 PROVE  l < k
      BY DEF GoneFirst
    <3>1. IsGone(l)
      BY <2>13
    <3> QED
      BY <1>3, <1>7, <2>12, <3>1 DEF GoneFirst
  <2> QED
    BY <2>9, <2>14
<1> QED
  BY <1>8, <1>9


LEMMA OrderOpen ==
  ASSUME LoggerTypeOK, CallsInv, OneRotates, PlaceInv, LinesInv, OrderInv,
         Orderly, logger.name, ~early, NEW t \in LogThreads, openName(t)
  PROVE  FilesInOrder' /\ GoneFirst'
<1>1. FilesInOrder /\ GoneFirst /\ PlaceOf(t) /\ logIn(t, {"open"})
  BY OrderParts DEF PlaceInv, openName, logIn, logAt
<1>2. /\ logFile = NoInode /\ logFile' = openedFile /\ openedFile \in Inodes \ {NoInode} /\ linesIn[openedFile] = {}
      /\ UNCHANGED <<logger, rotated, moved, linesIn, lines, lost>>
      /\ leastFd \in Fds /\ descriptor[leastFd] = NoInode /\ descriptor' = [descriptor EXCEPT ![leastFd] = openedFile]
  BY <1>1, OpenedFile, OpenFields DEF openName, PlaceOf, logIn, isFresh
<1>3. descriptor'[logger.fd] = descriptor[logger.fd]
  BY <1>1, <1>2, LoggerTyped DEF PlaceOf, logIn, LoggerTypeOK
<1>4. FilesInOrder'
  BY <1>1, <1>2 DEF FilesInOrder
<1>5. \A k : InFiles(k)' <=> InFiles(k)
  BY <1>2 DEF InFiles
<1>6. \A l : IsGone(l)' => IsGone(l)
  BY <1>2, <1>3, <1>5 DEF IsGone
<1> QED
  BY <1>1, <1>4, <1>5, <1>6 DEF GoneFirst

LEMMA OrderPublish ==
  ASSUME LoggerTypeOK, CallsInv, OneRotates, PlaceInv, LinesInv, OrderInv,
         Orderly, logger.name, ~early, NEW t \in LogThreads, publish(t)
  PROVE  FilesInOrder' /\ GoneFirst'
<1>1. FilesInOrder /\ GoneFirst /\ PlaceOf(t) /\ logIn(t, {"publish"})
  BY OrderParts DEF PlaceInv, publish, logIn, logAt
<1>2. UNCHANGED <<logger, logFile, rotated, moved, linesIn, lines, lost>>
  BY DEF publish
<1>3. \A u \in LogThreads : (logIn(u, {"publish"}))' => logIn(u, {"publish"})
  BY PublishFields DEF Alone, logIn
<1>4. FilesInOrder'
  BY <1>1, <1>2, <1>3 DEF FilesInOrder
<1>5. \A k : InFiles(k)' <=> InFiles(k)
  BY <1>2 DEF InFiles
<1>6. \A l : IsGone(l)' => IsGone(l)
  <2> SUFFICES ASSUME NEW CONSTANT l, IsGone(l)'
               PROVE  IsGone(l)
    OBVIOUS
  <2>1. ~InFiles(l)
    BY <1>5 DEF IsGone
  <2>2. descriptor[logger.fd] # NoInode /\ descriptor[logger.fd] = rotated[second] /\ second \in Seconds
    BY <1>1 DEF PlaceOf, logIn, LoggerTypeOK
  <2>3. l \notin linesIn[descriptor[logger.fd]]
    BY <2>1, <2>2 DEF InFiles
  <2> QED
    BY <1>2, <2>1, <2>3 DEF IsGone
<1> QED
  BY <1>1, <1>4, <1>5, <1>6 DEF GoneFirst

LEMMA OrderAssign ==
  ASSUME LoggerTypeOK, CallsInv, OneRotates, PlaceInv, LinesInv, OrderInv,
         Orderly, logger.name, ~early, NEW t \in LogThreads, assignFd(t)
  PROVE  FilesInOrder' /\ GoneFirst'
<1>1. FilesInOrder /\ GoneFirst /\ PlaceOf(t) /\ logIn(t, {"assign"})
  BY OrderParts DEF PlaceInv, assignFd, logIn, logAt
<1>2. UNCHANGED <<descriptor, logFile, rotated, moved, linesIn, lines, lost>>
  BY DEF assignFd
<1>3. \A u \in LogThreads : (logIn(u, {"publish"}))' => logIn(u, {"publish"})
  BY OtherFields DEF Alone, logIn
<1>4. FilesInOrder'
  BY <1>1, <1>2, <1>3 DEF FilesInOrder
<1>5. \A k : InFiles(k)' <=> InFiles(k)
  BY <1>2 DEF InFiles
<1>6. descriptor[logger.fd] = NoInode
  BY <1>1 DEF PlaceOf, logIn
<1>7. \A l : IsGone(l)' => IsGone(l)
  BY <1>2, <1>5, <1>6 DEF IsGone
<1> QED
  BY <1>1, <1>4, <1>5, <1>7 DEF GoneFirst

LEMMA OrderRename ==
  ASSUME LoggerTypeOK, CallsInv, OneRotates, PlaceInv, LinesInv, OrderInv,
         Orderly, logger.name, ~early, NEW t \in LogThreads, renameLog(t)
  PROVE  FilesInOrder' /\ GoneFirst'
<1>1. FilesInOrder /\ GoneFirst /\ PlaceOf(t) /\ InPlace /\ logIn(t, {"rename"})
  BY OrderParts DEF PlaceInv, renameLog, logIn, logAt
<1>2. /\ logging[t].old = second /\ rotated[second] = NoInode /\ second \in Seconds /\ Seconds \subseteq Int
      /\ UNCHANGED <<logger, descriptor, moved, linesIn, lines, lost>>
  BY <1>1, LoggerAssumption DEF PlaceOf, renameLog, logIn, LoggerTypeOK, Seconds
<1>3. \A u \in LogThreads : ~logIn(u, Replacing)
  <2>1. \A u \in LogThreads : u # t => ~logIn(u, AfterRotate)
    BY <1>1, OneActive DEF logIn, AfterRotate
  <2> QED
    BY <1>1, <2>1 DEF logIn, AfterRotate, Replacing
<1>4. logFile # NoInode /\ logFile' = NoInode /\ rotated' = [rotated EXCEPT ![second] = logFile]
  BY <1>1, <1>2, <1>3 DEF InPlace, renameLog
<1>5. rotated'[second] = logFile /\ \A s \in Seconds : s # second => rotated'[s] = rotated[s]
  BY <1>2, <1>4 DEF LoggerTypeOK
<1>6. \A s \in Seconds : rotated[s] # NoInode => s <= second /\ s # second
  BY <1>2 DEF LinesInv
<1>7. \A u \in LogThreads : ~(logIn(u, {"publish"}))'
  BY <1>3, OtherFields DEF Alone, logIn, Replacing
<1>8. FilesInOrder'
  <2>1. ASSUME NEW s \in Seconds, NEW r \in Seconds, s < r, rotated'[s] # NoInode, rotated'[r] # NoInode
        PROVE  \A l \in linesIn'[rotated'[s]], k \in linesIn'[rotated'[r]] : l < k
    <3>1. s # second
      BY <1>2, <1>5, <1>6, <2>1
    <3>2. CASE r = second
      BY <1>1, <1>2, <1>4, <1>5, <2>1, <3>1, <3>2 DEF FilesInOrder
    <3>3. CASE r # second
      BY <1>1, <1>2, <1>5, <2>1, <3>1, <3>3 DEF FilesInOrder
    <3> QED
      BY <3>2, <3>3
  <2> QED
    BY <1>4, <1>7, <2>1 DEF FilesInOrder
<1>9. \A k : InFiles(k)' <=> InFiles(k)
  BY <1>2, <1>4, <1>5 DEF InFiles
<1>10. \A l : IsGone(l)' => IsGone(l)
  BY <1>2, <1>9 DEF IsGone
<1> QED
  BY <1>1, <1>8, <1>9, <1>10 DEF GoneFirst

\* The file that a rotation deletes holds the oldest lines.
LEMMA OrderRotate ==
  ASSUME LoggerTypeOK, CallsInv, OneRotates, PlaceInv, LinesInv, ListInv, OrderInv,
         Orderly', logger.name, ~early, NEW t \in LogThreads, rotate(t)
  PROVE  FilesInOrder' /\ GoneFirst'
<1>1. Orderly /\ ~disorder /\ UNCHANGED <<settings, logger, descriptor, logFile, moved, linesIn, lines, lost>>
  BY RotatesAlone DEF rotate, Orderly
<1>2. FilesInOrder /\ GoneFirst
  BY <1>1, OrderParts
<1>3. \A u \in LogThreads : (logIn(u, {"publish"}))' => logIn(u, {"publish"})
  BY RotateFields DEF Alone, logIn
<1>4. CASE UNCHANGED rotated
  BY <1>1, <1>2, <1>3, <1>4 DEF FilesInOrder, GoneFirst, InFiles, IsGone
<1>5. CASE /\ settings.maxFileIndex > 0 /\ Len(fileList) > 0 /\ fileList[1] \in Seconds /\ logFile # NoInode
           /\ rotated' = [rotated EXCEPT ![fileList[1]] = NoInode]
  <2> DEFINE f == fileList[1]
  <2>1. f \in Seconds /\ rotated'[f] = NoInode /\ \A s \in Seconds : s # f => rotated'[s] = rotated[s]
    BY <1>5 DEF LoggerTypeOK
  <2>2. \A s \in Seconds : rotated[s] # NoInode => s = f \/ f < s
    <3>1. fileList \in Seq(Seconds) /\ Sorted(fileList) /\ \A s \in Seconds : rotated[s] # NoInode => s \in Range(fileList)
      BY <1>1, <1>5 DEF ListInv, Sorted, LoggerTypeOK
    <3>2. \A s \in Range(fileList) : s = f \/ f < s
      BY <1>5, <3>1, SortedTail
    <3> QED
      BY <3>1, <3>2
  <2> HIDE DEF f
  <2>3. FilesInOrder'
    BY <1>1, <1>2, <1>3, <2>1 DEF FilesInOrder
  <2>4. \A k : InFiles(k)' => InFiles(k)
    BY <1>1, <2>1 DEF InFiles
  <2>5. \A l : IsGone(l)' => IsGone(l) \/ (rotated[f] # NoInode /\ l \in linesIn[rotated[f]])
    BY <1>1, <2>1 DEF IsGone, InFiles
  <2>6. ASSUME NEW CONSTANT l, NEW CONSTANT k, rotated[f] # NoInode, l \in linesIn[rotated[f]], InFiles(k)'
        PROVE  l < k
    <3>1. CASE logFile # NoInode /\ k \in linesIn[logFile]
      BY <1>2, <2>1, <2>6, <3>1 DEF FilesInOrder
    <3>2. CASE \E s \in Seconds : rotated'[s] # NoInode /\ k \in linesIn[rotated'[s]]
      <4>1. PICK s \in Seconds : rotated'[s] # NoInode /\ k \in linesIn[rotated'[s]]
        BY <3>2
      <4>2. s # f /\ rotated'[s] = rotated[s]
        BY <2>1, <4>1
      <4> QED
        BY <1>2, <2>1, <2>2, <2>6, <4>1, <4>2 DEF FilesInOrder
    <3> QED
      BY <1>1, <2>6, <3>1, <3>2 DEF InFiles
  <2> QED
    BY <1>2, <2>3, <2>4, <2>5, <2>6 DEF GoneFirst
<1> QED
  BY <1>4, <1>5, RotateLists

LEMMA OrderStep ==
  ASSUME LoggerTypeOK, LoggerTypeOK', CallsInv, NamelessInv, NamelessInv', DescriptorsInv, ListInv, OneRotates, PlaceInv,
         LinesInv, OrderInv, LoggerNext
  PROVE  OrderInv'
<1> SUFFICES ASSUME Orderly', ~early'
             PROVE  FilesInOrder' /\ GoneFirst'
  BY PartsOrder
<1>0. CASE ~logger'.name
  BY <1>0, NamelessOrder
<1>1. ASSUME NEW flag \in BOOLEAN, setFileName(flag)
      PROVE  FilesInOrder' /\ GoneFirst'
  <2>1. /\ logFile' = openedFile /\ isFresh(openedFile) /\ \A s \in Seconds : rotated'[s] = NoInode
        /\ UNCHANGED <<linesIn, logging>> /\ \A t \in LogThreads : logging[t].pc = "idle"
    BY <1>1, NamesFd DEF setFileName
  <2>2. \A k : ~InFiles(k)'
    BY <2>1 DEF InFiles, isFresh
  <2>3. FilesInOrder'
    BY <2>1 DEF FilesInOrder, logIn
  <2> QED
    BY <2>2, <2>3 DEF GoneFirst
<1>2. CASE moveLog
  BY <1>2 DEF moveLog, Orderly
<1>3. ASSUME logger'.name, NEW t \in LogThreads, threadLogs(t)
      PROVE  FilesInOrder' /\ GoneFirst'
  <2>1. CASE rotate(t)
    <3>1. ~early /\ logger.name
      BY <1>3, <2>1 DEF rotate
    <3> QED
      BY <2>1, <3>1, OrderRotate
  <2>2. CASE writeLine(t)
    <3>1. Orderly /\ logger.name
      BY <1>3, <2>2 DEF writeLine, Orderly
    <3> QED
      BY <2>2, <3>1, OrderWrite
  <2>3. CASE openName(t) \/ publish(t) \/ assignFd(t) \/ renameLog(t)
    <3>1. Orderly /\ logger.name /\ ~early
      BY <1>3, <2>3, LoggerTyped DEF openName, publish, assignFd, renameLog, Orderly, LoggerTypeOK
    <3> QED
      BY <2>3, <3>1, OrderOpen, OrderPublish, OrderAssign, OrderRename
  <2>4. CASE callLog(t) \/ callRotate(t) \/ fstatFd(t) \/ statName(t) \/ loadFd(t) \/ size(t)
    <3>1. UNCHANGED <<settings, logger, descriptor, logFile, rotated, moved, linesIn, lines, lost, disorder, early>>
      BY <2>4 DEF callLog, callRotate, fstatFd, statName, loadFd, size
    <3>2. FilesInOrder /\ GoneFirst
      BY <3>1, OrderParts DEF Orderly
    <3>3. logging'[t].pc # "publish" /\ Alone(t)
      BY <1>3, <2>4, ThreadAlone, CallFields, CallRotateFields, FstatFields, OtherFields, LoadFields, SizeFields
    <3>4. FilesInOrder'
      BY <3>1, <3>2, <3>3 DEF FilesInOrder, Alone, logIn
    <3> QED
      BY <3>1, <3>2, <3>4 DEF GoneFirst, InFiles, IsGone
  <2> QED
    BY <1>3, <2>1, <2>2, <2>3, <2>4 DEF threadLogs
<1> QED
  BY <1>0, <1>1, <1>2, <1>3 DEF LoggerNext, threadLogs


-----------------------------------------------------------------------------
(* CLogger: the log that somebody else moves *)

LEMMA CheckStep ==
  ASSUME LoggerTypeOK, CallsInv, NamelessInv, DescriptorsInv, CheckInv, LoggerNext
  PROVE  CheckInv'
<1> DEFINE Checked == ~logger.flag /\ settings.check /\ settings.maxFileSize = 0
           Unmoved(u) == ~logIn(u, {"open", "publish"}) /\ (logIn(u, {"stat"}) => logging[u].seen = logFile)
           Publishes(u) == logIn(u, {"publish"}) => logFile # NoInode /\ descriptor[logging[u].fd] = logFile
<1> USE DEF logIn, logAt
<1>0. Checked =>
        /\ ~asked /\ logger.name => logFile # NoInode /\ descriptor[2] = logFile /\ \A u \in LogThreads : Unmoved(u)
        /\ moved # NoInode =>
             /\ \A u \in LogThreads : Publishes(u)
             /\ logFile # NoInode => descriptor[2] = logFile \/ \E u \in LogThreads : logIn(u, {"publish"})
  BY DEF CheckInv
<1>1. ASSUME NEW flag \in BOOLEAN, setFileName(flag)
      PROVE  CheckInv'
  <2>1. /\ logFile' = openedFile /\ openedFile # NoInode /\ moved' = NoInode /\ logger'.flag = flag
        /\ UNCHANGED logging /\ \A u \in LogThreads : logging[u].pc = "idle"
    BY <1>1, NamesFd DEF setFileName
  <2>2. ~flag => descriptor'[2] = logFile'
    <3>1. descriptor' = [descriptor EXCEPT ![logger'.fd] = openedFile] /\ (~flag => logger'.fd = 2) /\ 2 \in Fds
      BY <1>1, NamesFd, LoggerTyped
    <3> QED
      BY <2>1, <3>1 DEF LoggerTypeOK
  <2> QED
    BY <2>1, <2>2 DEF CheckInv
<1>2. CASE moveLog
  <2>1. /\ logFile # NoInode /\ ~asked /\ asked' /\ logFile' = NoInode
        /\ UNCHANGED <<settings, logger, descriptor, logging>> /\ logger.name
    BY <1>2 DEF moveLog, NamelessInv
  <2> QED
    BY <1>0, <2>1 DEF CheckInv
<1>3. ASSUME NEW t \in LogThreads, threadLogs(t)
      PROVE  CheckInv'
  <2>1. Alone(t) /\ \A u \in LogThreads : u # t => logging'[u] = logging[u]
    BY <1>3, ThreadAlone DEF Alone
  <2>2. UNCHANGED <<settings, moved>> /\ (asked => asked') /\ (UNCHANGED asked \/ callRotate(t))
    <3>1. CASE callRotate(t)
      BY <3>1 DEF callRotate
    <3>2. CASE ~callRotate(t)
      BY <1>3, <3>2 DEF threadLogs, callLog, fstatFd, statName, openName, publish, assignFd, loadFd,
         writeLine, size, rotate, renameLog
    <3> QED
      BY <3>1, <3>2
  <2>3. logger'.flag = logger.flag /\ logger'.name = logger.name
    <3>1. CASE assignFd(t)
      BY <3>1 DEF assignFd, LoggerTypeOK
    <3>2. CASE ~assignFd(t)
      BY <1>3, <3>2 DEF threadLogs, callLog, callRotate, fstatFd, statName, openName, publish, loadFd,
         writeLine, size, rotate, renameLog
    <3> QED
      BY <3>1, <3>2
  <2> SUFFICES ASSUME Checked, ~asked' \/ moved # NoInode
               PROVE  CheckInv'
    BY <2>2, <2>3 DEF CheckInv
  <2>4. ~logIn(t, {"rotate", "rename", "assign"}) /\ logger.fd = 2 /\ (moved # NoInode => asked)
    <3>1. logging[t].call \in {"checkFile", "size", "rotateLog"}
      BY LoggerTyped
    <3> QED
      BY <2>2, <3>1 DEF CallsInv, DescriptorsInv
  \* A step that leaves the file and the descriptors.
  <2>5. ASSUME UNCHANGED <<logFile, descriptor>>, logging[t].pc # "publish", logging'[t].pc # "publish",
               ~asked /\ logger.name => Unmoved(t)'
        PROVE  CheckInv'
    <3>1. ~asked' /\ logger'.name =>
            /\ logFile' # NoInode /\ descriptor'[2] = logFile'
            /\ \A u \in LogThreads : Unmoved(u)'
      BY <1>0, <2>1, <2>2, <2>3, <2>5
    <3>2. moved' # NoInode =>
            /\ \A u \in LogThreads : Publishes(u)'
            /\ logFile' # NoInode => descriptor'[2] = logFile' \/ \E u \in LogThreads : (logIn(u, {"publish"}))'
      BY <1>0, <2>1, <2>2, <2>5
    <3> QED
      BY <3>1, <3>2 DEF CheckInv
  <2>6. CASE callLog(t)
    BY <2>5, <2>6, CallFields DEF callLog
  <2>7. CASE callRotate(t)
    <3>1. ~asked /\ asked' /\ moved = NoInode
      BY <2>7 DEF callRotate, CallsInv
    <3> QED
      BY <2>2, <3>1
  <2>8. CASE fstatFd(t)
    <3>1. /\ logging[t].pc = "fstat" /\ logging'[t].pc = "stat" /\ UNCHANGED <<logFile, descriptor>>
          /\ descriptor[2] # NoInode => logging'[t].seen = descriptor[2]
      BY <2>4, <2>8, FstatFields DEF fstatFd
    <3>2. ~asked /\ logger.name => Unmoved(t)'
      BY <1>0, <3>1 DEF DescriptorsInv
    <3> QED
      BY <2>5, <3>1, <3>2
  <2>9. CASE statName(t)
    <3>1. /\ logging[t].pc = "stat" /\ UNCHANGED <<logFile, descriptor>>
          /\ logging'[t].pc = IF logFile = NoInode \/ logFile # logging[t].seen THEN "open" ELSE "load"
      BY <2>9, OtherFields DEF statName
    <3>2. ~asked /\ logger.name => Unmoved(t)'
      BY <1>0, <3>1
    <3> QED
      BY <2>5, <3>1, <3>2
  <2>10. CASE openName(t)
    <3>1. /\ logging[t].pc = "open" /\ logging'[t].pc = "publish" /\ logging'[t].fd = leastFd
          /\ leastFd \in Fds /\ descriptor[leastFd] = NoInode /\ openedFile # NoInode /\ logFile' = openedFile
          /\ descriptor' = [descriptor EXCEPT ![leastFd] = openedFile] /\ UNCHANGED asked
      BY <2>10, OpenFields, OpenedFile DEF openName
    <3>2. asked /\ moved # NoInode
      <4>1. logger.name
        BY <3>1 DEF NamelessInv
      <4> QED
        BY <1>0, <2>2, <3>1, <4>1
    <3>3. descriptor'[leastFd] = openedFile /\ \A f \in Fds : f # leastFd => descriptor'[f] = descriptor[f]
      BY <3>1 DEF LoggerTypeOK
    <3>4. ASSUME NEW u \in LogThreads
          PROVE  Publishes(u)'
      <4>1. CASE u = t
        BY <3>1, <3>3, <4>1
      <4>2. CASE u # t /\ logIn(u, {"publish"})
        <5>1. logFile # NoInode /\ descriptor[logging[u].fd] = logFile /\ logging[u].fd \in Fds
          BY <1>0, <3>2, <4>2, LoggerTyped
        <5>2. logFile' = logFile /\ descriptor'[logging[u].fd] = logFile
          BY <3>1, <3>3, <5>1 DEF openedFile
        <5> QED
          BY <2>1, <4>2, <5>1, <5>2
      <4> QED
        BY <2>1, <4>1, <4>2
    <3> QED
      BY <2>2, <3>1, <3>2, <3>4 DEF CheckInv
  <2>11. CASE publish(t)
    <3>1. /\ logging[t].pc = "publish" /\ logging'[t].pc # "publish" /\ UNCHANGED <<logFile, asked>>
          /\ logging[t].fd \in Fds /\ logging[t].fd # 2 /\ 2 \in Fds
          /\ descriptor' = [descriptor EXCEPT ![2] = descriptor[logging[t].fd], ![logging[t].fd] = NoInode]
      BY <2>4, <2>11, PublishFields, LoggerTyped DEF publish, DescriptorsInv
    <3>2. asked /\ moved # NoInode
      <4>1. logger.name
        BY <3>1 DEF NamelessInv
      <4> QED
        BY <1>0, <2>2, <3>1, <4>1
    <3>3. logFile # NoInode /\ descriptor[logging[t].fd] = logFile
      BY <1>0, <3>1, <3>2
    <3>4. descriptor'[2] = logFile /\ \A f \in Fds : f \notin {2, logging[t].fd} => descriptor'[f] = descriptor[f]
      BY <3>1, <3>3 DEF LoggerTypeOK
    <3>5. ASSUME NEW u \in LogThreads
          PROVE  Publishes(u)'
      <4>1. CASE u # t /\ logIn(u, {"publish"})
        <5>1. logging[u].fd \in Fds /\ logging[u].fd \notin {2, logging[t].fd}
          BY <3>1, <4>1, LoggerTyped DEF DescriptorsInv
        <5> QED
          BY <1>0, <2>1, <3>1, <3>2, <3>4, <4>1, <5>1
      <4> QED
        BY <2>1, <3>1, <4>1
    <3> QED
      BY <2>2, <3>1, <3>2, <3>4, <3>5 DEF CheckInv
  <2>12. CASE loadFd(t)
    BY <2>5, <2>12, LoadFields DEF loadFd
  <2>13. CASE writeLine(t)
    BY <2>5, <2>13, OtherFields DEF writeLine
  <2>14. CASE size(t)
    <3>1. UNCHANGED <<logFile, descriptor>> /\ logging[t].pc = "size" /\ logging'[t].pc \in {"idle", "rotate"}
      BY <2>14, SizeFields DEF size
    <3> QED
      BY <2>5, <3>1
  <2> QED
    BY <1>3, <2>4, <2>6, <2>7, <2>8, <2>9, <2>10, <2>11, <2>12, <2>13, <2>14 DEF threadLogs, assignFd, rotate, renameLog
<1> QED
  BY <1>1, <1>2, <1>3 DEF LoggerNext, threadLogs

-----------------------------------------------------------------------------
(* CLogger: the invariant, and what it says *)

LEMMA LoggerStep == LoggerInv /\ [LoggerNext]_loggerVars => LoggerInv'
<1> SUFFICES ASSUME LoggerInv, [LoggerNext]_loggerVars PROVE LoggerInv'
  OBVIOUS
<1>0. /\ LoggerTypeOK /\ CallsInv /\ NamelessInv /\ DescriptorsInv /\ ListInv /\ OneRotates /\ PlaceInv /\ LinesInv
      /\ OrderInv /\ CheckInv
  BY DEF LoggerInv
<1>1. CASE LoggerNext
  <2>1. LoggerTypeOK' /\ CallsInv' /\ NamelessInv' /\ DescriptorsInv'
    BY <1>0, <1>1, LoggerTypes, CallsStep, NamelessStep, DescriptorsStep
  <2>2. ListInv' /\ OneRotates' /\ PlaceInv' /\ LinesInv' /\ CheckInv'
    BY <1>0, <1>1, ListStep, OneRotatesStep, PlaceStep, LinesStep, CheckStep
  <2>3. OrderInv'
    BY <1>0, <1>1, <2>1, OrderStep
  <2> QED
    BY <2>1, <2>2, <2>3 DEF LoggerInv
<1>2. CASE UNCHANGED loggerVars
  <2>1. UNCHANGED <<settings, logger, descriptor, logFile, rotated, moved, linesIn, fileList, sizeMutex, second,
                    logging, lines, lost, asked, disorder, early>>
    BY <1>2 DEF loggerVars
  <2>2. UNCHANGED underWay /\ UNCHANGED gone /\ UNCHANGED kept /\ \A fds : UNCHANGED opens(fds)
    BY <2>1 DEF underWay, gone, kept, linesOf, opens
  <2>3. LoggerTypeOK' /\ CallsInv' /\ NamelessInv' /\ DescriptorsInv' /\ ListInv'
    BY <1>0, <2>1, <2>2 DEF LoggerTypeOK, CallsInv, NamelessInv, DescriptorsInv, ListInv, logIn
  <2>4. OneRotates' /\ PlaceInv' /\ LinesInv' /\ OrderInv' /\ CheckInv'
    BY <1>0, <2>1, <2>2 DEF OneRotates, PlaceInv, InPlace, PlaceOf, LinesInv, OrderInv, CheckInv, Orderly, logIn, opens
  <2> QED
    BY <2>3, <2>4 DEF LoggerInv
<1> QED
  BY <1>1, <1>2

LEMMA InvLogs == LoggerInv => LogSafe
<1> SUFFICES ASSUME LoggerInv PROVE LogSafe
  OBVIOUS
<1>0. /\ LoggerTypeOK /\ DescriptorsInv /\ ListInv /\ PlaceInv /\ OrderInv /\ CheckInv
  BY DEF LoggerInv
<1>1. NoLineLost
  BY <1>0 DEF NoLineLost, DescriptorsInv
<1>2. OldestGoFirst
  BY <1>0 DEF OldestGoFirst, OrderInv, Orderly
<1>3. FilesAreListed
  BY <1>0 DEF FilesAreListed, ListInv
<1>4. LogFollowsName
  BY <1>0 DEF LogFollowsName, PlaceInv, InPlace, Orderly, logIn, Replacing, opens
<1>5. CheckFollowsMove
  <2>1. ~logger.flag => logger.fd = 2
    BY <1>0 DEF DescriptorsInv
  <2>2. \/ logger.flag \/ moved = NoInode \/ settings.maxFileSize # 0 \/ ~settings.check \/ logFile = NoInode
        \/ descriptor[2] = logFile \/ \E t \in LogThreads : logIn(t, {"publish"})
    BY <1>0 DEF CheckInv
  <2>3. settings.maxFileSize # 0 => settings.maxFileSize > 0
    BY <1>0, LoggerTyped
  <2> QED
    BY <2>1, <2>2, <2>3 DEF CheckFollowsMove, logIn
<1> QED
  BY <1>1, <1>2, <1>3, <1>4, <1>5 DEF LogSafe

\* The log loses no line as long as it shares the descriptor of stderr; rotations delete
\* the oldest lines first, keep the list of files true and within its limit, and leave
\* the log in the file of its name; and a log that checks follows a file that is moved.
\* Each as far as LogSafe promises it, for any threads, settings and bounds
\* (tblog.cpp:52-213).
THEOREM LogIsSafe == Spec => []LogSafe
<1>1. Init => LoggerInv
  BY LoggerStarts DEF Init
<1>2. LoggerInv /\ [Next]_vars => LoggerInv'
  <2> SUFFICES ASSUME LoggerInv, [Next]_vars PROVE LoggerInv'
    OBVIOUS
  <2>1. [LoggerNext]_loggerVars
    <3>1. CASE Next
      BY <3>1 DEF Next, only
    <3>2. CASE UNCHANGED vars
      BY <3>2 DEF vars
    <3> QED
      BY <3>1, <3>2
  <2> QED
    BY <2>1, LoggerStep
<1> QED
  BY <1>1, <1>2, InvLogs, PTL DEF Spec

-----------------------------------------------------------------------------
(* Directories: its invariant *)

\* What is in the way of a directory once, is in the way or was replaced.
isObstacle(q) == kindOf(q) \notin {"dir", "none"} \/ \E u \in linkCalls : order[u].path = q
hasObstacle(p) == \E i \in 1..Len(p) : isObstacle(SubSeq(p, 1, i))

DirTypes ==
  /\ order \in [Makers -> Orders] /\ dirPc \in [Makers -> DirSteps]
  /\ field \in [Makers -> Nat] /\ outcome \in [Makers -> Results]

\* What a tree has stands in directories, and no link leads to a directory.
NodeInv(p) ==
  /\ pathOK(p) /\ p # <<>> /\ hasParent(p) /\ tree[p].kind \in {"dir", "file", "link"}
  /\ tree[p].kind = "link" => tree[p] = linkTo(tree[p].to) /\ tree[p].to \in targets
TargetInv(q) ==
  /\ staysFile(q) => kindOf(q) = "file"
  /\ staysAway(q) => kindOf(q) # "dir"
TreeInv == (\A p \in DOMAIN tree : NodeInv(p)) /\ \A q \in targets : TargetInv(q)

\* Where a call is, and how far.
StepsOf(op) ==
  CASE op = "mkdirs" -> {"lstat", "mkdir", "mkdirLast", "end"}
    [] op = "checkCreateDir" -> {"stat", "create", "end"}
    [] OTHER -> {"access", "accessLink", "readlink", "unlink", "stat", "create", "symlink", "end"}
DirPlaceInv(t) ==
  /\ dirPc[t] \in StepsOf(order[t].op) /\ (dirPc[t] = "end" <=> outcome[t] # "pending")
  /\ dirPc[t] \in {"lstat", "access", "accessLink", "readlink", "unlink"} => field[t] = 0
  /\ order[t].path = <<>> => dirPc[t] \in {"lstat", "access", "accessLink", "readlink", "end"}
                              \/ order[t].op = "checkCreateDir"
  /\ dirPc[t] = "mkdir" => field[t] <= loopLength(order[t])
  /\ dirPc[t] = "mkdirLast" => field[t] = loopLength(order[t])
  /\ dirPc[t] \in {"stat", "create"} => field[t] <= fieldNum(order[t])
  /\ dirPc[t] = "create" => field[t] < fieldNum(order[t])
  /\ dirPc[t] = "unlink" => order[t].recreate /\ ~order[t].slash

\* What the loop of a call has passed.
PassedInv(t) ==
  \A i \in 1..field[t] :
    LET q == SubSeq(order[t].path, 1, i)
    IN i <= Len(order[t].path) =>
         isMade(q) \/ (order[t].op = "mkdirs" /\ isObstacle(q))

AnswerInv(t) ==
  /\ order[t].op = "mkdirs" =>
       /\ outcome[t] = "done" => isMade(order[t].path)
       /\ outcome[t] # "pending" => isMade(order[t].path) \/ hasObstacle(order[t].path)
  /\ order[t].op = "checkCreateDir" /\ ~isCut(order[t]) =>
       /\ outcome[t] = "done" => \A i \in 1..fieldNum(order[t]) : isMade(SubSeq(order[t].path, 1, i))
       /\ outcome[t] = "failed" => /\ field[t] < fieldNum(order[t])
                                   /\ isMade(prefix(t)) \/ hasObstacle(prefix(t))

\* What becomes of a link that a call has made or found.
isRemaking(u) ==
  /\ u \in linkCalls /\ order[u].recreate /\ ~order[u].slash
  /\ dirPc[u] \in {"stat", "symlink"} \/ (dirPc[u] = "create" /\ field[u] = Len(order[u].path) - 1)
hasTakenAway(u) == u \in linkCalls /\ outcome[u] = "failed" /\ order[u].recreate /\ isCut(order[u])
isGood(u) == u \in linkCalls /\ outcome[u] = "done"
Relinked(p) ==
  \/ isMade(p)
  \/ hasParent(p) /\ p \in DOMAIN tree /\ \E u \in Makers : isGood(u) /\ order[u].path = p /\ tree[p] = linkTo(order[u].target)
  \/ hasParent(p) /\ p \notin DOMAIN tree /\ \E u \in Makers : isRemaking(u) /\ order[u].path = p
  \/ \E u \in Makers : hasTakenAway(u) /\ order[u].path = p
LinkInv(t) == isGood(t) => Relinked(order[t].path)

CallInv(t) == DirPlaceInv(t) /\ PassedInv(t) /\ AnswerInv(t)
DirInv == DirTypes /\ TreeInv /\ \A t \in Makers : CallInv(t) /\ LinkInv(t)

-----------------------------------------------------------------------------
(* Paths *)

LEMMA CutOfPath ==
  ASSUME NEW p, pathOK(p)
  PROVE  /\ Len(p) \in Nat /\ SubSeq(p, 1, 0) = <<>> /\ SubSeq(p, 1, Len(p)) = p
         /\ \A i \in 0..Len(p) : Len(SubSeq(p, 1, i)) = i /\ pathOK(SubSeq(p, 1, i))
         /\ \A i \in 0..Len(p) : \A j \in 0..i : SubSeq(SubSeq(p, 1, i), 1, j) = SubSeq(p, 1, j)
<1> DEFINE S == ToSet(p)
<1>1. p \in Seq(S)
  BY DEF pathOK
<1>2. Len(p) \in Nat
  BY <1>1
<1>3. \A i \in 0..Len(p) : SubSeq(p, 1, i) \in Seq(S) /\ Len(SubSeq(p, 1, i)) = i
                           /\ \A j \in 1..i : SubSeq(p, 1, i)[j] = p[j]
  <2> HIDE DEF S
  <2> QED
    BY <1>1, <1>2
<1>4. SubSeq(p, 1, 0) = <<>>
  BY <1>2, <1>3
<1>5. SubSeq(p, 1, Len(p)) = p
  <2>1. SubSeq(p, 1, Len(p)) \in Seq(S) /\ Len(SubSeq(p, 1, Len(p))) = Len(p)
        /\ \A j \in 1..Len(p) : SubSeq(p, 1, Len(p))[j] = p[j]
    BY <1>2, <1>3
  <2> HIDE DEF S
  <2> QED
    BY <1>1, <1>2, <2>1, SeqEqual
<1>6. ASSUME NEW i \in 0..Len(p) PROVE pathOK(SubSeq(p, 1, i))
  <2> DEFINE q == SubSeq(p, 1, i)
  <2>1. q \in Seq(S) /\ Len(q) = i
    BY <1>3
  <2> HIDE DEF q, S
  <2>2. \A j \in 1..Len(q) : q[j] \in ToSet(q)
    BY <2>1 DEF ToSet
  <2>3. q \in Seq(ToSet(q))
    BY <2>1, <2>2
  <2> QED
    BY <2>3 DEF pathOK, q
<1>7. ASSUME NEW i \in 0..Len(p), NEW j \in 0..i PROVE SubSeq(SubSeq(p, 1, i), 1, j) = SubSeq(p, 1, j)
  <2> DEFINE q == SubSeq(p, 1, i)
             r == SubSeq(q, 1, j)
             s == SubSeq(p, 1, j)
  <2>1. q \in Seq(S) /\ Len(q) = i /\ \A k \in 1..i : q[k] = p[k]
    BY <1>3
  <2>2. s \in Seq(S) /\ Len(s) = j /\ \A k \in 1..j : s[k] = p[k]
    BY <1>2, <1>3
  <2>3. r \in Seq(S) /\ Len(r) = j /\ \A k \in 1..j : r[k] = q[k]
    <3> HIDE DEF S, q
    <3> QED
      BY <2>1, <1>2
  <2>4. \A k \in 1..j : r[k] = s[k]
    <3> HIDE DEF S, q, r, s
    <3> QED
      BY <2>1, <2>2, <2>3, <1>2
  <2> HIDE DEF S, q, r, s
  <2>5. r = s
    BY <2>2, <2>3, <2>4, SeqEqual
  <2> QED
    BY <2>5 DEF q, r, s
<1> QED
  BY <1>2, <1>3, <1>4, <1>5, <1>6, <1>7

LEMMA OrderIsOK ==
  ASSUME DirTypes, NEW t \in Makers
  PROVE  /\ order[t] \in Orders /\ orderOK(order[t]) /\ pathOK(order[t].path) /\ Len(order[t].path) \in Nat
         /\ loopLength(order[t]) = fieldNum(order[t])
         /\ fieldNum(order[t]) \in Nat /\ fieldNum(order[t]) \in {Len(order[t].path), Len(order[t].path) - 1}
         /\ order[t].op \in {"mkdirs", "checkCreateDir", "checkCreateLink"}
         /\ order[t].op = "checkCreateLink" <=> t \in linkCalls
<1>1. order[t] \in Orders /\ orderOK(order[t])
  BY DirAssumption DEF DirTypes
<1>2. pathOK(order[t].path) /\ Len(order[t].path) \in Nat
  BY <1>1, CutOfPath DEF orderOK
<1>3. order[t].path # <<>> => Len(order[t].path) > 0
  <2>1. order[t].path \in Seq(ToSet(order[t].path))
    BY <1>2 DEF pathOK
  <2> QED
    BY <2>1
<1>4. fieldNum(order[t]) \in Nat /\ fieldNum(order[t]) \in {Len(order[t].path), Len(order[t].path) - 1}
  <2>1. CASE order[t].slash
    BY <1>2, <2>1 DEF fieldNum
  <2>2. CASE ~order[t].slash
    <3>1. order[t].path # <<>>
      BY ONLY <1>1, <2>2, Zenon DEF orderOK
    <3> QED
      BY <1>2, <1>3, <2>2, <3>1 DEF fieldNum
  <2> QED
    BY <2>1, <2>2
<1> QED
  BY <1>1, <1>2, <1>4 DEF orderOK, loopLength, fieldNum, linkCalls

\* A directory looked at through links is one itself.
LEMMA FollowedIsMade ==
  ASSUME DirInv, NEW p
  PROVE  followed(p) = "dir" <=> isMade(p)
<1>1. CASE kindOf(p) = "link"
  <2>1. p \in DOMAIN tree /\ tree[p].to \in targets
    BY <1>1 DEF kindOf, DirInv, TreeInv, NodeInv
  <2>2. kindOf(tree[p].to) # "dir"
    BY <2>1, DirAssumption DEF DirInv, TreeInv, TargetInv
  <2> QED
    BY <1>1, <2>2 DEF followed, isMade
<1>2. CASE kindOf(p) # "link"
  BY <1>2 DEF followed, isMade
<1> QED
  BY <1>1, <1>2

-----------------------------------------------------------------------------
(* Directories: what a step does to the tree *)

EntersDir ==
  \E p : /\ mayMake(p) /\ p # <<>> /\ pathOK(p) /\ (\E o \in Orders : p \in prefixes(o.path))
         /\ entersAt(p, aDir)
EntersLink(x) ==
  /\ x \in linkCalls /\ mayMake(order[x].path) /\ order[x].path # <<>> /\ outcome'[x] = "done"
  /\ entersAt(order[x].path, linkTo(order[x].target))
mayUnlink(p) == kindOf(p) \in {"link", "file"}
Unlinks(x) ==
  /\ x \in linkCalls /\ mayUnlink(order[x].path) /\ isRemaking(x)'
  /\ unlinkAt(order[x].path)
Effects(x) == UNCHANGED tree \/ EntersDir \/ EntersLink(x) \/ Unlinks(x)

LEMMA EnteredIs ==
  ASSUME NEW p, NEW node, p # <<>>, mayMake(p), entersAt(p, node)
  PROVE  /\ DOMAIN tree' = DOMAIN tree \cup {p} /\ p \notin DOMAIN tree /\ tree'[p] = node
         /\ \A q \in DOMAIN tree : tree'[q] = tree[q]
         /\ kindOf(p) = "none" /\ kindOf(p)' = node.kind
         /\ \A q : q # p => kindOf(q)' = kindOf(q)
<1>1. /\ DOMAIN tree' = DOMAIN tree \cup {p} /\ p \notin DOMAIN tree /\ tree'[p] = node
      /\ \A q \in DOMAIN tree : tree'[q] = tree[q]
  BY DEF mayMake, entersAt
<1> QED
  BY <1>1 DEF kindOf

LEMMA UnlinkedIs ==
  ASSUME NEW p, mayUnlink(p), unlinkAt(p)
  PROVE  /\ DOMAIN tree' = DOMAIN tree \ {p} /\ p \in DOMAIN tree /\ p # <<>>
         /\ \A q \in DOMAIN tree' : tree'[q] = tree[q]
         /\ kindOf(p)' = "none"
         /\ \A q : q # p => kindOf(q)' = kindOf(q)
<1>1. /\ DOMAIN tree' = DOMAIN tree \ {p} /\ p \in DOMAIN tree /\ p # <<>>
      /\ \A q \in DOMAIN tree' : tree'[q] = tree[q]
  BY DEF mayUnlink, kindOf, unlinkAt
<1> QED
  BY <1>1 DEF kindOf

\* Directories and obstacles stay.
LEMMA MadeStays ==
  ASSUME UNCHANGED order, NEW x \in Makers, Effects(x)
  PROVE  /\ linkCalls' = linkCalls
         /\ \A q : isMade(q) => isMade(q)'
         /\ \A q : isObstacle(q) => isObstacle(q)'
         /\ \A q : hasParent(q) => hasParent(q)'
         /\ \A q : hasObstacle(q) => hasObstacle(q)'
<1>1. linkCalls' = linkCalls
  BY DEF linkCalls
<1>2. (\A q : isMade(q) => isMade(q)') /\ \A q : isObstacle(q) => isObstacle(q)'
  <2>1. CASE UNCHANGED tree
    BY <1>1, <2>1 DEF isMade, isObstacle, kindOf
  <2>2. CASE EntersDir
    <3>1. PICK p : mayMake(p) /\ p # <<>> /\ entersAt(p, aDir)
      BY <2>2 DEF EntersDir
    <3> QED
      BY <1>1, <3>1, EnteredIs DEF isMade, isObstacle, aDir
  <2>3. CASE EntersLink(x)
    <3>1. PICK p, node : mayMake(p) /\ p # <<>> /\ entersAt(p, node)
      BY <2>3 DEF EntersLink
    <3> QED
      BY <1>1, <3>1, EnteredIs DEF isMade, isObstacle
  <2>4. CASE Unlinks(x)
    <3>1. PICK p : p = order[x].path
      OBVIOUS
    <3>2. x \in linkCalls /\ mayUnlink(p) /\ unlinkAt(p)
      BY <2>4, <3>1 DEF Unlinks
    <3>3. kindOf(p)' = "none" /\ \A q : q # p => kindOf(q)' = kindOf(q)
      BY <3>2, UnlinkedIs
    <3> QED
      BY <1>1, <3>1, <3>2, <3>3 DEF isMade, isObstacle, mayUnlink
  <2> QED
    BY <2>1, <2>2, <2>3, <2>4 DEF Effects
<1>3. \A q : hasParent(q) => hasParent(q)'
  BY <1>2 DEF hasParent
<1>4. \A q : hasObstacle(q) => hasObstacle(q)'
  BY <1>2 DEF hasObstacle
<1> QED
  BY <1>1, <1>2, <1>3, <1>4

LEMMA NotOfOrders ==
  ASSUME NEW q \in targets, NEW p, NEW o \in Orders, p \in prefixes(o.path), staysAway(q)
  PROVE  p # q
BY DEF staysAway

LEMMA TreeKept ==
  ASSUME DirInv, DirTypes', UNCHANGED order, NEW x \in Makers, Effects(x)
  PROVE  TreeInv'
<1>1. (\A q : isMade(q) => isMade(q)') /\ (\A q : hasParent(q) => hasParent(q)') /\ linkCalls' = linkCalls
  BY MadeStays
<1>2. ASSUME NEW p \in DOMAIN tree, p \in DOMAIN tree', tree'[p] = tree[p]
      PROVE  NodeInv(p)'
  <2>1. NodeInv(p)
    BY DEF DirInv, TreeInv
  <2> QED
    BY <1>1, <1>2, <2>1 DEF NodeInv
<1>3. ASSUME NEW p \in DOMAIN tree', pathOK(p), p # <<>>, hasParent(p), tree'[p] = aDir
      PROVE  NodeInv(p)'
  BY <1>1, <1>3 DEF NodeInv, aDir
<1>4. ASSUME NEW q \in targets
      PROVE  (staysFile(q) => kindOf(q) = "file") /\ (staysAway(q) => kindOf(q) # "dir")
  BY DEF DirInv, TreeInv, TargetInv
<1>5. CASE UNCHANGED tree
  BY <1>2, <1>5 DEF DirInv, TreeInv, TargetInv, kindOf
<1>6. CASE EntersDir
  <2>1. PICK p : mayMake(p) /\ p # <<>> /\ pathOK(p) /\ entersAt(p, aDir) /\ \E o \in Orders : p \in prefixes(o.path)
    BY <1>6 DEF EntersDir
  <2>2. /\ DOMAIN tree' = DOMAIN tree \cup {p} /\ p \notin DOMAIN tree /\ tree'[p] = aDir
        /\ \A q \in DOMAIN tree : tree'[q] = tree[q]
        /\ kindOf(p) = "none" /\ kindOf(p)' = aDir.kind
        /\ \A q : q # p => kindOf(q)' = kindOf(q)
    BY <2>1, EnteredIs
  <2>3. hasParent(p)
    BY <2>1 DEF mayMake
  <2>4. \A q \in DOMAIN tree' : NodeInv(q)'
    BY <1>2, <1>3, <2>1, <2>2, <2>3
  <2>5. ASSUME NEW q \in targets PROVE TargetInv(q)'
    <3>1. staysAway(q) => p # q
      BY <2>1, NotOfOrders
    <3>2. staysFile(q) => p # q
      BY <1>4, <2>2
    <3> QED
      BY <1>4, <2>2, <3>1, <3>2 DEF TargetInv, aDir
  <2> QED
    BY <2>4, <2>5 DEF TreeInv
<1>7. CASE EntersLink(x)
  <2>0. PICK p, r : p = order[x].path /\ r = order[x].target
    OBVIOUS
  <2>1. mayMake(p) /\ p # <<>> /\ entersAt(p, linkTo(r)) /\ x \in linkCalls
    BY <1>7, <2>0 DEF EntersLink
  <2>2. pathOK(p) /\ order[x] \in Orders /\ order[x].op = "checkCreateLink"
    BY <2>0, <2>1, OrderIsOK DEF DirInv
  <2>3. hasParent(p)
    BY <2>1 DEF mayMake
  <2>4. r \in targets
    BY <2>0, <2>2 DEF targets
  <2>5. /\ DOMAIN tree' = DOMAIN tree \cup {p} /\ p \notin DOMAIN tree /\ tree'[p] = linkTo(r)
        /\ \A q \in DOMAIN tree : tree'[q] = tree[q]
        /\ kindOf(p) = "none" /\ kindOf(p)' = linkTo(r).kind
        /\ \A q : q # p => kindOf(q)' = kindOf(q)
    BY <2>1, EnteredIs
  <2>6. NodeInv(p)'
    BY <1>1, <2>1, <2>2, <2>3, <2>4, <2>5 DEF NodeInv, linkTo
  <2>7. \A q \in DOMAIN tree' : NodeInv(q)'
    BY <1>2, <2>5, <2>6
  <2>8. ASSUME NEW q \in targets PROVE TargetInv(q)'
    BY <1>4, <2>5 DEF TargetInv, linkTo
  <2> QED
    BY <2>7, <2>8 DEF TreeInv
<1>8. CASE Unlinks(x)
  <2>0. PICK p : p = order[x].path
    OBVIOUS
  <2>1. mayUnlink(p) /\ unlinkAt(p) /\ x \in linkCalls
    BY <1>8, <2>0 DEF Unlinks
  <2>2. order[x] \in Orders /\ order[x].op = "checkCreateLink"
    BY <2>1, OrderIsOK DEF DirInv
  <2>3. \A q : staysFile(q) => p # q
    BY <2>0, <2>2 DEF staysFile
  <2>4. /\ DOMAIN tree' = DOMAIN tree \ {p} /\ \A q \in DOMAIN tree' : tree'[q] = tree[q]
        /\ kindOf(p)' = "none" /\ \A q : q # p => kindOf(q)' = kindOf(q)
    BY <2>1, UnlinkedIs
  <2>5. \A q \in DOMAIN tree' : NodeInv(q)'
    BY <1>2, <2>4
  <2>6. ASSUME NEW q \in targets PROVE TargetInv(q)'
    BY <1>4, <2>3, <2>4 DEF TargetInv
  <2> QED
    BY <2>5, <2>6 DEF TreeInv
<1> QED
  BY <1>5, <1>6, <1>7, <1>8 DEF Effects

-----------------------------------------------------------------------------
(* Directories: what a step of one thread means for all *)

\* A step of thread x; what it says of itself is shown for each action.
StepOf(x) ==
  /\ UNCHANGED order /\ DirTypes' /\ Effects(x) /\ dirPc[x] # "end"
  /\ \A u \in Makers \ {x} : dirPc'[u] = dirPc[u] /\ field'[u] = field[u] /\ outcome'[u] = outcome[u]
Carries(x) ==
  /\ isRemaking(x) /\ order[x].path \notin DOMAIN tree /\ hasParent(order[x].path) =>
       isRemaking(x)' \/ hasTakenAway(x)' \/ order[x].path \in DOMAIN tree'
  /\ isGood(x)' => order[x].path \in DOMAIN tree' /\ tree'[order[x].path] = linkTo(order[x].target)

LEMMA CallKept ==
  ASSUME DirInv, NEW x \in Makers, StepOf(x), NEW u \in Makers, u # x
  PROVE  CallInv(u)'
<1>1. (\A q : isMade(q) => isMade(q)') /\ (\A q : isObstacle(q) => isObstacle(q)') /\ (\A q : hasObstacle(q) => hasObstacle(q)')
  BY MadeStays DEF StepOf
<1>2. dirPc'[u] = dirPc[u] /\ field'[u] = field[u] /\ outcome'[u] = outcome[u] /\ order' = order
  BY DEF StepOf
<1>3. DirPlaceInv(u) /\ PassedInv(u) /\ AnswerInv(u)
  BY DEF DirInv, CallInv
<1>4. DirPlaceInv(u)'
  BY <1>2, <1>3 DEF DirPlaceInv
<1>5. PassedInv(u)'
  BY <1>1, <1>2, <1>3 DEF PassedInv
<1>6. prefix(u)' = prefix(u)
  BY <1>2 DEF prefix
<1>7. AnswerInv(u)'
  BY <1>1, <1>2, <1>3, <1>6 DEF AnswerInv
<1> QED
  BY <1>4, <1>5, <1>7 DEF CallInv

\* A path that a step adds or takes away.
Appears(q, x) ==
  /\ q \notin DOMAIN tree /\ DOMAIN tree' = DOMAIN tree \cup {q} /\ (\A r \in DOMAIN tree : tree'[r] = tree[r])
  /\ isMade(q)' \/ (q = order[x].path /\ isGood(x)')
Disappears(q, x) ==
  /\ q \in DOMAIN tree /\ DOMAIN tree' = DOMAIN tree \ {q} /\ (\A r \in DOMAIN tree' : tree'[r] = tree[r])
  /\ q = order[x].path /\ isRemaking(x)'

LEMMA RelinkedKept ==
  ASSUME DirInv, NEW x \in Makers, StepOf(x), Carries(x), NEW p, Relinked(p)
  PROVE  Relinked(p)'
<1>1. linkCalls' = linkCalls /\ (\A q : isMade(q) => isMade(q)') /\ (\A q : hasParent(q) => hasParent(q)')
  BY MadeStays DEF StepOf
<1>2. order' = order /\ outcome[x] = "pending"
  BY DEF StepOf, DirInv, CallInv, DirPlaceInv
<1>3. \A u \in Makers : isGood(u) => isGood(u)'
  BY <1>1, <1>2 DEF isGood, StepOf
<1>4. \A u \in Makers : hasTakenAway(u) => hasTakenAway(u)'
  BY <1>1, <1>2 DEF hasTakenAway, StepOf
<1>5. \A u \in Makers \ {x} : isRemaking(u) => isRemaking(u)'
  BY <1>1, <1>2 DEF isRemaking, StepOf
<1>6. \A u \in Makers : order'[u] = order[u]
  BY <1>2
<1>7. tree' = tree \/ (\E q : Appears(q, x)) \/ (\E q : Disappears(q, x))
  <2>1. CASE UNCHANGED tree
    BY <2>1
  <2>2. CASE EntersDir
    <3>1. PICK q : mayMake(q) /\ q # <<>> /\ entersAt(q, aDir)
      BY <2>2 DEF EntersDir
    <3>2. kindOf(q)' = aDir.kind /\ q \notin DOMAIN tree /\ DOMAIN tree' = DOMAIN tree \cup {q} /\ (\A r \in DOMAIN tree : tree'[r] = tree[r])
      BY <3>1, EnteredIs
    <3>3. isMade(q)'
      BY <3>2 DEF isMade, aDir
    <3> QED
      BY <3>2, <3>3 DEF Appears
  <2>3. CASE EntersLink(x)
    <3>1. PICK q, n : q = order[x].path /\ n = linkTo(order[x].target)
      OBVIOUS
    <3>2. isGood(x)' /\ mayMake(q) /\ q # <<>> /\ entersAt(q, n)
      BY <1>1, <2>3, <3>1 DEF EntersLink, isGood
    <3>3. q \notin DOMAIN tree /\ DOMAIN tree' = DOMAIN tree \cup {q} /\ \A r \in DOMAIN tree : tree'[r] = tree[r]
      BY <3>2, EnteredIs
    <3> QED
      BY <3>1, <3>2, <3>3 DEF Appears
  <2>4. CASE Unlinks(x)
    <3>1. PICK q : q = order[x].path
      OBVIOUS
    <3>2. mayUnlink(q) /\ unlinkAt(q) /\ isRemaking(x)'
      BY <2>4, <3>1 DEF Unlinks
    <3>3. q \in DOMAIN tree /\ DOMAIN tree' = DOMAIN tree \ {q} /\ \A r \in DOMAIN tree' : tree'[r] = tree[r]
      BY <3>2, UnlinkedIs
    <3> QED
      BY <3>1, <3>2, <3>3 DEF Disappears
  <2> QED
    BY <2>1, <2>2, <2>3, <2>4 DEF StepOf, Effects
<1>8. CASE isMade(p)
  BY <1>1, <1>8 DEF Relinked
<1>9. CASE \E u \in Makers : hasTakenAway(u) /\ order[u].path = p
  BY <1>4, <1>6, <1>9 DEF Relinked
<1>10. CASE hasParent(p) /\ p \in DOMAIN tree /\ \E u \in Makers : isGood(u) /\ order[u].path = p /\ tree[p] = linkTo(order[u].target)
  <2>1. PICK u \in Makers : isGood(u) /\ order[u].path = p /\ tree[p] = linkTo(order[u].target)
    BY <1>10
  <2>2. CASE p \in DOMAIN tree' /\ tree'[p] = tree[p]
    BY <1>1, <1>3, <1>6, <1>10, <2>1, <2>2 DEF Relinked
  <2>3. CASE p \notin DOMAIN tree' /\ p = order[x].path /\ isRemaking(x)'
    BY <1>1, <1>6, <1>10, <2>3 DEF Relinked
  <2> QED
    BY <1>7, <1>10, <2>2, <2>3 DEF Appears, Disappears
<1>11. CASE hasParent(p) /\ p \notin DOMAIN tree /\ \E u \in Makers : isRemaking(u) /\ order[u].path = p
  <2>1. CASE isMade(p)'
    BY <2>1 DEF Relinked
  <2>2. CASE p = order[x].path /\ isGood(x)' /\ p \in DOMAIN tree'
    BY <1>1, <1>6, <1>11, <2>2 DEF Carries, Relinked
  <2>3. CASE p \notin DOMAIN tree'
    <3>1. PICK u \in Makers : isRemaking(u) /\ order[u].path = p
      BY <1>11
    <3>2. CASE isRemaking(u)' \/ hasTakenAway(u)'
      BY <1>1, <1>6, <1>11, <2>3, <3>1, <3>2 DEF Relinked
    <3>3. u = x => isRemaking(u)' \/ hasTakenAway(u)'
      BY <1>11, <2>3, <3>1 DEF Carries
    <3> QED
      BY <1>5, <3>1, <3>2, <3>3
  <2> QED
    BY <1>7, <1>11, <2>1, <2>2, <2>3 DEF Appears, Disappears
<1> QED
  BY <1>8, <1>9, <1>10, <1>11 DEF Relinked

LEMMA StepKeeps ==
  ASSUME DirInv, NEW x \in Makers, StepOf(x), Carries(x), CallInv(x)'
  PROVE  DirInv'
<1>1. DirTypes' /\ TreeInv'
  BY TreeKept DEF StepOf
<1>2. \A u \in Makers : CallInv(u)'
  BY CallKept
<1>3. ASSUME NEW u \in Makers, isGood(u)' PROVE Relinked(order[u].path)'
  <2>1. order'[u] = order[u] /\ linkCalls' = linkCalls
    BY MadeStays DEF StepOf
  <2>2. CASE isGood(u)
    <3>1. PICK p : p = order[u].path
      OBVIOUS
    <3>2. Relinked(p)
      BY <2>2, <3>1 DEF DirInv, LinkInv
    <3>3. Relinked(p)'
      BY <3>2, RelinkedKept
    <3>4. order[u].path' = p
      BY <2>1, <3>1
    <3> QED
      BY <3>3, <3>4
  <2>3. CASE ~isGood(u)
    <3>1. u = x
      BY <1>3, <2>1, <2>3 DEF isGood, StepOf
    <3>2. order[x].path \in DOMAIN tree' /\ tree'[order[x].path] = linkTo(order[x].target)
      BY <1>3, <3>1 DEF Carries
    <3>3. hasParent(order[x].path)'
      BY <1>1, <2>1, <3>1, <3>2 DEF TreeInv, NodeInv
    <3> QED
      BY <1>3, <2>1, <3>1, <3>2, <3>3 DEF Relinked
  <2> QED
    BY <2>2, <2>3
<1> QED
  BY <1>1, <1>2, <1>3 DEF DirInv, LinkInv

-----------------------------------------------------------------------------
(* Directories: the steps *)

LEMMA Proceeded ==
  ASSUME DirTypes, NEW t \in Makers, NEW s \in DirSteps, proceeds(t, s)
  PROVE  /\ dirPc' \in [Makers -> DirSteps] /\ outcome' \in [Makers -> Results]
         /\ dirPc'[t] = s /\ outcome'[t] = outcome[t]
         /\ \A u \in Makers \ {t} : dirPc'[u] = dirPc[u] /\ outcome'[u] = outcome[u]
BY DEF proceeds, DirTypes

LEMMA Answered ==
  ASSUME DirTypes, NEW t \in Makers, NEW r \in Results, answers(t, r)
  PROVE  /\ dirPc' \in [Makers -> DirSteps] /\ outcome' \in [Makers -> Results]
         /\ dirPc'[t] = "end" /\ outcome'[t] = r
         /\ \A u \in Makers \ {t} : dirPc'[u] = dirPc[u] /\ outcome'[u] = outcome[u]
BY DEF answers, DirTypes, DirSteps

LEMMA Advanced ==
  ASSUME DirTypes, NEW t \in Makers, nextField(t)
  PROVE  /\ field' \in [Makers -> Nat] /\ field'[t] = field[t] + 1
         /\ \A u \in Makers \ {t} : field'[u] = field[u]
BY DEF nextField, DirTypes

LEMMA TreeStands ==
  ASSUME UNCHANGED <<tree, order>>
  PROVE  /\ linkCalls' = linkCalls /\ \A q : kindOf(q)' = kindOf(q) /\ isMade(q)' = isMade(q)
         /\ \A q : isObstacle(q)' = isObstacle(q)
BY DEF linkCalls, kindOf, isMade, isObstacle

LEMMA PassedKept ==
  ASSUME DirInv, NEW x \in Makers, StepOf(x), field'[x] = field[x]
  PROVE  PassedInv(x)'
<1>1. (\A q : isMade(q) => isMade(q)') /\ (\A q : isObstacle(q) => isObstacle(q)') /\ order' = order
  BY MadeStays DEF StepOf
<1>2. PassedInv(x)
  BY DEF DirInv, CallInv
<1> QED
  BY <1>1, <1>2 DEF PassedInv

LEMMA PassedOne ==
  ASSUME DirInv, NEW x \in Makers, StepOf(x), field'[x] = field[x] + 1,
         NEW q, q = prefix(x), isMade(q)' \/ (order[x].op = "mkdirs" /\ isObstacle(q)')
  PROVE  PassedInv(x)'
<1>1. (\A r : isMade(r) => isMade(r)') /\ (\A r : isObstacle(r) => isObstacle(r)') /\ order' = order
  BY MadeStays DEF StepOf
<1>2. PassedInv(x) /\ field[x] \in Nat
  BY DEF DirInv, CallInv, DirTypes
<1>3. ASSUME NEW i \in 1..field[x] + 1, i <= Len(order[x].path), NEW r, r = SubSeq(order[x].path, 1, i)
      PROVE  isMade(r)' \/ (order[x].op = "mkdirs" /\ isObstacle(r)')
  <2>1. CASE i \in 1..field[x]
    BY <1>1, <1>2, <1>3, <2>1 DEF PassedInv
  <2>2. CASE i = field[x] + 1
    BY <1>3, <2>2 DEF prefix
  <2> QED
    BY <1>2, <2>1, <2>2
<1> QED
  BY <1>1, <1>3 DEF PassedInv

LEMMA NotYetAnswered ==
  ASSUME NEW x \in Makers, outcome'[x] = "pending"
  PROVE  AnswerInv(x)'
BY DEF AnswerInv

LEMMA NoLinkCarries ==
  ASSUME DirInv, NEW x \in Makers, UNCHANGED order, order[x].op # "checkCreateLink"
  PROVE  Carries(x)
BY DEF Carries, isRemaking, isGood, linkCalls

\* The next directory of a path that is not done.
LEMMA PrefixIs ==
  ASSUME DirInv, NEW t \in Makers, field[t] < Len(order[t].path)
  PROVE  /\ Len(prefix(t)) = field[t] + 1 /\ prefix(t) # <<>> /\ pathOK(prefix(t))
         /\ prefix(t) \in prefixes(order[t].path)
         /\ SubSeq(prefix(t), 1, field[t] + 1) = prefix(t)
         /\ \A i \in 0..field[t] : SubSeq(prefix(t), 1, i) = SubSeq(order[t].path, 1, i)
         /\ field[t] + 1 = Len(order[t].path) => prefix(t) = order[t].path
         /\ hasObstacle(prefix(t)) => hasObstacle(order[t].path)
<1> DEFINE p == order[t].path
           n == field[t] + 1
<1>1. pathOK(p) /\ Len(p) \in Nat /\ field[t] \in Nat /\ n \in 1..Len(p) /\ prefix(t) = SubSeq(p, 1, n)
  <2>1. DirTypes
    BY DEF DirInv
  <2>2. pathOK(p) /\ Len(p) \in Nat
    BY <2>1, OrderIsOK
  <2>3. field[t] \in Nat /\ field[t] < Len(p)
    BY <2>1 DEF DirTypes
  <2>4. n \in 1..Len(p)
    BY <2>2, <2>3
  <2> QED
    BY <2>2, <2>3, <2>4 DEF prefix
<1> HIDE DEF p
<1>2. Len(prefix(t)) = n /\ pathOK(prefix(t)) /\ \A i \in 0..n : SubSeq(prefix(t), 1, i) = SubSeq(p, 1, i)
  BY <1>1, CutOfPath
<1>3. prefix(t) # <<>>
  <2>1. Len(<<>>) = 0
    OBVIOUS
  <2> QED
    BY <1>1, <1>2, <2>1
<1>4. prefix(t) \in prefixes(p)
  BY <1>1 DEF prefixes
<1>5. n = Len(p) => prefix(t) = p
  BY <1>1, CutOfPath
<1>6. ASSUME hasObstacle(prefix(t)) PROVE hasObstacle(p)
  <2>1. PICK i \in 1..n : isObstacle(SubSeq(prefix(t), 1, i))
    BY <1>2, <1>6 DEF hasObstacle
  <2>2. i \in 1..Len(p) /\ SubSeq(prefix(t), 1, i) = SubSeq(p, 1, i)
    BY <1>1, <1>2
  <2>3. isObstacle(SubSeq(p, 1, i))
    BY ONLY <2>1, <2>2
  <2> QED
    BY <2>2, <2>3 DEF hasObstacle
<1> QED
  BY <1>1, <1>2, <1>3, <1>4, <1>5, <1>6 DEF p

\* What is in the way of mkdir().
LEMMA Blocked ==
  ASSUME DirInv, NEW t \in Makers, field[t] < Len(order[t].path), ~mayMake(prefix(t))
  PROVE  isMade(prefix(t)) \/ hasObstacle(prefix(t))
<1> DEFINE p == prefix(t)
<1>1. field[t] \in Nat /\ Len(order[t].path) \in Nat /\ PassedInv(t)
  BY OrderIsOK DEF DirInv, DirTypes, CallInv
<1>2. /\ Len(p) = field[t] + 1 /\ p # <<>> /\ SubSeq(p, 1, Len(p)) = p
      /\ \A i \in 0..field[t] : SubSeq(p, 1, i) = SubSeq(order[t].path, 1, i)
  BY PrefixIs
<1>3. CASE p \in DOMAIN tree
  <2>1. kindOf(p) \in {"dir", "file", "link"}
    BY <1>2, <1>3 DEF DirInv, TreeInv, NodeInv, kindOf
  <2>2. isMade(p) \/ isObstacle(p)
    BY <2>1 DEF isMade, isObstacle
  <2>3. Len(p) \in 1..Len(p)
    BY <1>1, <1>2
  <2>4. isObstacle(p) => isObstacle(SubSeq(p, 1, Len(p)))
    BY ONLY <1>2
  <2> QED
    BY <2>2, <2>3, <2>4 DEF hasObstacle
<1>4. CASE p \notin DOMAIN tree
  <2>1. PICK i \in 0..field[t] : ~isMade(SubSeq(p, 1, i))
    BY <1>1, <1>2, <1>4 DEF mayMake, hasParent
  <2>2. i # 0
    <3>1. SubSeq(p, 1, 0) = <<>>
      BY PrefixIs, CutOfPath
    <3> QED
      BY <2>1, <3>1 DEF isMade, kindOf
  <2>3. isObstacle(SubSeq(p, 1, i))
    <3>1. SubSeq(p, 1, i) = SubSeq(order[t].path, 1, i)
      BY <1>2
    <3>2. i \in 1..field[t] /\ i <= Len(order[t].path)
      BY <1>1, <2>2
    <3>3. isMade(SubSeq(order[t].path, 1, i)) \/ isObstacle(SubSeq(order[t].path, 1, i))
      BY <1>1, <3>2 DEF PassedInv
    <3> QED
      BY ONLY <2>1, <3>1, <3>3
  <2>4. i \in 1..Len(p)
    BY <1>1, <1>2, <2>2
  <2> QED
    BY <2>3, <2>4 DEF hasObstacle
<1> QED
  BY <1>3, <1>4

LEMMA LstatSteps ==
  ASSUME DirInv, NEW t \in Makers, lstat(t)
  PROVE  StepOf(t) /\ Carries(t) /\ CallInv(t)'
<1>1. DirTypes /\ DirPlaceInv(t) /\ AnswerInv(t)
  BY DEF DirInv, CallInv
<1>2. order[t].op = "mkdirs" /\ field[t] = 0 /\ outcome[t] = "pending"
  BY <1>1, OrderIsOK DEF lstat, DirPlaceInv, StepsOf
<1>3. UNCHANGED <<tree, order, field>> /\ dirPc[t] = "lstat"
  BY DEF lstat
<1>4. CASE isMade(order[t].path)
  <2>1. answers(t, "done")
    BY <1>4 DEF lstat
  <2>2. /\ dirPc' \in [Makers -> DirSteps] /\ outcome' \in [Makers -> Results] /\ dirPc'[t] = "end" /\ outcome'[t] = "done"
        /\ \A u \in Makers \ {t} : dirPc'[u] = dirPc[u] /\ outcome'[u] = outcome[u]
    BY <1>1, <2>1, Answered DEF Results
  <2>3. StepOf(t)
    BY <1>1, <1>3, <2>2 DEF StepOf, DirTypes, Effects
  <2>4. DirPlaceInv(t)'
    BY <1>2, <1>3, <2>2 DEF DirPlaceInv, StepsOf
  <2>5. AnswerInv(t)'
    <3>1. isMade(order[t].path)'
      BY <1>3, <1>4 DEF isMade, kindOf
    <3> QED
      BY <1>2, <1>3, <3>1 DEF AnswerInv
  <2> QED
    BY <1>2, <1>3, <2>3, <2>4, <2>5, PassedKept, NoLinkCarries DEF CallInv
<1>5. CASE ~isMade(order[t].path)
  <2>1. proceeds(t, "mkdir")
    BY <1>5 DEF lstat
  <2>2. /\ dirPc' \in [Makers -> DirSteps] /\ outcome' \in [Makers -> Results] /\ dirPc'[t] = "mkdir" /\ outcome'[t] = "pending"
        /\ \A u \in Makers \ {t} : dirPc'[u] = dirPc[u] /\ outcome'[u] = outcome[u]
    BY <1>1, <1>2, <2>1, Proceeded DEF DirSteps
  <2>3. StepOf(t)
    BY <1>1, <1>3, <2>2 DEF StepOf, DirTypes, Effects
  <2>4. order[t].path # <<>>
    BY <1>5 DEF isMade, kindOf
  <2>5. loopLength(order[t]) \in Nat
    BY <1>1, OrderIsOK
  <2>6. DirPlaceInv(t)'
    BY <1>2, <1>3, <2>2, <2>4, <2>5 DEF DirPlaceInv, StepsOf
  <2> QED
    BY <1>2, <1>3, <2>2, <2>3, <2>6, NotYetAnswered, PassedKept, NoLinkCarries DEF CallInv
<1> QED
  BY <1>4, <1>5

LEMMA MkdirSteps ==
  ASSUME DirInv, NEW t \in Makers, mkdir(t)
  PROVE  StepOf(t) /\ Carries(t) /\ CallInv(t)'
<1>1. DirTypes /\ DirPlaceInv(t) /\ field[t] \in Nat
  BY DEF DirInv, CallInv, DirTypes
<1>2. /\ order[t].op = "mkdirs" /\ outcome[t] = "pending" /\ order[t].path # <<>> /\ field[t] <= loopLength(order[t])
      /\ loopLength(order[t]) \in Nat /\ Len(order[t].path) \in Nat /\ loopLength(order[t]) <= Len(order[t].path)
      /\ dirPc[t] = "mkdir" /\ UNCHANGED order
  <2>1. /\ loopLength(order[t]) \in Nat /\ Len(order[t].path) \in Nat
        /\ loopLength(order[t]) \in {Len(order[t].path), Len(order[t].path) - 1}
        /\ order[t].op \in {"mkdirs", "checkCreateDir", "checkCreateLink"}
    BY <1>1, OrderIsOK
  <2>2. order[t].op = "mkdirs"
    BY <1>1, <2>1 DEF mkdir, DirPlaceInv, StepsOf
  <2> QED
    BY <1>1, <2>1, <2>2 DEF mkdir, DirPlaceInv
<1>3. CASE field[t] = loopLength(order[t])
  <2>1. proceeds(t, "mkdirLast") /\ UNCHANGED <<tree, field>>
    BY <1>3 DEF mkdir
  <2>2. /\ dirPc' \in [Makers -> DirSteps] /\ outcome' \in [Makers -> Results] /\ dirPc'[t] = "mkdirLast" /\ outcome'[t] = "pending"
        /\ \A u \in Makers \ {t} : dirPc'[u] = dirPc[u] /\ outcome'[u] = outcome[u]
    BY <1>1, <1>2, <2>1, Proceeded DEF DirSteps
  <2>3. StepOf(t)
    BY <1>1, <1>2, <2>1, <2>2 DEF StepOf, DirTypes, Effects
  <2>4. DirPlaceInv(t)'
    BY <1>2, <1>3, <2>1, <2>2 DEF DirPlaceInv, StepsOf
  <2> QED
    BY <1>2, <2>1, <2>2, <2>3, <2>4, NotYetAnswered, PassedKept, NoLinkCarries DEF CallInv
<1>4. CASE field[t] # loopLength(order[t])
  <2>0. field[t] < loopLength(order[t]) /\ field[t] < Len(order[t].path)
    BY <1>1, <1>2, <1>4
  <2>1. PICK p : p = prefix(t)
    OBVIOUS
  <2>2. /\ p # <<>> /\ pathOK(p) /\ p \in prefixes(order[t].path) /\ order[t] \in Orders
    BY <1>1, <2>0, <2>1, PrefixIs DEF DirTypes
  <2>3. CASE nextField(t) /\ UNCHANGED <<dirPc, outcome>> /\ Effects(t) /\ (isMade(p)' \/ isObstacle(p)')
    <3>1. /\ field' \in [Makers -> Nat] /\ field'[t] = field[t] + 1
          /\ \A u \in Makers \ {t} : field'[u] = field[u]
      BY <1>1, <2>3, Advanced
    <3>2. StepOf(t)
      BY <1>1, <1>2, <2>3, <3>1 DEF StepOf, DirTypes
    <3>3. DirPlaceInv(t)'
      BY <1>1, <1>2, <2>0, <2>3, <3>1 DEF DirPlaceInv, StepsOf
    <3>4. PassedInv(t)'
      BY <1>2, <2>1, <2>3, <3>1, <3>2, PassedOne
    <3> QED
      BY <1>2, <2>3, <3>2, <3>3, <3>4, NotYetAnswered, NoLinkCarries DEF CallInv
  <2>4. CASE mayMake(p)
    <3>1. entersAt(p, aDir) /\ nextField(t) /\ UNCHANGED <<dirPc, outcome>>
      BY <1>4, <2>1, <2>4 DEF mkdir
    <3>2. Effects(t)
      BY <2>2, <2>4, <3>1 DEF Effects, EntersDir
    <3>3. isMade(p)'
      <4>1. kindOf(p)' = aDir.kind
        BY <2>2, <2>4, <3>1, EnteredIs
      <4> QED
        BY <4>1 DEF isMade, aDir
    <3> QED
      BY <2>3, <3>1, <3>2, <3>3
  <2>5. CASE ~mayMake(p) /\ isThere(p)
    <3>1. UNCHANGED <<tree, dirPc, outcome>> /\ nextField(t)
      BY <1>4, <2>1, <2>5 DEF mkdir
    <3>2. kindOf(p) \in {"dir", "file", "link"}
      BY <2>2, <2>5 DEF isThere, DirInv, TreeInv, NodeInv, kindOf
    <3>3. isMade(p) \/ isObstacle(p)
      BY <3>2 DEF isMade, isObstacle
    <3>4. isMade(p)' \/ isObstacle(p)'
      BY <1>2, <3>1, <3>3, TreeStands
    <3> QED
      BY <2>3, <3>1, <3>4 DEF Effects
  <2>6. CASE ~mayMake(p) /\ ~isThere(p)
    <3>1. answers(t, "failed") /\ UNCHANGED <<tree, field>>
      BY <1>4, <2>1, <2>6 DEF mkdir
    <3>2. /\ dirPc' \in [Makers -> DirSteps] /\ outcome' \in [Makers -> Results] /\ dirPc'[t] = "end" /\ outcome'[t] = "failed"
          /\ \A u \in Makers \ {t} : dirPc'[u] = dirPc[u] /\ outcome'[u] = outcome[u]
      BY <1>1, <3>1, Answered DEF Results
    <3>3. StepOf(t)
      BY <1>1, <1>2, <3>1, <3>2 DEF StepOf, DirTypes, Effects
    <3>4. DirPlaceInv(t)'
      BY <1>2, <3>1, <3>2 DEF DirPlaceInv, StepsOf
    <3>5. hasObstacle(order[t].path)
      <4>1. ~isMade(p)
        BY <2>2, <2>6 DEF isThere, isMade, kindOf
      <4> QED
        BY <2>0, <2>1, <2>6, <4>1, Blocked, PrefixIs
    <3>6. hasObstacle(order[t].path)'
      BY <1>2, <3>1, <3>5, TreeStands DEF hasObstacle
    <3>7. AnswerInv(t)'
      BY <1>2, <3>2, <3>6 DEF AnswerInv
    <3> QED
      BY <1>2, <3>1, <3>3, <3>4, <3>7, PassedKept, NoLinkCarries DEF CallInv
  <2> QED
    BY <2>4, <2>5, <2>6
<1> QED
  BY <1>3, <1>4

LEMMA MkdirLastSteps ==
  ASSUME DirInv, NEW t \in Makers, mkdirLast(t)
  PROVE  StepOf(t) /\ Carries(t) /\ CallInv(t)'
<1>1. DirTypes /\ DirPlaceInv(t) /\ field[t] \in Nat
  BY DEF DirInv, CallInv, DirTypes
<1>2. PICK p : p = order[t].path
  OBVIOUS
<1>3. /\ order[t].op = "mkdirs" /\ p # <<>> /\ field[t] \in {Len(p), Len(p) - 1} /\ Len(p) \in Nat /\ pathOK(p)
      /\ dirPc[t] = "mkdirLast" /\ UNCHANGED <<order, field>> /\ order[t] \in Orders
  <2>1. /\ Len(p) \in Nat /\ pathOK(p) /\ order[t] \in Orders
        /\ loopLength(order[t]) \in {Len(p), Len(p) - 1}
        /\ order[t].op \in {"mkdirs", "checkCreateDir", "checkCreateLink"}
    BY <1>1, <1>2, OrderIsOK
  <2>2. order[t].op = "mkdirs"
    BY <1>1, <2>1 DEF mkdirLast, DirPlaceInv, StepsOf
  <2> QED
    BY <1>1, <1>2, <2>1, <2>2 DEF mkdirLast, DirPlaceInv
<1>4. Len(p) \in 1..Len(p) /\ SubSeq(p, 1, Len(p)) = p
  <2>1. p \in Seq(ToSet(p))
    BY <1>3 DEF pathOK
  <2>2. Len(p) # 0
    BY <1>3, <2>1
  <2> QED
    BY <1>3, <2>2, CutOfPath
<1>5. p \in prefixes(order[t].path)
  <2>1. p \in prefixes(p)
    BY <1>4 DEF prefixes
  <2> QED
    BY <1>2, <2>1
<1>6. \E r \in {"done", "failed"} :
        /\ answers(t, r) /\ Effects(t) /\ (r = "done" => isMade(p)') /\ (isMade(p)' \/ hasObstacle(p)')
  <2>1. CASE mayMake(p)
    <3>1. entersAt(p, aDir) /\ answers(t, "done")
      BY <1>2, <2>1 DEF mkdirLast
    <3>2. Effects(t)
      BY <1>3, <1>5, <2>1, <3>1 DEF Effects, EntersDir
    <3>3. isMade(p)'
      <4>1. kindOf(p)' = aDir.kind
        BY <1>3, <2>1, <3>1, EnteredIs
      <4> QED
        BY <4>1 DEF isMade, aDir
    <3> QED
      BY <3>1, <3>2, <3>3
  <2>2. CASE ~mayMake(p)
    <3>1. answers(t, "failed") /\ UNCHANGED tree
      BY <1>2, <2>2 DEF mkdirLast
    <3>2. isMade(p) \/ hasObstacle(p)
      <4>1. CASE p \in DOMAIN tree
        <5>1. kindOf(p) \in {"dir", "file", "link"}
          BY <1>3, <4>1 DEF DirInv, TreeInv, NodeInv, kindOf
        <5>2. isMade(p) \/ isObstacle(p)
          BY <5>1 DEF isMade, isObstacle
        <5> QED
          BY <1>4, <5>2 DEF hasObstacle
      <4>2. CASE p \notin DOMAIN tree
        <5>1. PICK i \in 0..Len(p) - 1 : ~isMade(SubSeq(p, 1, i))
          BY <2>2, <4>2 DEF mayMake, hasParent
        <5>2. i # 0
          <6>1. SubSeq(p, 1, 0) = <<>>
            BY <1>3, CutOfPath
          <6> QED
            BY <5>1, <6>1 DEF isMade, kindOf
        <5>3. isObstacle(SubSeq(p, 1, i))
          <6>1. PassedInv(t)
            BY DEF DirInv, CallInv
          <6>2. i \in 1..field[t] /\ i <= Len(p)
            BY <1>1, <1>3, <5>2
          <6> QED
            BY <1>2, <5>1, <6>1, <6>2 DEF PassedInv
        <5> QED
          BY <1>3, <5>2, <5>3 DEF hasObstacle
      <4> QED
        BY <4>1, <4>2
    <3>3. isMade(p)' \/ hasObstacle(p)'
      BY <1>3, <3>1, <3>2, TreeStands DEF hasObstacle
    <3> QED
      BY <3>1, <3>3 DEF Effects
  <2> QED
    BY <2>1, <2>2
<1>7. PICK r \in {"done", "failed"} :
        /\ answers(t, r) /\ Effects(t) /\ (r = "done" => isMade(p)') /\ (isMade(p)' \/ hasObstacle(p)')
  BY <1>6
<1>8. /\ dirPc' \in [Makers -> DirSteps] /\ outcome' \in [Makers -> Results] /\ dirPc'[t] = "end" /\ outcome'[t] = r
      /\ \A u \in Makers \ {t} : dirPc'[u] = dirPc[u] /\ outcome'[u] = outcome[u]
  BY <1>1, <1>7, Answered DEF Results
<1>9. StepOf(t)
  BY <1>1, <1>3, <1>7, <1>8 DEF StepOf, DirTypes
<1>10. DirPlaceInv(t)'
  BY <1>3, <1>8 DEF DirPlaceInv, StepsOf
<1>11. AnswerInv(t)'
  <2>1. order[t].path' = p
    BY <1>2, <1>3
  <2> QED
    BY <1>3, <1>7, <1>8, <2>1 DEF AnswerInv
<1> QED
  BY <1>3, <1>9, <1>10, <1>11, PassedKept, NoLinkCarries DEF CallInv

\* What a thread in checkCreateDir knows.
LEMMA AtField ==
  ASSUME DirInv, NEW t \in Makers, dirPc[t] \in {"stat", "create"}
  PROVE  /\ DirTypes /\ DirPlaceInv(t) /\ PassedInv(t) /\ outcome[t] = "pending" /\ field[t] \in Nat
         /\ order[t] \in Orders /\ order[t].op \in {"checkCreateDir", "checkCreateLink"}
         /\ order[t].op = "checkCreateLink" <=> t \in linkCalls
         /\ fieldNum(order[t]) \in Nat /\ Len(order[t].path) \in Nat /\ pathOK(order[t].path)
         /\ fieldNum(order[t]) \in {Len(order[t].path), Len(order[t].path) - 1} /\ field[t] <= fieldNum(order[t])
         /\ dirPc[t] = "create" => field[t] < fieldNum(order[t])
<1>1. DirTypes /\ DirPlaceInv(t) /\ PassedInv(t) /\ field[t] \in Nat
  BY DEF DirInv, CallInv, DirTypes
<1>2. /\ order[t] \in Orders /\ order[t].op \in {"mkdirs", "checkCreateDir", "checkCreateLink"}
      /\ order[t].op = "checkCreateLink" <=> t \in linkCalls
      /\ fieldNum(order[t]) \in Nat /\ Len(order[t].path) \in Nat /\ pathOK(order[t].path)
      /\ fieldNum(order[t]) \in {Len(order[t].path), Len(order[t].path) - 1}
  BY <1>1, OrderIsOK
<1>3. order[t].op # "mkdirs"
  BY <1>1 DEF DirPlaceInv, StepsOf
<1> QED
  BY <1>1, <1>2, <1>3 DEF DirPlaceInv

\* The end of checkCreateDir, by itself or in checkCreateLink, with nothing changed.
LEMMA DirEnded ==
  ASSUME DirInv, NEW t \in Makers, dirPc[t] \in {"stat", "create"}, UNCHANGED <<tree, order, field>>,
         NEW r \in {"done", "failed", "refused"}, dirAnswers(t, r),
         order[t].op = "checkCreateDir" /\ ~isCut(order[t]) =>
           /\ r = "done" => \A i \in 1..fieldNum(order[t]) : isMade(SubSeq(order[t].path, 1, i))
           /\ r = "failed" => field[t] < fieldNum(order[t]) /\ (isMade(prefix(t)) \/ hasObstacle(prefix(t))),
         r = "failed" /\ isRemaking(t) /\ hasParent(order[t].path) /\ order[t].path \notin DOMAIN tree =>
           isCut(order[t])
  PROVE  StepOf(t) /\ Carries(t) /\ CallInv(t)'
<1>1. /\ DirTypes /\ DirPlaceInv(t) /\ outcome[t] = "pending"
      /\ order[t].op \in {"checkCreateDir", "checkCreateLink"}
      /\ order[t].op = "checkCreateLink" <=> t \in linkCalls
  BY AtField
<1>2. linkCalls' = linkCalls /\ (\A q : isMade(q)' = isMade(q)) /\ \A q : isObstacle(q)' = isObstacle(q)
  BY TreeStands
<1>3. CASE order[t].op = "checkCreateLink" /\ r # "failed"
  <2>1. proceeds(t, "symlink")
    BY <1>3 DEF dirAnswers
  <2>2. /\ dirPc' \in [Makers -> DirSteps] /\ outcome' \in [Makers -> Results] /\ dirPc'[t] = "symlink" /\ outcome'[t] = "pending"
        /\ \A u \in Makers \ {t} : dirPc'[u] = dirPc[u] /\ outcome'[u] = outcome[u]
    BY <1>1, <2>1, Proceeded DEF DirSteps
  <2>3. StepOf(t)
    BY <1>1, <2>2 DEF StepOf, DirTypes, Effects
  <2>4. DirPlaceInv(t)'
    BY <1>1, <1>3, <2>2 DEF DirPlaceInv, StepsOf
  <2>5. Carries(t)
    BY <1>2, <2>2 DEF Carries, isRemaking, isGood
  <2> QED
    BY <2>2, <2>3, <2>4, <2>5, NotYetAnswered, PassedKept DEF CallInv
<1>4. CASE ~(order[t].op = "checkCreateLink" /\ r # "failed")
  <2>1. answers(t, r)
    BY <1>4 DEF dirAnswers
  <2>2. /\ dirPc' \in [Makers -> DirSteps] /\ outcome' \in [Makers -> Results] /\ dirPc'[t] = "end" /\ outcome'[t] = r
        /\ \A u \in Makers \ {t} : dirPc'[u] = dirPc[u] /\ outcome'[u] = outcome[u]
    BY <1>1, <2>1, Answered DEF Results
  <2>3. StepOf(t)
    BY <1>1, <2>2 DEF StepOf, DirTypes, Effects
  <2>4. DirPlaceInv(t)'
    BY <1>1, <2>2 DEF DirPlaceInv, StepsOf
  <2>5. Carries(t)
    BY <1>1, <1>2, <1>4, <2>2 DEF Carries, isRemaking, isGood, hasTakenAway
  <2>6. AnswerInv(t)'
    <3>1. prefix(t)' = prefix(t) /\ order'[t] = order[t] /\ field'[t] = field[t]
      BY DEF prefix
    <3>2. \A q : hasObstacle(q)' = hasObstacle(q)
      BY <1>2 DEF hasObstacle
    <3> QED
      BY <1>1, <1>2, <2>2, <3>1, <3>2 DEF AnswerInv
  <2> QED
    BY <2>3, <2>4, <2>5, <2>6, PassedKept DEF CallInv
<1> QED
  BY <1>3, <1>4

LEMMA CheckFieldSteps ==
  ASSUME DirInv, NEW t \in Makers, checkField(t)
  PROVE  StepOf(t) /\ Carries(t) /\ CallInv(t)'
<1>1. dirPc[t] = "stat" /\ UNCHANGED <<tree, order>>
  BY DEF checkField
<1>2. /\ DirTypes /\ DirPlaceInv(t) /\ PassedInv(t) /\ outcome[t] = "pending" /\ field[t] \in Nat
      /\ order[t].op \in {"checkCreateDir", "checkCreateLink"}
      /\ order[t].op = "checkCreateLink" <=> t \in linkCalls
      /\ fieldNum(order[t]) \in Nat /\ Len(order[t].path) \in Nat
      /\ fieldNum(order[t]) \in {Len(order[t].path), Len(order[t].path) - 1} /\ field[t] <= fieldNum(order[t])
  BY <1>1, AtField
<1>3. linkCalls' = linkCalls /\ \A q : isMade(q)' = isMade(q)
  BY <1>1, TreeStands
<1>4. CASE isCut(order[t])
  BY <1>1, <1>4, DirEnded DEF checkField
<1>5. CASE ~isCut(order[t]) /\ field[t] = fieldNum(order[t])
  <2>1. dirAnswers(t, "done") /\ UNCHANGED field
    BY <1>5 DEF checkField
  <2>2. \A i \in 1..fieldNum(order[t]) : order[t].op = "checkCreateDir" => isMade(SubSeq(order[t].path, 1, i))
    BY <1>2, <1>5 DEF PassedInv
  <2> QED
    BY <1>1, <2>1, <2>2, DirEnded
<1>6. CASE ~isCut(order[t]) /\ field[t] # fieldNum(order[t]) /\ isHidden(t)
  BY <1>1, <1>6, DirEnded DEF checkField
<1>7. CASE ~isCut(order[t]) /\ field[t] # fieldNum(order[t]) /\ ~isHidden(t)
  <2>1. PICK p : p = prefix(t)
    OBVIOUS
  <2>2. field[t] < fieldNum(order[t]) /\ field[t] < Len(order[t].path)
    BY <1>2, <1>7
  <2>3. /\ Len(p) = field[t] + 1 /\ SubSeq(p, 1, field[t] + 1) = p
        /\ p = SubSeq(order[t].path, 1, field[t] + 1)
        /\ field[t] + 1 = Len(order[t].path) => p = order[t].path
    BY <2>1, <2>2, PrefixIs DEF prefix
  <2>4. hasParent(order[t].path) /\ order[t].path \notin DOMAIN tree /\ ~isMade(p) =>
          field[t] + 1 = Len(order[t].path) /\ kindOf(p) = "none"
    <3> SUFFICES ASSUME hasParent(order[t].path), order[t].path \notin DOMAIN tree, ~isMade(p)
                 PROVE  field[t] + 1 = Len(order[t].path) /\ kindOf(p) = "none"
      OBVIOUS
    <3>1. field[t] + 1 = Len(order[t].path)
      <4>1. field[t] + 1 \in 0..Len(order[t].path) - 1 => isMade(p)
        BY <2>3 DEF hasParent
      <4> QED
        BY <1>2, <2>2, <4>1
    <3>2. p = order[t].path
      BY <2>3, <3>1
    <3> QED
      BY <3>1, <3>2 DEF isMade, kindOf
  <2>5. CASE followed(p) = "dir"
    <3>1. nextField(t) /\ UNCHANGED <<dirPc, outcome>>
      BY <1>7, <2>1, <2>5 DEF checkField
    <3>2. /\ field' \in [Makers -> Nat] /\ field'[t] = field[t] + 1
          /\ \A u \in Makers \ {t} : field'[u] = field[u]
      BY <1>2, <3>1, Advanced
    <3>3. StepOf(t)
      BY <1>1, <1>2, <3>1, <3>2 DEF StepOf, DirTypes, Effects
    <3>4. DirPlaceInv(t)'
      BY <1>1, <1>2, <2>2, <3>1, <3>2 DEF DirPlaceInv, StepsOf
    <3>5. isMade(p)'
      BY <1>3, <2>5, FollowedIsMade
    <3>6. PassedInv(t)'
      BY <2>1, <3>2, <3>3, <3>5, PassedOne
    <3>7. Carries(t)
      BY <1>1, <1>2, <1>3, <3>1 DEF Carries, isRemaking, isGood
    <3> QED
      BY <1>2, <3>1, <3>3, <3>4, <3>6, <3>7, NotYetAnswered DEF CallInv
  <2>6. CASE followed(p) = "none"
    <3>1. proceeds(t, "create") /\ UNCHANGED field
      BY <1>7, <2>1, <2>6 DEF checkField
    <3>2. /\ dirPc' \in [Makers -> DirSteps] /\ outcome' \in [Makers -> Results] /\ dirPc'[t] = "create" /\ outcome'[t] = "pending"
          /\ \A u \in Makers \ {t} : dirPc'[u] = dirPc[u] /\ outcome'[u] = outcome[u]
      BY <1>2, <3>1, Proceeded DEF DirSteps
    <3>3. StepOf(t)
      BY <1>1, <1>2, <3>1, <3>2 DEF StepOf, DirTypes, Effects
    <3>4. DirPlaceInv(t)'
      BY <1>1, <1>2, <2>2, <3>1, <3>2 DEF DirPlaceInv, StepsOf
    <3>5. ~isMade(p)
      BY <2>6, FollowedIsMade
    <3>6. Carries(t)
      <4>1. ~isGood(t)'
        BY <3>2 DEF isGood
      <4>2. isRemaking(t) /\ order[t].path \notin DOMAIN tree /\ hasParent(order[t].path) => isRemaking(t)'
        <5> SUFFICES ASSUME isRemaking(t), order[t].path \notin DOMAIN tree, hasParent(order[t].path) PROVE isRemaking(t)'
          OBVIOUS
        <5>1. field'[t] = Len(order[t].path) - 1
          BY <1>2, <2>4, <3>1, <3>5
        <5> QED
          BY <1>1, <1>3, <3>2, <5>1 DEF isRemaking
      <4> QED
        BY <4>1, <4>2 DEF Carries
    <3> QED
      BY <3>1, <3>2, <3>3, <3>4, <3>6, NotYetAnswered, PassedKept DEF CallInv
  <2>7. CASE followed(p) \notin {"dir", "none"}
    <3>1. dirAnswers(t, "failed") /\ UNCHANGED field
      BY <1>7, <2>1, <2>7 DEF checkField
    <3>2. isObstacle(p) /\ ~isMade(p) /\ kindOf(p) # "none"
      BY <2>7 DEF followed, isObstacle, isMade
    <3>3. field[t] + 1 \in 1..Len(p)
      BY <1>2, <2>3
    <3>5. isObstacle(SubSeq(p, 1, field[t] + 1))
      BY ONLY <2>3, <3>2
    <3>4. hasObstacle(p)
      BY <3>3, <3>5 DEF hasObstacle
    <3> QED
      BY <1>1, <2>1, <2>2, <2>4, <3>1, <3>2, <3>4, DirEnded
  <2> QED
    BY <2>5, <2>6, <2>7
<1> QED
  BY <1>4, <1>5, <1>6, <1>7

LEMMA CreateFieldSteps ==
  ASSUME DirInv, NEW t \in Makers, createField(t)
  PROVE  StepOf(t) /\ Carries(t) /\ CallInv(t)'
<1>1. dirPc[t] = "create" /\ UNCHANGED order
  BY DEF createField
<1>2. /\ DirTypes /\ DirPlaceInv(t) /\ outcome[t] = "pending" /\ field[t] \in Nat /\ order[t] \in Orders
      /\ order[t].op \in {"checkCreateDir", "checkCreateLink"}
      /\ order[t].op = "checkCreateLink" <=> t \in linkCalls
      /\ fieldNum(order[t]) \in Nat /\ Len(order[t].path) \in Nat
      /\ fieldNum(order[t]) \in {Len(order[t].path), Len(order[t].path) - 1} /\ field[t] < fieldNum(order[t])
  BY <1>1, AtField
<1>3. field[t] < Len(order[t].path)
  BY <1>2
<1>4. PICK p : p = prefix(t)
  OBVIOUS
<1>5. /\ p # <<>> /\ pathOK(p) /\ p \in prefixes(order[t].path)
      /\ field[t] + 1 = Len(order[t].path) => p = order[t].path
  BY <1>3, <1>4, PrefixIs
<1>6. CASE mayMake(p)
  <2>1. entersAt(p, aDir) /\ nextField(t) /\ proceeds(t, "stat")
    BY <1>4, <1>6 DEF createField
  <2>2. /\ dirPc' \in [Makers -> DirSteps] /\ outcome' \in [Makers -> Results] /\ dirPc'[t] = "stat" /\ outcome'[t] = "pending"
        /\ \A u \in Makers \ {t} : dirPc'[u] = dirPc[u] /\ outcome'[u] = outcome[u]
    BY <1>2, <2>1, Proceeded DEF DirSteps
  <2>3. /\ field' \in [Makers -> Nat] /\ field'[t] = field[t] + 1
        /\ \A u \in Makers \ {t} : field'[u] = field[u]
    BY <1>2, <2>1, Advanced
  <2>4. Effects(t)
    BY <1>2, <1>5, <1>6, <2>1 DEF Effects, EntersDir
  <2>5. isMade(p)'
    <3>1. kindOf(p)' = aDir.kind
      BY <1>5, <1>6, <2>1, EnteredIs
    <3> QED
      BY <3>1 DEF isMade, aDir
  <2>6. StepOf(t)
    BY <1>1, <1>2, <2>2, <2>3, <2>4 DEF StepOf, DirTypes
  <2>7. DirPlaceInv(t)'
    BY <1>1, <1>2, <2>2, <2>3 DEF DirPlaceInv, StepsOf
  <2>8. PassedInv(t)'
    BY <1>4, <2>3, <2>5, <2>6, PassedOne
  <2>9. Carries(t)
    <3>1. linkCalls' = linkCalls
      BY <1>1 DEF linkCalls
    <3> QED
      BY <1>1, <2>2, <3>1 DEF Carries, isRemaking, isGood
  <2> QED
    BY <2>2, <2>6, <2>7, <2>8, <2>9, NotYetAnswered DEF CallInv
<1>7. CASE ~mayMake(p)
  <2>1. dirAnswers(t, "failed") /\ UNCHANGED <<tree, field>>
    BY <1>4, <1>7 DEF createField
  <2>2. isMade(p) \/ hasObstacle(p)
    BY <1>3, <1>4, <1>7, Blocked
  <2>3. ~(isRemaking(t) /\ hasParent(order[t].path) /\ order[t].path \notin DOMAIN tree)
    <3>1. isRemaking(t) => field[t] + 1 = Len(order[t].path)
      BY <1>1, <1>2 DEF isRemaking
    <3> QED
      BY <1>5, <1>7, <3>1 DEF mayMake
  <2> QED
    BY <1>1, <1>2, <1>4, <2>1, <2>2, <2>3, DirEnded
<1> QED
  BY <1>6, <1>7

-----------------------------------------------------------------------------
(* checkCreateLink *)

LEMMA AtLink ==
  ASSUME DirInv, NEW t \in Makers, dirPc[t] \in {"access", "accessLink", "readlink", "unlink", "symlink"}
  PROVE  /\ DirTypes /\ DirPlaceInv(t) /\ outcome[t] = "pending" /\ field[t] \in Nat
         /\ order[t] \in Orders /\ order[t].op = "checkCreateLink" /\ t \in linkCalls
         /\ fieldNum(order[t]) \in Nat
<1>1. DirTypes /\ DirPlaceInv(t) /\ field[t] \in Nat
  BY DEF DirInv, CallInv, DirTypes
<1>2. /\ order[t] \in Orders /\ order[t].op \in {"mkdirs", "checkCreateDir", "checkCreateLink"}
      /\ order[t].op = "checkCreateLink" <=> t \in linkCalls
      /\ fieldNum(order[t]) \in Nat
  BY <1>1, OrderIsOK
<1>3. order[t].op = "checkCreateLink"
  BY <1>1, <1>2 DEF DirPlaceInv, StepsOf
<1> QED
  BY <1>1, <1>2, <1>3 DEF DirPlaceInv

\* A call that looks and goes on.
LEMMA LinkGoesOn ==
  ASSUME DirInv, NEW t \in Makers, dirPc[t] \in {"access", "accessLink", "readlink"}, UNCHANGED <<tree, order, field>>,
         NEW s \in {"accessLink", "readlink", "stat", "unlink"}, proceeds(t, s),
         s \in {"stat", "unlink"} => order[t].path # <<>>, s = "unlink" => order[t].recreate /\ ~order[t].slash
  PROVE  StepOf(t) /\ Carries(t) /\ CallInv(t)'
<1>1. /\ DirTypes /\ DirPlaceInv(t) /\ outcome[t] = "pending" /\ order[t].op = "checkCreateLink" /\ fieldNum(order[t]) \in Nat
  BY AtLink
<1>2. /\ dirPc' \in [Makers -> DirSteps] /\ outcome' \in [Makers -> Results] /\ dirPc'[t] = s /\ outcome'[t] = "pending"
      /\ \A u \in Makers \ {t} : dirPc'[u] = dirPc[u] /\ outcome'[u] = outcome[u]
  BY <1>1, Proceeded DEF DirSteps
<1>3. StepOf(t)
  BY <1>1, <1>2 DEF StepOf, DirTypes, Effects
<1>4. DirPlaceInv(t)'
  BY <1>1, <1>2 DEF DirPlaceInv, StepsOf
<1>5. Carries(t)
  BY <1>2 DEF Carries, isRemaking, isGood
<1> QED
  BY <1>2, <1>3, <1>4, <1>5, NotYetAnswered, PassedKept DEF CallInv

\* A call that ends without a change of the tree.
LEMMA LinkEnds ==
  ASSUME DirInv, NEW t \in Makers, dirPc[t] \in {"access", "accessLink", "readlink", "symlink"}, UNCHANGED <<tree, order, field>>,
         NEW r \in {"done", "failed"}, answers(t, r),
         r = "done" => order[t].path \in DOMAIN tree /\ tree[order[t].path] = linkTo(order[t].target),
         dirPc[t] = "symlink" => order[t].slash \/ ~(hasParent(order[t].path) /\ order[t].path \notin DOMAIN tree)
  PROVE  StepOf(t) /\ Carries(t) /\ CallInv(t)'
<1>1. /\ DirTypes /\ DirPlaceInv(t) /\ order[t].op = "checkCreateLink"
  BY AtLink
<1>2. /\ dirPc' \in [Makers -> DirSteps] /\ outcome' \in [Makers -> Results] /\ dirPc'[t] = "end" /\ outcome'[t] = r
      /\ \A u \in Makers \ {t} : dirPc'[u] = dirPc[u] /\ outcome'[u] = outcome[u]
  BY <1>1, Answered DEF Results
<1>3. StepOf(t)
  BY <1>1, <1>2 DEF StepOf, DirTypes, Effects
<1>4. DirPlaceInv(t)'
  BY <1>1, <1>2 DEF DirPlaceInv, StepsOf
<1>5. Carries(t)
  BY <1>2 DEF Carries, isRemaking, isGood
<1>6. AnswerInv(t)'
  BY <1>1 DEF AnswerInv
<1> QED
  BY <1>3, <1>4, <1>5, <1>6, PassedKept DEF CallInv

LEMMA AccessTargetSteps ==
  ASSUME DirInv, NEW t \in Makers, accessTarget(t)
  PROVE  StepOf(t) /\ Carries(t) /\ CallInv(t)'
<1>1. dirPc[t] = "access" /\ UNCHANGED <<tree, order, field>> /\ (answers(t, "failed") \/ proceeds(t, "accessLink"))
  BY DEF accessTarget
<1> QED
  BY <1>1, LinkGoesOn, LinkEnds

LEMMA AccessLinkSteps ==
  ASSUME DirInv, NEW t \in Makers, accessLink(t)
  PROVE  StepOf(t) /\ Carries(t) /\ CallInv(t)'
<1>1. /\ dirPc[t] = "accessLink" /\ UNCHANGED <<tree, order, field>>
      /\ \/ answers(t, "failed")
         \/ proceeds(t, "readlink")
         \/ followed(order[t].path) = "none" /\ proceeds(t, "stat")
  BY DEF accessLink, noDirectory
<1>2. followed(order[t].path) = "none" => order[t].path # <<>>
  BY DEF followed, kindOf
<1> QED
  BY <1>1, <1>2, LinkGoesOn, LinkEnds

LEMMA ReadLinkSteps ==
  ASSUME DirInv, NEW t \in Makers, readLink(t)
  PROVE  StepOf(t) /\ Carries(t) /\ CallInv(t)'
<1>1. PICK p : p = order[t].path
  OBVIOUS
<1>2. dirPc[t] = "readlink" /\ UNCHANGED <<tree, order, field>>
  BY DEF readLink
<1>3. \/ answers(t, "failed")
      \/ kindOf(p) = "link" /\ tree[p].to = order[t].target /\ answers(t, "done")
      \/ kindOf(p) = "link" /\ order[t].recreate /\ ~order[t].slash /\ proceeds(t, "unlink")
  BY <1>1 DEF readLink
<1>4. kindOf(p) = "link" => p # <<>> /\ p \in DOMAIN tree /\ tree[p] = linkTo(tree[p].to)
  BY DEF kindOf, DirInv, TreeInv, NodeInv
<1> QED
  BY <1>1, <1>2, <1>3, <1>4, LinkGoesOn, LinkEnds

LEMMA UnlinkSteps ==
  ASSUME DirInv, NEW t \in Makers, unlink(t)
  PROVE  StepOf(t) /\ Carries(t) /\ CallInv(t)'
<1>1. dirPc[t] = "unlink" /\ proceeds(t, "stat") /\ UNCHANGED <<order, field>>
  BY DEF unlink
<1>2. /\ DirTypes /\ DirPlaceInv(t) /\ outcome[t] = "pending" /\ field[t] \in Nat
      /\ order[t].op = "checkCreateLink" /\ t \in linkCalls /\ fieldNum(order[t]) \in Nat
  BY <1>1, AtLink
<1>3. /\ dirPc' \in [Makers -> DirSteps] /\ outcome' \in [Makers -> Results] /\ dirPc'[t] = "stat" /\ outcome'[t] = "pending"
      /\ \A u \in Makers \ {t} : dirPc'[u] = dirPc[u] /\ outcome'[u] = outcome[u]
  BY <1>1, <1>2, Proceeded DEF DirSteps
<1>4. isRemaking(t)'
  <2>1. linkCalls' = linkCalls /\ order' = order
    BY <1>1 DEF linkCalls
  <2> QED
    BY <1>1, <1>2, <1>3, <2>1 DEF isRemaking, DirPlaceInv
<1>5. Effects(t)
  BY <1>2, <1>4 DEF unlink, Effects, Unlinks, mayUnlink
<1>6. StepOf(t)
  BY <1>1, <1>2, <1>3, <1>5 DEF StepOf, DirTypes
<1>7. DirPlaceInv(t)'
  BY <1>1, <1>2, <1>3 DEF DirPlaceInv, StepsOf
<1>8. Carries(t)
  BY <1>1, <1>3 DEF Carries, isRemaking, isGood
<1> QED
  BY <1>1, <1>3, <1>6, <1>7, <1>8, NotYetAnswered, PassedKept DEF CallInv

LEMMA SymlinkSteps ==
  ASSUME DirInv, NEW t \in Makers, symlink(t)
  PROVE  StepOf(t) /\ Carries(t) /\ CallInv(t)'
<1>1. dirPc[t] = "symlink" /\ UNCHANGED <<order, field>>
  BY DEF symlink
<1>2. DirTypes /\ DirPlaceInv(t) /\ order[t].op = "checkCreateLink" /\ t \in linkCalls
  BY <1>1, AtLink
<1>3. CASE mayMake(order[t].path) /\ ~order[t].slash
  <2>1. PICK p, n : p = order[t].path /\ n = linkTo(order[t].target)
    OBVIOUS
  <2>2. entersAt(p, n) /\ answers(t, "done") /\ mayMake(p) /\ p # <<>>
    BY <1>1, <1>2, <1>3, <2>1 DEF symlink, DirPlaceInv
  <2>3. /\ dirPc' \in [Makers -> DirSteps] /\ outcome' \in [Makers -> Results] /\ dirPc'[t] = "end" /\ outcome'[t] = "done"
        /\ \A u \in Makers \ {t} : dirPc'[u] = dirPc[u] /\ outcome'[u] = outcome[u]
    BY <1>2, <2>2, Answered DEF Results
  <2>4. Effects(t)
    BY <1>2, <2>1, <2>2, <2>3 DEF Effects, EntersLink
  <2>5. StepOf(t)
    BY <1>1, <1>2, <2>3, <2>4 DEF StepOf, DirTypes
  <2>6. DirPlaceInv(t)'
    BY <1>1, <1>2, <2>3 DEF DirPlaceInv, StepsOf
  <2>7. Carries(t)
    <3>1. p \in DOMAIN tree' /\ tree'[p] = n
      BY <2>2, EnteredIs
    <3> QED
      BY <2>1, <3>1 DEF Carries
  <2>8. AnswerInv(t)'
    BY <1>1, <1>2 DEF AnswerInv
  <2> QED
    BY <1>1, <2>5, <2>6, <2>7, <2>8, PassedKept DEF CallInv
<1>4. CASE ~mayMake(order[t].path) \/ order[t].slash
  <2>1. answers(t, "failed") /\ UNCHANGED tree
    BY <1>4 DEF symlink
  <2>2. order[t].slash \/ ~(hasParent(order[t].path) /\ order[t].path \notin DOMAIN tree)
    BY <1>4 DEF mayMake
  <2> QED
    BY <1>1, <2>1, <2>2, LinkEnds
<1> QED
  BY <1>3, <1>4

-----------------------------------------------------------------------------

LEMMA DirStarts == DirInit => DirInv
<1> SUFFICES ASSUME DirInit PROVE DirInv
  OBVIOUS
<1>1. tree \in Trees /\ order \in [Makers -> Orders]
      /\ dirPc = [t \in Makers |-> firstCall(order[t])]
      /\ field = [t \in Makers |-> 0] /\ outcome = [t \in Makers |-> "pending"]
  BY DEF DirInit
<1>2. ASSUME NEW t \in Makers
      PROVE  /\ \/ order[t].op = "mkdirs" /\ dirPc[t] = "lstat"
                \/ order[t].op = "checkCreateDir" /\ dirPc[t] = "stat"
                \/ order[t].op = "checkCreateLink" /\ dirPc[t] = "access"
             /\ order[t] \in Orders /\ orderOK(order[t])
  <2>1. order[t] \in Orders /\ dirPc[t] = firstCall(order[t])
    BY <1>1
  <2>2. orderOK(order[t])
    BY <2>1, DirAssumption
  <2>3. order[t].op \in {"mkdirs", "checkCreateDir", "checkCreateLink"}
    BY <2>2 DEF orderOK
  <2> QED
    BY <2>1, <2>2, <2>3 DEF firstCall
<1>3. DirTypes
  BY <1>1, <1>2 DEF DirTypes, DirSteps, Results
<1>4. ASSUME NEW p \in DOMAIN tree PROVE NodeInv(p)
  <2>1. /\ pathOK(p) /\ p # <<>> /\ tree[p].kind \in {"dir", "file", "link"} /\ tree[p] = [kind |-> tree[p].kind, to |-> tree[p].to]
        /\ \A q \in prefixes(p) \ {p} : q \in DOMAIN tree /\ tree[q].kind = "dir"
    BY <1>1, DirAssumption DEF nodeOK
  <2>2. hasParent(p)
    <3>1. SUFFICES ASSUME NEW i \in 0..Len(p) - 1 PROVE isMade(SubSeq(p, 1, i))
      BY DEF hasParent
    <3>2. Len(p) \in Nat /\ i \in 0..Len(p) /\ i # Len(p)
      BY <2>1, CutOfPath
    <3>3. Len(SubSeq(p, 1, i)) = i /\ SubSeq(p, 1, 0) = <<>>
      BY <2>1, <3>2, CutOfPath
    <3>4. CASE i = 0
      BY <3>3, <3>4 DEF isMade, kindOf
    <3>5. CASE i # 0
      <4>1. SubSeq(p, 1, i) # p
        BY <3>2, <3>3
      <4>2. SubSeq(p, 1, i) \in prefixes(p)
        BY <3>2, <3>5 DEF prefixes
      <4> QED
        BY <2>1, <4>1, <4>2 DEF isMade, kindOf
    <3> QED
      BY <3>4, <3>5
  <2>3. tree[p].kind = "link" => tree[p] = linkTo(tree[p].to) /\ tree[p].to \in targets
    BY <1>1, <2>1 DEF linkTo, targets
  <2> QED
    BY <2>1, <2>2, <2>3 DEF NodeInv
<1>5. ASSUME NEW q \in targets PROVE TargetInv(q)
  <2>1. staysFile(q) => kindOf(q) = "file"
    <3>1. staysFile(q) => q \in DOMAIN tree /\ tree[q].kind = "file"
      BY <1>1 DEF staysFile
    <3> QED
      BY <1>4, <3>1 DEF kindOf, NodeInv
  <2>2. staysAway(q) => kindOf(q) # "dir"
    BY <1>1 DEF staysAway, kindOf
  <2> QED
    BY <2>1, <2>2 DEF TargetInv
<1>6. ASSUME NEW t \in Makers PROVE CallInv(t) /\ LinkInv(t)
  <2>1. fieldNum(order[t]) \in Nat
    BY <1>3, OrderIsOK
  <2>2. field[t] = 0 /\ outcome[t] = "pending"
    BY <1>1
  <2>3. DirPlaceInv(t)
    BY <1>2, <2>1, <2>2 DEF DirPlaceInv, StepsOf
  <2>4. PassedInv(t) /\ AnswerInv(t) /\ LinkInv(t)
    BY <2>2 DEF PassedInv, AnswerInv, LinkInv, isGood
  <2> QED
    BY <2>3, <2>4 DEF CallInv
<1> QED
  BY <1>3, <1>4, <1>5, <1>6 DEF DirInv, TreeInv

LEMMA DirStep ==
  ASSUME DirInv, DirNext \/ UNCHANGED dirVars
  PROVE  DirInv'
<1>1. CASE UNCHANGED dirVars
  <2>1. UNCHANGED <<tree, order, dirPc, field, outcome>>
    BY <1>1 DEF dirVars
  <2>2. linkCalls' = linkCalls /\ (\A q : kindOf(q)' = kindOf(q) /\ isMade(q)' = isMade(q)) /\ \A q : isObstacle(q)' = isObstacle(q)
    BY <2>1, TreeStands
  <2>3. \A q : hasParent(q)' = hasParent(q) /\ hasObstacle(q)' = hasObstacle(q)
    BY <2>2 DEF hasParent, hasObstacle
  <2>4. TreeInv'
    BY <2>1, <2>2, <2>3 DEF DirInv, TreeInv, NodeInv, TargetInv
  <2>5. ASSUME NEW t \in Makers PROVE CallInv(t)' /\ LinkInv(t)'
    <3>1. CallInv(t) /\ LinkInv(t) /\ prefix(t)' = prefix(t)
      BY <2>1 DEF DirInv, prefix
    <3>2. DirPlaceInv(t)' /\ PassedInv(t)' /\ AnswerInv(t)'
      BY <2>1, <2>2, <2>3, <3>1 DEF CallInv, DirPlaceInv, PassedInv, AnswerInv
    <3>3. LinkInv(t)'
      <4>1. isGood(t)' = isGood(t) /\ \A u \in Makers : /\ isGood(u)' = isGood(u) /\ isRemaking(u)' = isRemaking(u)
                                                       /\ hasTakenAway(u)' = hasTakenAway(u)
        BY <2>1, <2>2 DEF isGood, isRemaking, hasTakenAway
      <4>2. \A p : Relinked(p) => Relinked(p)'
        BY <2>1, <2>2, <2>3, <4>1 DEF Relinked
      <4>3. PICK p : p = order[t].path
        OBVIOUS
      <4>4. order[t].path' = p
        BY <2>1, <4>3
      <4> QED
        BY <3>1, <4>1, <4>2, <4>3, <4>4 DEF LinkInv
    <3> QED
      BY <3>2, <3>3 DEF CallInv
  <2> QED
    BY <2>1, <2>4, <2>5 DEF DirInv, DirTypes
<1>2. CASE DirNext
  <2>1. PICK t \in Makers : makes(t)
    BY <1>2 DEF DirNext
  <2>2. StepOf(t) /\ Carries(t) /\ CallInv(t)'
    BY <2>1, LstatSteps, MkdirSteps, MkdirLastSteps, CheckFieldSteps, CreateFieldSteps, AccessTargetSteps,
       AccessLinkSteps, ReadLinkSteps, UnlinkSteps, SymlinkSteps DEF makes
  <2> QED
    BY <2>2, StepKeeps
<1> QED
  BY <1>1, <1>2

LEMMA DirEnds == DirInv => DirectoriesSafe
<1> SUFFICES ASSUME DirInv PROVE MkdirsMakes /\ CheckedAreThere /\ LinkIsThere
  BY DEF DirectoriesSafe
<1>1. \A t \in Makers : AnswerInv(t) /\ LinkInv(t) /\ DirPlaceInv(t)
  BY DEF DirInv, CallInv
<1>2. ASSUME NEW p, hasObstacle(p) PROVE obstacles(p) # {}
  <2>1. PICK i \in 1..Len(p) : isObstacle(SubSeq(p, 1, i))
    BY <1>2 DEF hasObstacle
  <2>2. SubSeq(p, 1, i) \in prefixes(p)
    BY DEF prefixes
  <2>3. SubSeq(p, 1, i) \in obstacles(p)
    BY <2>1, <2>2 DEF obstacles, isObstacle
  <2> QED
    BY <2>3
<1>3. MkdirsMakes
  BY <1>1, <1>2 DEF MkdirsMakes, AnswerInv
<1>4. CheckedAreThere
  <2> SUFFICES ASSUME NEW t \in Makers, order[t].op = "checkCreateDir", ~isCut(order[t])
               PROVE  /\ outcome[t] = "done" => \A p \in {SubSeq(order[t].path, 1, i) : i \in 1..fieldNum(order[t])} : followed(p) = "dir"
                      /\ outcome[t] = "failed" => isMade(prefix(t)) \/ obstacles(prefix(t)) # {}
    BY DEF CheckedAreThere
  <2>1. AnswerInv(t)
    BY <1>1
  <2> QED
    BY <1>2, <2>1, FollowedIsMade DEF AnswerInv
<1>5. LinkIsThere
  <2> DEFINE good == {u \in linkCalls : outcome[u] = "done"}
  <2> SUFFICES ASSUME \A u \in linkCalls : outcome[u] # "pending", NEW t \in good
               PROVE  \/ isMade(order[t].path)
                      \/ \E u \in linkCalls \ good : order[u].path = order[t].path /\ order[u].recreate /\ isCut(order[u])
                      \/ \E u \in good : /\ order[u].path = order[t].path /\ order[u].path \in DOMAIN tree
                                        /\ tree[order[u].path] = linkTo(order[u].target)
    BY DEF LinkIsThere
  <2>1. PICK p : p = order[t].path
    OBVIOUS
  <2>2. Relinked(p)
    BY <1>1, <2>1 DEF LinkInv, isGood, linkCalls
  <2>3. \A u \in Makers : ~isRemaking(u)
    BY <1>1 DEF isRemaking, DirPlaceInv
  <2>4. \A u \in Makers : hasTakenAway(u) => u \in linkCalls \ good
    BY DEF hasTakenAway
  <2>5. \A u \in Makers : isGood(u) => u \in good
    BY DEF isGood
  <2> HIDE DEF good
  <2> QED
    BY <2>1, <2>2, <2>3, <2>4, <2>5 DEF Relinked, hasTakenAway
<1> QED
  BY <1>3, <1>4, <1>5

\* Whatever the makers do at the same time, what mkdirs and checkCreateDir report is so, and
\* a link that checkCreateLink reports is not lost to another that makes it anew
\* (fileutil.cpp:22-54, Utility.cpp:300-360).
THEOREM DirectoriesAreMade == Spec => []DirectoriesSafe
<1>1. Init => DirInv
  BY DirStarts DEF Init
<1>2. DirInv /\ [Next]_vars => DirInv'
  BY DirStep DEF Next, only, vars
<1> QED
  BY <1>1, <1>2, DirEnds, PTL DEF Spec

-----------------------------------------------------------------------------
(* PidFile: what is written and read *)

Texts == Seq(0..9 \cup {NewLine, NoFileYet})

LEMMA LineOfPid ==
  ASSUME NEW p \in Pids
  PROVE  /\ p \in Seq(0..9) /\ Len(p) \in Nat /\ pidLine(p) \in Texts /\ Len(pidLine(p)) = Len(p) + 1
         /\ \A i \in 1..Len(p) : p[i] \in 0..9 /\ pidLine(p)[i] = p[i]
         /\ pidLine(p)[Len(p) + 1] = NewLine
<1>1. p \in Seq(0..9) /\ Len(p) \in Nat
  BY PidAssumption
<1>2. p \in Texts /\ NewLine \in 0..9 \cup {NewLine, NoFileYet}
  BY <1>1 DEF Texts
<1>3. pidLine(p) \in Texts /\ Len(pidLine(p)) = Len(p) + 1
  BY <1>1, <1>2 DEF pidLine, Texts
<1>4. ASSUME NEW i \in 1..Len(p) PROVE p[i] \in 0..9 /\ pidLine(p)[i] = p[i]
  BY <1>1 DEF pidLine
<1>5. pidLine(p)[Len(p) + 1] = NewLine
  BY <1>1 DEF pidLine
<1> QED
  BY <1>1, <1>3, <1>4, <1>5

LEMMA OverwrittenBegins ==
  ASSUME pidText \in Texts, NEW s \in Texts
  PROVE  /\ overwritten(s) \in Texts /\ IsPrefix(s, overwritten(s))
         /\ s = <<>> => overwritten(s) = pidText
<1>1. Len(pidText) \in Nat /\ Len(s) \in Nat
  BY DEF Texts
<1> DEFINE rest == SubSeq(pidText, Len(s) + 1, Len(pidText))
<1>2. rest \in Texts
  BY <1>1 DEF Texts
<1>3. overwritten(s) \in Texts /\ Len(overwritten(s)) = Len(s) + Len(rest) /\ Len(rest) \in Nat
  BY <1>1, <1>2 DEF overwritten, Texts
<1>4. \A i \in 1..Len(s) : overwritten(s)[i] = s[i]
  BY <1>1, <1>2 DEF overwritten, Texts
<1>5. IsPrefix(s, overwritten(s))
  BY <1>1, <1>3, <1>4 DEF IsPrefix, Texts
<1>6. s = <<>> => overwritten(s) = pidText
  BY <1>1 DEF overwritten, Texts
<1> QED
  BY <1>3, <1>5, <1>6

\* A number has no end of a line in it, so the first line of a file that begins with the
\* line of a process is its number.
LEMMA FirstLineNames ==
  ASSUME pidText \in Texts, NEW p \in Pids, IsPrefix(pidLine(p), pidText)
  PROVE  existPid \subseteq {p, noPid} /\ pidText \notin {<<>>, <<NoFileYet>>}
<1>1. Len(pidText) \in Nat /\ Len(p) \in Nat /\ pidText = [i \in 1..Len(pidText) |-> pidText[i]]
  BY LineOfPid DEF Texts
<1>2. Len(p) + 1 <= Len(pidText) /\ \A i \in 1..Len(p) + 1 : pidText[i] = pidLine(p)[i]
  <2> DEFINE n == Len(p) + 1
             s == pidLine(p)
  <2>1. s \in Texts /\ Len(s) = n /\ n \in Nat
    BY <1>1, LineOfPid
  <2>2. IsPrefix(s, pidText)
    OBVIOUS
  <2> HIDE DEF n, s
  <2>3. n <= Len(pidText) /\ SubSeq(s, 1, n) = SubSeq(pidText, 1, n)
    BY <2>1, <2>2 DEF IsPrefix
  <2>4. ASSUME NEW i \in 1..n PROVE pidText[i] = s[i]
    <3>1. SubSeq(s, 1, n)[i] = s[i]
      BY <2>1 DEF Texts
    <3>2. SubSeq(pidText, 1, n)[i] = pidText[i]
      BY <1>1, <2>1, <2>3 DEF Texts
    <3> QED
      BY <2>3, <3>1, <3>2
  <2> QED
    BY <2>3, <2>4 DEF n, s
<1>3. pidText[Len(p) + 1] = NewLine /\ \A i \in 1..Len(p) : pidText[i] = p[i] /\ pidText[i] # NewLine /\ pidText[i] # NoFileYet
  <2>1. Len(p) + 1 \in 1..Len(p) + 1 /\ \A i \in 1..Len(p) : i \in 1..Len(p) + 1
    BY <1>1
  <2>2. pidText[Len(p) + 1] = NewLine
    BY <1>2, <2>1, LineOfPid
  <2>3. ASSUME NEW i \in 1..Len(p) PROVE pidText[i] = p[i] /\ p[i] \in 0..9
    <3>1. pidLine(p)[i] = p[i] /\ p[i] \in 0..9
      BY LineOfPid
    <3>2. pidText[i] = pidLine(p)[i]
      BY <1>2, <2>1
    <3> QED
      BY <3>1, <3>2
  <2> QED
    BY <2>2, <2>3 DEF NewLine, NoFileYet
<1>4. pidText # <<>> /\ pidText # <<NoFileYet>>
  BY <1>1, <1>2, <1>3 DEF NewLine, NoFileYet
<1> DEFINE ends == {i \in 1..Len(pidText) : pidText[i] = NewLine}
           first == CHOOSE i \in ends : \A j \in ends : i <= j
<1>5. Len(p) + 1 \in ends /\ \A j \in ends : Len(p) + 1 <= j
  BY <1>1, <1>2, <1>3
<1>6. first \in ends /\ \A j \in ends : first <= j
  BY <1>5
<1>7. first = Len(p) + 1
  BY <1>1, <1>5, <1>6
<1>8. SubSeq(pidText, 1, first - 1) = p
  <2> HIDE DEF first
  <2>1. first - 1 = Len(p)
    BY <1>1, <1>7
  <2>2. SubSeq(pidText, 1, Len(p)) \in Seq(0..9 \cup {NewLine, NoFileYet}) /\ Len(SubSeq(pidText, 1, Len(p))) = Len(p)
        /\ \A i \in 1..Len(p) : SubSeq(pidText, 1, Len(p))[i] = pidText[i]
    BY <1>1, <1>2 DEF Texts
  <2>3. SubSeq(pidText, 1, Len(p)) = p
    BY <1>1, <1>3, <2>2, LineOfPid
  <2> QED
    BY <2>1, <2>3
<1>9. existPid = IF p \in alivePids THEN {p} ELSE {noPid}
  BY <1>4, <1>5, <1>8 DEF existPid
<1> QED
  BY <1>4, <1>9

-----------------------------------------------------------------------------
(* PidFile: the steps *)

\* The process whose number the file begins with.
IsOf(p) == daemon[p] \in {"written", "running", "gone"} /\ IsPrefix(pidLine(p), pidText)
PidInv == PidTypeOK /\ (halfWritten \/ pidText \in {<<>>, <<NoFileYet>>} \/ \E p \in Pids : IsOf(p))

LEMMA PidStarts == PidInit => PidInv
<1> SUFFICES ASSUME PidInit PROVE PidInv
  OBVIOUS
<1>1. pidText = <<NoFileYet>> /\ pidLock = {} /\ daemon = [p \in Pids |-> "new"] /\ halfWritten = FALSE
  BY DEF PidInit
<1>2. NoFileYet \in 0..9 \cup {NewLine, NoFileYet}
  OBVIOUS
<1>3. <<NoFileYet>> \in Seq(0..9 \cup {NewLine, NoFileYet})
  BY <1>2
<1>4. daemon \in [Pids -> DaemonSteps]
  BY <1>1 DEF DaemonSteps
<1> QED
  BY <1>1, <1>3, <1>4 DEF PidInv, PidTypeOK

LEMMA PidEnds == PidInv => PidFileNamesOne
  BY FirstLineNames DEF PidInv, PidTypeOK, Texts, IsOf, PidFileNamesOne

\* A step that leaves the file alone also leaves the process that wrote it.
LEMMA FileStands ==
  ASSUME PidInv, NEW p \in Pids, NEW step \in DaemonSteps, becomes(p, step), UNCHANGED pidText,
         daemon[p] \in {"written", "running", "gone"} => step \in {"running", "gone"},
         pidLock' \in SUBSET Pids, halfWritten' \in BOOLEAN, halfWritten => halfWritten'
  PROVE  PidInv'
<1>1. PidTypeOK'
  BY DEF PidInv, PidTypeOK, becomes
<1>2. ASSUME NEW q \in Pids, IsOf(q) PROVE IsOf(q)'
  <2>1. daemon'[q] \in {"written", "running", "gone"}
    BY <1>2 DEF PidInv, PidTypeOK, becomes, IsOf
  <2> QED
    BY <1>2, <2>1 DEF IsOf, pidLine
<1> QED
  BY <1>1, <1>2 DEF PidInv

LEMMA WriteNumberSteps ==
  ASSUME PidInv, NEW p \in Pids, writeNumber(p)
  PROVE  PidInv'
<1>1. daemon[p] = "locked" /\ PidTypeOK /\ pidText \in Texts
  BY DEF writeNumber, PidInv, PidTypeOK, Texts
<1>2. pidLine(p) \in Texts /\ Len(pidLine(p)) \in Nat
  BY LineOfPid
<1>3. PICK n \in 0..Len(pidLine(p)) :
        /\ pidText' = overwritten(SubSeq(pidLine(p), 1, n))
        /\ IF n = Len(pidLine(p)) THEN becomes(p, "written") /\ UNCHANGED <<pidLock, halfWritten>>
           ELSE becomes(p, "gone") /\ pidLock' = pidLock \ {p} /\ halfWritten' = (halfWritten \/ n > 0)
  BY DEF writeNumber
<1>4. SubSeq(pidLine(p), 1, n) \in Texts
  BY <1>2, <1>3 DEF Texts
<1>5. pidText' \in Texts
  BY <1>1, <1>3, <1>4, OverwrittenBegins
<1>6. CASE n = Len(pidLine(p))
  <2>1. SubSeq(pidLine(p), 1, n) = pidLine(p)
    BY <1>2, <1>6 DEF Texts
  <2>2. IsPrefix(pidLine(p), pidText')
    BY <1>1, <1>2, <1>3, <2>1, OverwrittenBegins
  <2>3. becomes(p, "written") /\ UNCHANGED <<pidLock, halfWritten>>
    BY <1>3, <1>6
  <2>4. PidTypeOK' /\ daemon'[p] = "written"
    BY <1>1, <1>5, <2>3 DEF PidTypeOK, becomes, DaemonSteps, Texts
  <2>5. IsOf(p)'
    BY <2>2, <2>4 DEF IsOf, pidLine
  <2> QED
    BY <2>4, <2>5 DEF PidInv
<1>7. CASE n # Len(pidLine(p)) /\ n = 0
  <2>1. SubSeq(pidLine(p), 1, n) = <<>>
    BY <1>2, <1>7 DEF Texts
  <2>2. UNCHANGED pidText
    BY <1>1, <1>3, <1>4, <2>1, OverwrittenBegins
  <2>3. becomes(p, "gone") /\ pidLock' = pidLock \ {p} /\ halfWritten' = halfWritten
    <3>1. halfWritten' = (halfWritten \/ n > 0) /\ ~(n > 0)
      BY <1>3, <1>7
    <3>2. halfWritten \in BOOLEAN
      BY <1>1 DEF PidTypeOK
    <3> QED
      BY <1>3, <1>7, <3>1, <3>2
  <2> QED
    BY <1>1, <2>2, <2>3, FileStands DEF PidTypeOK, DaemonSteps
<1>8. CASE n # Len(pidLine(p)) /\ n # 0
  <2>1. becomes(p, "gone") /\ pidLock' = pidLock \ {p} /\ halfWritten' = (halfWritten \/ n > 0)
    BY <1>3, <1>8
  <2>3. n > 0
    BY <1>2, <1>8
  <2>2. halfWritten' = TRUE
    BY <2>1, <2>3
  <2>4. PidTypeOK'
    BY <1>1, <1>5, <2>1, <2>2 DEF PidTypeOK, becomes, DaemonSteps, Texts
  <2> QED
    BY <2>2, <2>4 DEF PidInv
<1> QED
  BY <1>6, <1>7, <1>8

LEMMA PidStep ==
  ASSUME PidInv, PidNext \/ UNCHANGED pidVars
  PROVE  PidInv'
<1>1. CASE UNCHANGED pidVars
  BY <1>1 DEF PidInv, PidTypeOK, IsOf, pidLine, pidVars
<1>2. CASE PidNext
  <2>1. PICK p \in Pids :
          \/ forkDaemon(p) \/ openPidFile(p) \/ lockPidFile(p) \/ writeNumber(p) \/ closePidFile(p) \/ daemonEnds(p)
    BY <1>2 DEF PidNext
  <2>2. PidTypeOK
    BY DEF PidInv
  <2>3. CASE forkDaemon(p)
    BY <2>2, <2>3, FileStands DEF forkDaemon, PidTypeOK, DaemonSteps
  <2>4. CASE openPidFile(p)
    <3>1. CASE pidText' = <<>> /\ becomes(p, "opened")
      BY <2>2, <2>4, <3>1 DEF openPidFile, becomes, PidInv, PidTypeOK, DaemonSteps
    <3>2. CASE UNCHANGED pidText /\ becomes(p, "gone")
      BY <2>2, <2>4, <3>2, FileStands DEF openPidFile, PidTypeOK, DaemonSteps
    <3> QED
      BY <2>4, <3>1, <3>2 DEF openPidFile
  <2>5. CASE lockPidFile(p)
    BY <2>2, <2>5, FileStands DEF lockPidFile, lockOrExit, PidTypeOK, DaemonSteps
  <2>6. CASE closePidFile(p)
    BY <2>2, <2>6, FileStands DEF closePidFile, PidTypeOK, DaemonSteps
  <2>7. CASE daemonEnds(p)
    BY <2>2, <2>7, FileStands DEF daemonEnds, PidTypeOK, DaemonSteps
  <2> QED
    BY <2>1, <2>3, <2>4, <2>5, <2>6, <2>7, WriteNumberSteps
<1> QED
  BY <1>1, <1>2

\* However many processes make themselves daemons at once, a pid file with something in it
\* names one that wrote its number, unless a write was cut short (process.cpp:49-96).
THEOREM PidFileIsOne == Spec => []PidFileNamesOne
<1>1. Init => PidInv
  BY PidStarts DEF Init
<1>2. PidInv /\ [Next]_vars => PidInv'
  BY PidStep DEF Next, only, vars
<1> QED
  BY <1>1, <1>2, PidEnds, PTL DEF Spec

-----------------------------------------------------------------------------

\* The log, the directories and the pid file together, as tblog.h, fileutil.h, Utility.h and
\* process.h promise them (tblog.cpp:52-213, fileutil.cpp:22-54, process.cpp:49-96).
THEOREM FilesAreSafe == Spec => []FilesSafe
<1>1. LogSafe /\ DirectoriesSafe /\ PidFileNamesOne => FilesSafe
  BY DEF FilesSafe
<1> QED
  BY <1>1, LogIsSafe, DirectoriesAreMade, PidFileIsOne, PTL
=============================================================================
