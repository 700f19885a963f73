------------------------------ MODULE FileQueue ------------------------------
(***************************************************************************)
(* tbsys::CFileQueue, a queue in rotating data files with a header file,   *)
(* and tbsys::CFileQueueThread, whose threads take the items under one     *)
(* mutex and hand them to a handler outside it.                            *)
(*                                                                         *)
(* m_head lives in memory and is written to header.dat at some points      *)
(* only; the process can die between any two system calls. The header also *)
(* names, per thread, the item in progress, and after a crash              *)
(* recoverRecord appends these items again. A data record is two units, a  *)
(* head (size, flag, len) and a tail (the data); a short write leaves the  *)
(* head alone. What write() has written survives the process.              *)
(***************************************************************************)
EXTENDS Integers, Sequences, FiniteSets, FiniteSetsExt

CONSTANTS
  Threads,       \* the threads of the CFileQueueThread, by their index
  MaxFileSize,   \* m_maxFileSize, in units
  MaxPush,       \* bound: calls of writeData; the n-th writes item n
  MaxCrashes,    \* bound: crashes of the process
  MaxStops,      \* bound: orderly stops
  MaxFaults      \* bound: writes that fail or are short

ASSUME FileAssumption ==
  /\ MaxFileSize \in Nat \ {0}
  /\ MaxPush \in Nat /\ MaxCrashes \in Nat /\ MaxStops \in Nat /\ MaxFaults \in Nat
  /\ IsFiniteSet(Threads) /\ Threads \cap {"none", "writer"} = {}

\* A tail of item 0 is data that is no item's: bytes read across a short record.
Items == 1..MaxPush
Payloads == 0..MaxPush
Units == [part : {"head"}, item : Items] \cup [part : {"tail"}, item : Payloads]

VARIABLES
  proc,      \* the process: "down", in the constructor ("recover"), or "up"
  mem,       \* m_head; queued stands for queue_size > 0
  disk,      \* header.dat
  files,     \* the data files that exist: seqno -> units
  inside,    \* who is inside the mutex between two system calls
  pc, hand,  \* per thread: where it is in run(), and the item it popped
  stop,      \* _stop
  toRecover, \* the entries of pos that recoverRecord has yet to look at
  pushed, crashes, stops, faults,     \* counters of the bounds
  accepted,  \* items for which push returned EXIT_SUCCESS
  handled,   \* how often the handler got each item whole
  torn,      \* a short write has happened
  knownLost  \* items that were held from an earlier file when the process
             \* died, or whose second push failed

bounds  == <<pushed, crashes, stops, faults>>
history == <<accepted, handled, torn, knownLost>>
threads == <<pc, hand>>
vars == <<proc, mem, disk, files, inside, threads, stop, toRecover, bounds,
          history>>

NoPos == [seqno |-> 0, offset |-> 0]
NoPositions == [t \in Threads |-> NoPos]

Headers ==
  [read_seqno : Nat \ {0}, read_offset : Nat, write_seqno : Nat \ {0},
   write_filesize : Nat, queued : BOOLEAN, exit_status : {0, 1},
   pos : [Threads -> [seqno : Nat, offset : Nat]]]

TypeOK ==
  /\ proc \in {"down", "recover", "up"}
  /\ mem \in Headers /\ disk \in Headers
  /\ DOMAIN files \subseteq Nat /\ \A f \in DOMAIN files : files[f] \in Seq(Units)
  /\ inside \in {"none", "writer"} \cup Threads
  /\ pc \in [Threads -> {"off", "start", "asleep", "woken", "save", "handle",
                         "finish", "done"}]
  /\ hand \in [Threads -> {<<>>} \cup Items \X Payloads]
  /\ \A t \in Threads : pc[t] = "handle" => hand[t] # <<>>
  /\ stop \in BOOLEAN /\ toRecover \subseteq Threads
  /\ pushed \in 0..MaxPush /\ crashes \in 0..MaxCrashes
  /\ stops \in 0..MaxStops /\ faults \in 0..MaxFaults
  /\ accepted \subseteq Items /\ knownLost \subseteq Items
  /\ handled \in [Items -> Nat] /\ torn \in BOOLEAN

\* A new directory: the header file is empty and the constructor takes 1 and 1.
NewHeader ==
  [read_seqno |-> 1, read_offset |-> 0, write_seqno |-> 1, write_filesize |-> 0,
   queued |-> FALSE, exit_status |-> 0, pos |-> NoPositions]

Init ==
  /\ proc = "down" /\ mem = NewHeader /\ disk = NewHeader
  /\ files = <<>> /\ inside = "none"
  /\ pc = [t \in Threads |-> "off"] /\ hand = [t \in Threads |-> <<>>]
  /\ stop = FALSE /\ toRecover = {}
  /\ pushed = 0 /\ crashes = 0 /\ stops = 0 /\ faults = 0
  /\ accepted = {} /\ handled = [i \in Items |-> 0]
  /\ torn = FALSE /\ knownLost = {}

-----------------------------------------------------------------------------
(* The files *)

\* open(O_CREAT) of a file to write.
created(fs, f) ==
  [g \in DOMAIN fs \cup {f} |-> IF g \in DOMAIN fs THEN fs[g] ELSE <<>>]

without(fs, S) == [f \in DOMAIN fs \ S |-> fs[f]]

\* What a reader at h finds from its position to the end of file f.
unreadIn(h, f) ==
  IF f = h.read_seqno THEN SubSeq(files[f], h.read_offset + 1, Len(files[f]))
                      ELSE files[f]

\* The items that a reader at h has before it.
unread(h) ==
  {u.item : u \in {v \in UNION {{unreadIn(h, f)[k] : k \in DOMAIN unreadIn(h, f)} :
                                f \in {g \in DOMAIN files : g >= h.read_seqno}} :
                   v.part = "tail"}}

\* A full file is left for the next one.
rotated(h) ==
  IF h.write_filesize >= MaxFileSize
    THEN [h EXCEPT !.write_seqno = @ + 1, !.write_filesize = 0]
    ELSE h

\* The write() of one record to the end of h's file, with its outcome: the new
\* files, and the header with the size that push counts.
outcomes == IF faults < MaxFaults THEN {"whole", "short", "none"} ELSE {"whole"}

units(i, j, outcome) ==
  CASE outcome = "whole" -> << [part |-> "head", item |-> i], [part |-> "tail", item |-> j] >>
    [] outcome = "short" -> << [part |-> "head", item |-> i] >>
    [] outcome = "none"  -> <<>>

append(fs, h, i, j, outcome) ==
  [created(fs, h.write_seqno) EXCEPT ![h.write_seqno] = @ \o units(i, j, outcome)]

counted(h, outcome) ==
  [h EXCEPT !.write_filesize = IF outcome = "none" THEN @ ELSE @ + 2,
            !.queued = @ \/ outcome = "whole"]

fault(outcome) ==
  /\ faults' = IF outcome = "whole" THEN faults ELSE faults + 1
  /\ torn' = (torn \/ outcome = "short")

-----------------------------------------------------------------------------
(* The constructor, the recovery and the destructor *)

startThreads ==
  /\ pc' = [t \in Threads |-> "start"] /\ stop' = FALSE

\* Without the file to read the constructor returns early.
open ==
  LET fs == created(files, disk.write_seqno)
      h == [disk EXCEPT !.write_filesize = Len(fs[disk.write_seqno])]
  IN /\ proc = "down"
     /\ files' = fs
     /\ IF disk.read_seqno \in DOMAIN fs /\ disk.exit_status = 0
          THEN /\ proc' = "recover" /\ toRecover' = Threads /\ mem' = h
               /\ UNCHANGED <<pc, stop>>
          ELSE /\ proc' = "up" /\ startThreads /\ UNCHANGED toRecover
               /\ mem' = IF disk.read_seqno \in DOMAIN fs
                           THEN [h EXCEPT !.exit_status = 0] ELSE h
     /\ UNCHANGED <<disk, inside, hand, bounds, history>>

\* The item that an entry of pos names, if recoverRecord finds it.
\* Seeded fault: an entry at the start of the file is taken for an empty one.
isRecoveredNotFirst(h, p) ==
  /\ p.seqno # 0 /\ p.offset # 0 /\ p.seqno <= h.read_seqno
  /\ p.offset < h.read_offset
  /\ p.seqno \in DOMAIN files
isRecovered(h, p) ==
  /\ p.seqno # 0 /\ p.seqno <= h.read_seqno
  /\ p.offset < h.read_offset
  /\ p.seqno \in DOMAIN files

payload(u) == IF u.part = "tail" THEN u.item ELSE 0

itemAt(p) == <<files[p.seqno][p.offset + 1].item, payload(files[p.seqno][p.offset + 2])>>

\* A full file is left for a new one: push up to its write().
leaveFull ==
  /\ mem' = rotated(mem) /\ files' = created(files, mem'.write_seqno) /\ disk' = mem'

\* push of an item that was in progress, up to its write().
recoverRotate ==
  /\ proc = "recover" /\ rotated(mem) # mem
  /\ \E t \in toRecover : isRecovered(mem, mem.pos[t])
  /\ leaveFull
  /\ UNCHANGED <<proc, inside, threads, stop, toRecover, bounds, history>>

\* Its write(). The result of push is ignored.
recoverOne(t) ==
  LET p == mem.pos[t]
  IN /\ proc = "recover" /\ t \in toRecover
     /\ toRecover' = toRecover \ {t}
     /\ IF isRecovered(mem, p)
          THEN /\ rotated(mem) = mem
               /\ \E outcome \in outcomes :
                    /\ files' = append(files, mem, itemAt(p)[1], itemAt(p)[2], outcome)
                    /\ mem' = counted(mem, outcome)
                    /\ fault(outcome)
                    /\ knownLost' = IF outcome = "whole" THEN knownLost
                                                         ELSE knownLost \cup {itemAt(p)[1]}
          ELSE UNCHANGED <<files, mem, faults, torn, knownLost>>
     /\ UNCHANGED <<proc, disk, inside, threads, stop, pushed, crashes, stops, accepted,
                    handled>>

recoverDone ==
  LET h == [mem EXCEPT !.pos = NoPositions]
  IN /\ proc = "recover" /\ toRecover = {}
     /\ proc' = "up" /\ disk' = h /\ mem' = [h EXCEPT !.exit_status = 0]
     /\ startThreads
     /\ UNCHANGED <<files, inside, hand, toRecover, bounds, history>>

\* The header that the destructor leaves.
\* Seeded fault: the destructor does not write it.
closedNot == disk
closed == [mem EXCEPT !.exit_status = 1, !.pos = NoPositions]

\* The destructor, once the threads have been joined.
destroy ==
  LET h == closed
  IN /\ proc = "up" /\ inside = "none" /\ \A t \in Threads : pc[t] = "done"
     /\ proc' = "down" /\ mem' = h /\ disk' = h
     /\ pc' = [t \in Threads |-> "off"]
     /\ UNCHANGED <<files, inside, hand, stop, toRecover, bounds, history>>

\* Held by a thread, from a file before the one the header reads.
heldBehind(t) == pc[t] = "handle" /\ disk.pos[t].seqno # disk.read_seqno

crash ==
  /\ proc # "down" /\ crashes < MaxCrashes
  /\ crashes' = crashes + 1
  /\ proc' = "down" /\ mem' = disk /\ inside' = "none" /\ toRecover' = {}
  /\ pc' = [t \in Threads |-> "off"] /\ hand' = [t \in Threads |-> <<>>]
  /\ stop' = FALSE
  /\ knownLost' = knownLost \cup {hand[t][1] : t \in {s \in Threads : heldBehind(s)}}
  /\ UNCHANGED <<disk, files, pushed, stops, faults, accepted, handled, torn>>

-----------------------------------------------------------------------------
(* CFileQueueThread::writeData and stop *)

\* push up to its write().
pushRotate ==
  /\ proc = "up" /\ inside = "none" /\ pushed < MaxPush
  /\ pushed' = pushed + 1 /\ inside' = "writer"
  /\ IF rotated(mem) = mem THEN UNCHANGED <<mem, files, disk>> ELSE leaveFull
  /\ UNCHANGED <<proc, threads, stop, toRecover, crashes, stops, faults, history>>

\* signal() wakes one thread that waits, if there is one.
\* Seeded fault: no thread is woken.
signalNobody == UNCHANGED pc
signal ==
  \/ /\ \A t \in Threads : pc[t] # "asleep"
     /\ UNCHANGED pc
  \/ \E t \in Threads : pc[t] = "asleep" /\ pc' = [pc EXCEPT ![t] = "woken"]

pushWrite ==
  /\ inside = "writer"
  /\ \E outcome \in outcomes :
       /\ files' = append(files, mem, pushed, pushed, outcome)
       /\ mem' = counted(mem, outcome)
       /\ fault(outcome)
       /\ accepted' = IF outcome = "whole" THEN accepted \cup {pushed} ELSE accepted
  /\ signal
  /\ inside' = "none"
  /\ UNCHANGED <<proc, disk, hand, stop, toRecover, pushed, crashes, stops, handled,
                 knownLost>>

stopQueue ==
  /\ proc = "up" /\ inside = "none" /\ ~stop /\ stops < MaxStops
  /\ stops' = stops + 1 /\ stop' = TRUE
  /\ pc' = [t \in Threads |-> IF pc[t] = "asleep" THEN "woken" ELSE pc[t]]
  /\ UNCHANGED <<proc, mem, disk, files, inside, hand, toRecover, pushed, crashes,
                 faults, history>>

-----------------------------------------------------------------------------
(* pop: the header it computes, the files it deletes, the item it returns *)

\* The file at which the reader stops: it passes the files read to their end.
\* Seeded fault: it goes on to the file that is being written.
reachedLast(h) == h.write_seqno
reached(h) ==
  Min({f \in h.read_seqno..h.write_seqno :
         f = h.write_seqno \/ unreadIn(h, f) # <<>>})

atFile(h, f) ==
  [h EXCEPT !.read_seqno = f,
            !.read_offset = IF f = h.read_seqno THEN @ ELSE 0]

\* deleteReadFile keeps the file just read and deletes the one before it.
deleted(from, to) == {f - 1 : f \in from..(to - 1)}

clear(h) ==
  [h EXCEPT !.write_seqno = @ + 1, !.read_seqno = h.write_seqno + 1,
            !.read_offset = 0, !.write_filesize = 0, !.queued = FALSE]

\* At the end of the last file.
\* Seeded fault: queue_size is left as it is.
endedNot(h) == h
ended(h) == [h EXCEPT !.queued = FALSE]

\* A header and the next record are in the file.
readable(u) == Len(u) >= 2 /\ u[1].part = "head"

\* The results <<header, files, item>> of pop(t), before it writes the header.
\* A record that cannot be read three times over is skipped with its file.
popped(t, h0) ==
  LET f == reached(h0)
      h == atFile(h0, f)
      u == unreadIn(h, f)
      fs == without(files, deleted(h0.read_seqno, f))
  IN IF u = <<>>
       THEN <<ended(h), fs, <<>> >>
     ELSE IF readable(u)
       THEN <<[h EXCEPT !.pos[t] = [seqno |-> f, offset |-> h.read_offset],
                        !.read_offset = @ + 2],
              fs, <<u[1].item, payload(u[2])>> >>
     ELSE IF f < h.write_seqno
       THEN <<atFile(h, f + 1), without(files, deleted(h0.read_seqno, f + 1)), <<>> >>
     ELSE <<clear(h), created(fs, h.write_seqno + 1), <<>> >>

-----------------------------------------------------------------------------
(* CFileQueueThread::run *)

finish(h, t) == [h EXCEPT !.pos[t] = NoPos]

\* What the thread does under the mutex: finish, the loop's conditions, pop.
\* Without the file to read pop returns NULL at once.
runLocked(t) ==
  LET h == IF pc[t] = "finish" THEN finish(mem, t) ELSE mem
      result == popped(t, h)
      next(label) == pc' = [pc EXCEPT ![t] = label]
      stays(label) == /\ mem' = h /\ next(label)
                      /\ hand' = [hand EXCEPT ![t] = <<>>]
                      /\ UNCHANGED <<files, inside>>
  IN /\ inside = "none" /\ pc[t] \in {"start", "woken", "finish"}
     /\ CASE stop -> stays("done")
          [] ~stop /\ ~h.queued -> stays("asleep")
          [] ~stop /\ h.queued /\ h.read_seqno \notin DOMAIN files -> stays("start")
          [] OTHER -> /\ mem' = result[1] /\ files' = result[2]
                      /\ hand' = [hand EXCEPT ![t] = result[3]]
                      /\ next("save") /\ inside' = t
     /\ UNCHANGED <<proc, disk, stop, toRecover, bounds, history>>

\* run() with what pop returned.
\* Seeded fault: the item is used without looking for NULL.
gotUnchecked(t) == "handle"
got(t) == IF hand[t] = <<>> THEN "start" ELSE "handle"

\* The writeHead at the end of pop.
saveHead(t) ==
  /\ pc[t] = "save"
  /\ disk' = mem /\ inside' = "none"
  /\ pc' = [pc EXCEPT ![t] = got(t)]
  /\ UNCHANGED <<proc, mem, files, hand, stop, toRecover, bounds, history>>

handleQueue(t) ==
  /\ pc[t] = "handle"
  /\ pc' = [pc EXCEPT ![t] = "finish"]
  /\ handled' = IF hand[t][1] = hand[t][2] THEN [handled EXCEPT ![hand[t][1]] = @ + 1]
                                           ELSE handled
  /\ UNCHANGED <<proc, mem, disk, files, inside, hand, stop, toRecover, bounds,
                 accepted, torn, knownLost>>

thread(t) == runLocked(t) \/ saveHead(t) \/ handleQueue(t)

\* The bounds are used up and nothing is left to do.
Terminated ==
  /\ proc = "up" /\ ~stop /\ pushed = MaxPush /\ inside = "none"
  /\ \A t \in Threads : pc[t] = "asleep" \/ (pc[t] = "start" /\ mem.queued)
  /\ UNCHANGED vars

Next ==
  \/ open \/ recoverRotate \/ recoverDone \/ destroy \/ crash
  \/ pushRotate \/ pushWrite \/ stopQueue
  \/ \E t \in Threads : recoverOne(t) \/ thread(t)
  \/ Terminated

Spec == Init /\ [][Next]_vars

\* The process is started again after a stop; its threads run, and a handler
\* returns. Nobody has to write, to stop or to crash.
LiveSpec ==
  /\ Spec
  /\ WF_vars(open) /\ WF_vars(recoverRotate) /\ WF_vars(recoverDone) /\ WF_vars(destroy)
  /\ WF_vars(pushWrite)
  /\ \A t \in Threads : WF_vars(recoverOne(t)) /\ WF_vars(thread(t))

-----------------------------------------------------------------------------
(* Properties *)

\* In m_head of a running process: an item that push accepted was handled, is
\* held by a thread, or is still before the reader. A thread that moves the
\* reader on to the next file, deletes a file or clears never passes one.
NothingSkipped ==
  proc = "up" /\ ~torn =>
    \A i \in accepted \ knownLost :
      \/ handled[i] > 0
      \/ i \in unread(mem)
      \/ \E t \in Threads : hand[t] # <<>> /\ hand[t][1] = i

\* In header.dat, whatever the process is doing: were it to die now, an accepted
\* item that is not yet handled would be read again or found by recoverRecord,
\* unless a thread holds it from an earlier file. Only these are ever lost.
CrashSafe ==
  ~torn =>
    \A i \in accepted \ knownLost :
      \/ handled[i] > 0
      \/ i \in unread(disk)
      \/ \E t \in Threads :
           \/ heldBehind(t) /\ hand[t][1] = i
           \/ /\ disk.exit_status = 0
              /\ isRecovered(disk, disk.pos[t])
              /\ itemAt(disk.pos[t])[1] = i

\* What was accepted is neither passed by the running process nor lost by a crash.
AcceptedIsKept == NothingSkipped /\ CrashSafe

\* Without a crash and a short write, over rotation and restart: the items that
\* were taken were written before all those that are yet to be taken, so the
\* order is kept and no item is read again.
TakenInOrder ==
  crashes = 0 /\ ~torn /\ proc = "up" =>
    \A i \in accepted, j \in unread(mem) :
      (handled[i] > 0 \/ \E t \in Threads : hand[t] # <<>> /\ hand[t][1] = i) => i < j

\* An item is handled once, and once more for each thread that a crash can
\* stop at most; and only if it was written whole. (An entry of pos outlives its
\* item in the header until the next writeHead, and a copy that was recovered is
\* entered as well, so one crash can put back several copies.)
OncePerRun ==
  \A i \in Items :
    handled[i] <= IF i \in accepted THEN 1 + crashes * Cardinality(Threads) ELSE 0

\* Order and number of the calls of the handler.
HandledInOrderOnce == TakenInOrder /\ OncePerRun

\* As long as the process does not crash, an accepted item is handled, even if
\* the process is stopped and started in between.
AcceptedIsHandled ==
  \A i \in Items :
    (i \in accepted /\ crashes = 0 /\ ~torn) ~> (handled[i] > 0 \/ crashes > 0 \/ torn)

\* A queue whose file is damaged is worked through as well: it does not keep
\* its threads spinning on the record that cannot be read.
QueueDrains ==
  (proc = "up" /\ mem.queued /\ crashes = 0) ~> (~mem.queued \/ stop \/ crashes > 0)

\* The threads get on with the queue, damaged or not.
QueueGoesOn == AcceptedIsHandled /\ QueueDrains

\* The comment on the positions in the header: recoverRecord puts back what
\* was in progress. After the restart no accepted item is missing.
RecoveredAfterCrash ==
  proc = "up" /\ faults = 0 =>
    \A i \in accepted :
      \/ handled[i] > 0
      \/ i \in unread(mem)
      \/ \E t \in Threads : hand[t] # <<>> /\ hand[t][1] = i
=============================================================================
