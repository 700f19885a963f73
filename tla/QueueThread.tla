----------------------------- MODULE QueueThread -----------------------------
(***************************************************************************)
(* CQueueThread: items copied into a queue and taken by the threads of a   *)
(* CDefaultRunnable. The destructor stops the threads and does not wait    *)
(* for them; wait() is up to the owner.                                    *)
(***************************************************************************)
EXTENDS Integers, Sequences, FiniteSets, SequencesExt

CONSTANTS
  Pool,       \* the CThreads that start() makes
  Written     \* what is written, each item once

VARIABLES
  queue,        \* _queue
  stopping,     \* _stop
  owner,        \* the thread of the owner: what it did with the object last
  worker,       \* where each CThread is in hook() and run()
  item,         \* the data_pair that a thread has taken
  handledBy,    \* ghost: how often each item was handled
  written       \* ghost: the items that writeData accepted

queueThreadVars == <<queue, stopping, owner, worker, item, handledBy, written>>

NoData == "none"

ASSUME QueueThreadAssumption == NoData \notin Written /\ IsFiniteSet(Pool)

OwnerSteps == {"made", "started", "joining", "joined", "deleted"}
WorkerSteps == {"none", "hook", "loop", "asleep", "handle", "done"}

QueueThreadTypeOK ==
  /\ queue \in Seq(Written) /\ stopping \in BOOLEAN /\ owner \in OwnerSteps
  /\ worker \in [Pool -> WorkerSteps] /\ item \in [Pool -> Written \cup {NoData}]
  /\ handledBy \in [Written -> 0..Cardinality(Pool)] /\ written \subseteq Written

QueueThreadInit ==
  /\ queue = <<>> /\ stopping = FALSE /\ owner = "made"
  /\ worker = [w \in Pool |-> "none"] /\ item = [w \in Pool |-> NoData]
  /\ handledBy = [d \in Written |-> 0] /\ written = {}

-----------------------------------------------------------------------------
(* The owner and whoever writes *)

\* start(): once; a second call finds _thread set and returns.
startPool ==
  /\ owner = "made" /\ Pool # {}
  /\ owner' = "started" /\ worker' = [w \in Pool |-> "hook"]
  /\ UNCHANGED <<queue, stopping, item, handledBy, written>>

\* signal() and broadcast() of _mutex.
signalled == {[worker EXCEPT ![w] = "loop"] : w \in {v \in Pool : worker[v] = "asleep"}}
\* Seeded fault: stop() wakes no thread.
broadcastNone == worker
signal == IF signalled = {} THEN {worker} ELSE signalled
broadcast == [w \in Pool |-> IF worker[w] = "asleep" THEN "loop" ELSE worker[w]]

\* writeData(); empty data are refused and change nothing.
writeData(d) ==
  /\ owner # "deleted" /\ d \notin written
  /\ queue' = Append(queue, d) /\ worker' \in signal /\ written' = written \cup {d}
  /\ UNCHANGED <<stopping, owner, item, handledBy>>

stopPool ==
  /\ owner # "deleted"
  /\ stopping' = TRUE /\ worker' = broadcast
  /\ UNCHANGED <<queue, owner, item, handledBy, written>>

callWait ==
  /\ owner = "started" /\ owner' = "joining"
  /\ UNCHANGED <<queue, stopping, worker, item, handledBy, written>>

\* Seeded fault: wait() returns when one thread has ended.
joinedOne == \E w \in Pool : worker[w] = "done"
allJoined == \A w \in Pool : worker[w] = "done"
joinReturns ==
  /\ owner = "joining" /\ allJoined /\ owner' = "joined"
  /\ UNCHANGED <<queue, stopping, worker, item, handledBy, written>>

\* ~CQueueThread and ~CDefaultRunnable.
destroyPool ==
  /\ owner \in {"made", "started", "joined"}
  /\ owner' = "deleted" /\ stopping' = TRUE /\ worker' = broadcast
  /\ UNCHANGED <<queue, item, handledBy, written>>

-----------------------------------------------------------------------------
(* A CThread. After the object is gone it runs on freed memory, which is   *)
(* where the model leaves it.                                              *)

alive == owner # "deleted"

hook(w) ==
  /\ worker[w] = "hook" /\ alive /\ worker' = [worker EXCEPT ![w] = "loop"]
  /\ UNCHANGED <<queue, stopping, owner, item, handledBy, written>>

\* From _mutex.lock() to wait(), to the end, or to unlock() with an item.
takeNext(w) ==
  /\ worker[w] = "loop" /\ alive
  /\ \/ /\ stopping /\ worker' = [worker EXCEPT ![w] = "done"] /\ UNCHANGED <<queue, item>>
     \/ /\ ~stopping /\ queue = <<>>
        /\ worker' = [worker EXCEPT ![w] = "asleep"] /\ UNCHANGED <<queue, item>>
     \/ /\ ~stopping /\ queue # <<>>
        /\ item' = [item EXCEPT ![w] = Head(queue)] /\ queue' = Tail(queue)
        /\ worker' = [worker EXCEPT ![w] = "handle"]
  /\ UNCHANGED <<stopping, owner, handledBy, written>>

\* handleQueue() and the two free()s.
handleQueue(w) ==
  /\ worker[w] = "handle" /\ alive
  /\ handledBy' = [handledBy EXCEPT ![item[w]] = @ + 1]
  /\ item' = [item EXCEPT ![w] = NoData] /\ worker' = [worker EXCEPT ![w] = "loop"]
  /\ UNCHANGED <<queue, stopping, owner, written>>

runThread(w) == hook(w) \/ takeNext(w) \/ handleQueue(w)

QueueThreadNext ==
  \/ startPool \/ stopPool \/ callWait \/ joinReturns \/ destroyPool
  \/ \E d \in Written : writeData(d)
  \/ \E w \in Pool : runThread(w)

-----------------------------------------------------------------------------
(* Properties *)

\* Every item accepted is in the queue, with one thread, or was handled, and in
\* one of these places only (queuethread.cpp:66-85).
ItemsHandledOnce ==
  \A d \in Written :
    handledBy[d] + Cardinality({w \in Pool : item[w] = d})
      + Cardinality({i \in DOMAIN queue : queue[i] = d}) = IF d \in written THEN 1 ELSE 0

\* When the owner waited before it deleted the object, no thread is left that
\* could still use it (queuethread.cpp:31 only stops, defaultrunnable.cpp:69).
WaitedForAll == owner = "joined" => \A w \in Pool : worker[w] = "done"

QueueThreadSafe == ItemsHandledOnce /\ WaitedForAll

\* An item in the queue of a running pool is taken, unless the pool stops or is
\* deleted; and the threads of a pool that stops end, so that wait() can return.
QueueIsServed ==
  /\ \A d \in Written :
       (owner = "started" /\ d \in ToSet(queue)) ~> (d \notin ToSet(queue) \/ stopping)
  /\ (owner \in {"started", "joining"} /\ stopping) ~> (owner = "deleted" \/ \A w \in Pool : worker[w] = "done")
=============================================================================
