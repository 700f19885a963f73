-------------------------- MODULE PacketQueueThread --------------------------
(***************************************************************************)
(* tbnet::PacketQueueThread: pushing threads, a bounded queue of packets,  *)
(* worker threads that hand the packets to a handler, and an owner that    *)
(* starts, stops, waits for and destroys the whole.                        *)
(*                                                                         *)
(* The queue is protected by _cond; a pusher that finds it full waits on   *)
(* _pushcond, a second at a time. _stop, _waitFinish, _waiting and the     *)
(* size are also read without a mutex, and an action of its own reads      *)
(* each of them wherever another thread can change it in between.          *)
(***************************************************************************)
EXTENDS Naturals, Sequences, FiniteSets

CONSTANTS
  Workers,      \* the threads that execute run()
  Pushing,      \* threads that call push, with block = true or false
  Batching,     \* threads that call pushQueue, with two packets
  MaxQueueLen,  \* maxQueueLen of every call; 0 is no limit
  MaxPushes,    \* bound: calls of each pushing thread
  MaxBatches    \* bound: calls of each batching thread

Pushers == Pushing \cup Batching

ASSUME QueueAssumption ==
  /\ Batching \cap Pushing = {}
  /\ IsFiniteSet(Pushing) /\ IsFiniteSet(Batching)
  /\ MaxQueueLen \in Nat /\ MaxPushes \in Nat /\ MaxBatches \in Nat

maxCalls(p) == IF p \in Batching THEN MaxBatches ELSE MaxPushes

\* <<p, n, i>>: the i-th packet of the n-th call of p.
Packets == {k \in Pushers \X (1..(MaxPushes + MaxBatches)) \X {1, 2} :
              k[2] <= maxCalls(k[1]) /\ (k[3] = 1 \/ k[1] \in Batching)}

VARIABLES
  queue,      \* _queue
  started,    \* _thread is not NULL
  stop, waitFinish,   \* _stop, _waitFinish
  stopPc,     \* the owner inside stop(waitFinish): the argument, else "none"
  waiting,    \* _waiting
  wPc,        \* per worker: where it is in run()
  taken,      \* per worker: the packet it has popped, as a sequence
  pPc,        \* per pusher: where it is in push() or pushQueue()
  pushes,     \* per pusher: how many calls it has begun
  handled, freed,     \* how often a packet was handled, and deleted unhandled
  destroyed   \* the destructor has run

flags   == <<started, stop, waitFinish, stopPc, destroyed>>
workers == <<wPc, taken>>
callers == <<pPc, pushes>>
fates   == <<handled, freed>>
vars == <<queue, flags, waiting, workers, callers, fates>>

\* Where a worker holds a packet it has yet to hand to the handler.
holding == {"taken", "signal", "handle", "drainHandle"}

TypeOK ==
  /\ queue \in Seq(Packets)
  /\ started \in BOOLEAN /\ stop \in BOOLEAN /\ waitFinish \in BOOLEAN
  /\ stopPc \in {"none", "finish", "free"}
  /\ waiting \in BOOLEAN /\ destroyed \in BOOLEAN
  /\ wPc \in [Workers -> {"off", "loop", "lock", "asleep", "taken", "signal",
                          "handle", "finish", "drain", "drainHandle", "free",
                          "done"}]
  /\ \A w \in Workers :
       /\ taken[w] \in Seq(Packets)
       /\ Len(taken[w]) = (IF wPc[w] \in holding THEN 1 ELSE 0)
  /\ pPc \in [Pushers -> {"idle", "limit", "full", "asleep", "woken", "recheck",
                          "enter", "wake"}]
  /\ pushes \in [Pushers -> Nat] /\ \A p \in Pushers : pushes[p] <= maxCalls(p)
  /\ handled \in [Packets -> Nat] /\ freed \in [Packets -> Nat]

Init ==
  /\ queue = <<>>
  /\ started = FALSE /\ stop = FALSE /\ waitFinish = FALSE /\ stopPc = "none"
  /\ waiting = FALSE /\ destroyed = FALSE
  /\ wPc = [w \in Workers |-> "off"]
  /\ taken = [w \in Workers |-> <<>>]
  /\ pPc = [p \in Pushers |-> "idle"]
  /\ pushes = [p \in Pushers |-> 0]
  /\ handled = [k \in Packets |-> 0] /\ freed = [k \in Packets |-> 0]

-----------------------------------------------------------------------------

elements(s) == {s[i] : i \in 1..Len(s)}

\* The packets of p's current call.
load(p) == IF p \in Batching THEN << <<p, pushes[p], 1>>, <<p, pushes[p], 2>> >>
                             ELSE << <<p, pushes[p], 1>> >>

free(S) == freed' = [k \in Packets |-> IF k \in S THEN freed[k] + 1 ELSE freed[k]]

\* Seeded fault: one packet too many passes the test.
fullLate == MaxQueueLen > 0 /\ Len(queue) > MaxQueueLen
full == MaxQueueLen > 0 /\ Len(queue) >= MaxQueueLen

goto(p, label) == pPc' = [pPc EXCEPT ![p] = label]
wGoto(w, label) == wPc' = [wPc EXCEPT ![w] = label]

\* stop() holds the mutex of _cond.
condFree == stopPc = "none"

-----------------------------------------------------------------------------
(* push and pushQueue *)

\* Stopped (or, for push, not started): push deletes the packet, pushQueue
\* leaves its packets with the caller.
pushCheckStop(p) ==
  /\ ~destroyed
  /\ pPc[p] = "idle" /\ pushes[p] < maxCalls(p)
  /\ pushes' = [pushes EXCEPT ![p] = @ + 1]
  /\ IF stop \/ (p \notin Batching /\ ~started)
       THEN /\ IF p \in Batching THEN UNCHANGED freed
                                 ELSE free({<<p, pushes'[p], 1>>})
            /\ UNCHANGED pPc
       ELSE goto(p, "limit") /\ UNCHANGED freed
  /\ UNCHANGED <<queue, flags, waiting, workers, handled>>

pushCheckLimit(p) ==
  /\ pPc[p] = "limit"
  /\ goto(p, IF full THEN "full" ELSE "enter")
  /\ UNCHANGED <<queue, flags, waiting, workers, pushes, fates>>

\* The loop under _pushcond, up to the next wait(1000) or to its end.
pushLoop(p) ==
  IF ~stop /\ full
    THEN goto(p, "asleep") /\ waiting' = (waiting \/ pPc[p] = "full")
    ELSE goto(p, "recheck") /\ waiting' = FALSE

\* block = false: push gives up and the caller keeps the packet.
pushRefused(p) ==
  /\ p \in Pushing /\ full
  /\ goto(p, "idle") /\ waiting' = FALSE

pushFull(p) ==
  /\ pPc[p] = "full"
  /\ pushLoop(p) \/ pushRefused(p)
  /\ UNCHANGED <<queue, flags, workers, pushes, fates>>

\* Seeded fault: wait() without a time.
timedOutNever == FALSE
timedOut == TRUE

pushWakes(p) ==
  /\ pPc[p] = "woken" \/ (pPc[p] = "asleep" /\ timedOut)
  /\ pushLoop(p)
  /\ UNCHANGED <<queue, flags, workers, pushes, fates>>

pushRecheckStop(p) ==
  /\ pPc[p] = "recheck"
  /\ IF stop
       THEN /\ goto(p, "idle")
            /\ IF p \in Batching THEN UNCHANGED freed
                                 ELSE free(elements(load(p)))
       ELSE goto(p, "enter") /\ UNCHANGED freed
  /\ UNCHANGED <<queue, flags, waiting, workers, pushes, handled>>

pushEnter(p) ==
  /\ pPc[p] = "enter" /\ condFree
  /\ queue' = queue \o load(p)
  /\ goto(p, "wake")
  /\ UNCHANGED <<flags, waiting, workers, pushes, fates>>

\* Seeded fault: nobody is told of the packet.
signalNobody == UNCHANGED wPc
\* _cond.signal(): one of the sleeping workers, if there is one.
signal ==
  LET sleepers == {w \in Workers : wPc[w] = "asleep"}
  IN IF sleepers = {} THEN UNCHANGED wPc
                      ELSE \E w \in sleepers : wGoto(w, "lock")

pushSignal(p) ==
  /\ pPc[p] = "wake"
  /\ signal
  /\ goto(p, "idle")
  /\ UNCHANGED <<queue, flags, waiting, taken, pushes, fates>>

-----------------------------------------------------------------------------
(* run *)

runLoop(w) ==
  /\ wPc[w] = "loop"
  /\ wGoto(w, IF stop THEN "finish" ELSE "lock")
  /\ UNCHANGED <<queue, flags, waiting, taken, callers, fates>>

first == IF queue = <<>> THEN <<>> ELSE <<Head(queue)>>

\* Seeded fault: the packet stays at the head of the queue.
popKeeps(w) == taken' = [taken EXCEPT ![w] = first] /\ UNCHANGED queue
\* pop: NULL, the empty sequence here, if there is no packet.
pop(w) ==
  /\ taken' = [taken EXCEPT ![w] = first]
  /\ queue' = SubSeq(queue, 2, Len(queue))

\* Seeded fault: a worker that was told of a packet does not look for it.
noPacketUnchecked == FALSE
noPacket == queue = <<>>

\* Under _cond: wait, leave on stop, or take a packet. checkSendSpeed only
\* sleeps here, with the mutex held.
runLock(w) ==
  /\ wPc[w] = "lock" /\ condFree
  /\ \/ stop /\ wGoto(w, "finish") /\ UNCHANGED <<queue, taken>>
     \/ ~stop /\ noPacket /\ wGoto(w, "asleep") /\ UNCHANGED <<queue, taken>>
     \/ ~stop /\ ~noPacket /\ wGoto(w, "taken") /\ pop(w)
  /\ UNCHANGED <<flags, waiting, callers, fates>>

runCheckWaiting(w) ==
  /\ wPc[w] = "taken"
  /\ wGoto(w, IF waiting THEN "signal" ELSE "handle")
  /\ UNCHANGED <<queue, flags, waiting, taken, callers, fates>>

\* _pushcond.signal()
runSignal(w) ==
  /\ wPc[w] = "signal"
  /\ LET sleepers == {p \in Pushers : pPc[p] = "asleep"}
     IN IF sleepers = {} THEN UNCHANGED pPc
                         ELSE \E p \in sleepers : goto(p, "woken")
  /\ wGoto(w, "handle")
  /\ UNCHANGED <<queue, flags, waiting, taken, pushes, fates>>

\* The handler gets the packet; run() deletes it unless the handler keeps it.
runHandle(w) ==
  /\ wPc[w] \in {"handle", "drainHandle"}
  /\ handled' = [handled EXCEPT ![taken[w][1]] = @ + 1]
  /\ taken' = [taken EXCEPT ![w] = <<>>]
  /\ wGoto(w, IF wPc[w] = "handle" THEN "loop" ELSE "drain")
  /\ UNCHANGED <<queue, flags, waiting, callers, freed>>

runFinish(w) ==
  /\ wPc[w] = "finish"
  /\ wGoto(w, IF waitFinish THEN "drain" ELSE "free")
  /\ UNCHANGED <<queue, flags, waiting, taken, callers, fates>>

runDrain(w) ==
  /\ wPc[w] = "drain" /\ condFree
  /\ IF noPacket THEN wGoto(w, "done") /\ UNCHANGED <<queue, taken>>
                     ELSE wGoto(w, "drainHandle") /\ pop(w)
  /\ UNCHANGED <<flags, waiting, callers, fates>>

runFree(w) ==
  /\ wPc[w] = "free" /\ condFree
  /\ free(elements(queue))
  /\ queue' = <<>>
  /\ wGoto(w, "done")
  /\ UNCHANGED <<flags, waiting, taken, callers, handled>>

-----------------------------------------------------------------------------
(* The owner *)

start ==
  /\ ~started /\ ~destroyed
  /\ started' = TRUE
  /\ wPc' = [w \in Workers |-> "loop"]
  /\ UNCHANGED <<queue, stop, waitFinish, stopPc, destroyed, waiting, taken,
                 callers, fates>>

\* stop(waitFinish), first half: lock, _stop = true.
stopBegin ==
  /\ ~stop /\ ~destroyed
  /\ stop' = TRUE
  /\ stopPc' \in {"finish", "free"}
  /\ UNCHANGED <<queue, started, waitFinish, destroyed, waiting, workers,
                 callers, fates>>

\* Seeded fault: stop() wakes only one worker.
broadcastOne == signal
broadcast == wPc' = [w \in Workers |-> IF wPc[w] = "asleep" THEN "lock" ELSE wPc[w]]

\* Second half: _waitFinish = waitFinish, broadcast, unlock.
stopEnd ==
  /\ stopPc # "none"
  /\ waitFinish' = (stopPc = "finish")
  /\ stopPc' = "none"
  /\ broadcast
  /\ UNCHANGED <<queue, started, stop, destroyed, waiting, taken, callers, fates>>

\* The destructor, after wait(), when no call of a pusher is under way: stop()
\* again, and ~PacketQueue frees what is left.
destroy ==
  /\ ~destroyed /\ stopPc = "none"
  /\ \A w \in Workers : wPc[w] \in {"off", "done"}
  /\ \A p \in Pushers : pPc[p] = "idle"
  /\ stop' = TRUE /\ waitFinish' = FALSE
  /\ free(elements(queue))
  /\ queue' = <<>>
  /\ destroyed' = TRUE
  /\ UNCHANGED <<started, stopPc, waiting, workers, callers, handled>>

-----------------------------------------------------------------------------

Push(p) == \/ pushCheckLimit(p) \/ pushFull(p) \/ pushWakes(p)
           \/ pushRecheckStop(p) \/ pushEnter(p) \/ pushSignal(p)

Run(w) == \/ runLoop(w) \/ runLock(w) \/ runCheckWaiting(w) \/ runSignal(w)
          \/ runHandle(w) \/ runFinish(w) \/ runDrain(w) \/ runFree(w)

Terminated == destroyed /\ UNCHANGED vars

Next ==
  \/ \E p \in Pushers : pushCheckStop(p) \/ Push(p)
  \/ \E w \in Workers : Run(w)
  \/ start \/ stopBegin \/ stopEnd \/ destroy \/ Terminated

Spec == Init /\ [][Next]_vars

\* Handlers return and threads run; a call that was begun is finished. Nobody
\* has to push, to stop or to destroy.
LiveSpec ==
  /\ Spec
  /\ \A p \in Pushers : WF_vars(Push(p))
  /\ \A w \in Workers : WF_vars(Run(w))
  /\ WF_vars(stopEnd)

-----------------------------------------------------------------------------
(* Properties *)

\* Still with the caller: not yet accepted, or refused, or left in its queue.
made(k) == k[2] <= pushes[k[1]]
pushing(k) ==
  k[2] = pushes[k[1]] /\ pPc[k[1]] \in {"limit", "full", "asleep", "woken",
                                        "recheck", "enter"}
places(k) ==
  Cardinality({i \in 1..Len(queue) : queue[i] = k})
  + Cardinality({w \in Workers : taken[w] = <<k>>})
  + handled[k] + freed[k]

\* A packet is in one place only, whoever stops when: with the caller of push,
\* in the queue, with one worker, or handled or deleted once. It is never
\* handled twice, nor handled and deleted, nor deleted under a pusher.
OwnedOnce ==
  \A k \in Packets :
    /\ places(k) <= 1
    /\ ~made(k) \/ pushing(k) => places(k) = 0

\* Pushers test the length and enter the queue under different mutexes, so
\* several can pass the test together; but no more than one call of each.
QueueBounded ==
  MaxQueueLen > 0 =>
    Len(queue) <= MaxQueueLen - 1 + Cardinality(Pushers) + Cardinality(Batching)

\* What the mutexes of the queue promise whatever the workers, pushers and stop() do.
QueueSafe == OwnedOnce /\ QueueBounded

\* While the threads run, a queue with packets does not stand still, whichever
\* pusher's signal goes to which worker: again and again somebody takes one.
QueuedIsTaken ==
  started /\ queue # <<>> ~> stop \/ \E w \in Workers : taken[w] # <<>>

\* A pusher that waits for room returns, though _waiting is shared and cleared
\* by whoever leaves first, and though stop() never signals _pushcond.
PusherReturns ==
  \A p \in Pushers : started /\ pPc[p] = "asleep" ~> pPc[p] = "idle"

\* After stop() every worker leaves run().
StopEnds == started /\ stop ~> \A w \in Workers : wPc[w] = "done"

\* Nobody waits for ever: not a packet, a pusher, or the owner in wait().
NobodyIsStuck == QueuedIsTaken /\ PusherReturns /\ StopEnds

=============================================================================
