----------------------------- MODULE ThreadPool -----------------------------
(***************************************************************************)
(* tbutil::ThreadPool: a pool of EventHandlerThreads after the             *)
(* leader/follower pattern. One thread, the leader, waits for work on      *)
(* _monitor; before it executes an item it promotes a follower, which      *)
(* waits on the pool's own monitor, or starts a new thread.                *)
(*                                                                         *)
(* An action is one critical section of one of the two monitors, or what a *)
(* thread does between two of them. A monitor sends its notifications when *)
(* it is unlocked, that is at the end of the section; a thread that wakes  *)
(* up goes back to the head of its waiting loop.                           *)
(***************************************************************************)
EXTENDS Naturals, Sequences, FiniteSets, SequencesExt

CONSTANTS
  PoolThreads,  \* as many as _sizeMax
  Created,      \* those that the constructor starts, _size of them
  Items,        \* ThreadPoolWorkItems, each given to execute() once
  ListSizeMax,  \* _listSizeMax
  NoItem

ASSUME PoolAssumption ==
  /\ IsFiniteSet(PoolThreads) /\ Created \subseteq PoolThreads /\ Created # {}
  /\ Cardinality(PoolThreads) > 1   \* with one thread nothing is handed over
  /\ ListSizeMax \in Nat /\ NoItem \notin Items

sizeMax == Cardinality(PoolThreads)

VARIABLES
  poolDestroyed,   \* _destroyed
  destroyPc,       \* the owner: before, in and after destroy(), destructed
  workItems,       \* _workItems; _listSize is its length
  promote,         \* _promote
  inUse, running,  \* _inUse, _running
  poolPc, item,    \* per thread: where it is in run(), and its work item
  execPc,          \* per item: its execute()
  executed, dropped   \* how often an item was executed, and destroyed instead

poolCounts == <<inUse, running>>
poolOwner == <<poolDestroyed, destroyPc>>
poolFates == <<executed, dropped>>
poolVars == <<poolOwner, workItems, promote, poolCounts, poolPc, item, execPc,
              poolFates>>

PoolTypeOK ==
  /\ poolDestroyed \in BOOLEAN
  /\ destroyPc \in {"none", "notify", "join", "freed"}
  /\ workItems \in Seq(Items)
  /\ promote \in BOOLEAN
  /\ inUse \in 0..sizeMax /\ running \in 0..sizeMax
  /\ poolPc \in [PoolThreads -> {"none", "follow", "asleep", "lead", "waitWork",
                                 "promote", "run", "execute", "giveBack", "leave",
                                 "done"}]
  /\ item \in [PoolThreads -> Items \cup {NoItem}]
  /\ execPc \in [Items -> {"idle", "push", "refused", "accepted"}]
  /\ executed \in [Items -> 0..1] /\ dropped \in [Items -> 0..1]

PoolInit ==
  /\ poolDestroyed = FALSE /\ destroyPc = "none" /\ workItems = <<>>
  /\ promote = TRUE /\ inUse = 0 /\ running = Cardinality(Created)
  /\ poolPc = [t \in PoolThreads |-> IF t \in Created THEN "follow" ELSE "none"]
  /\ item = [t \in PoolThreads |-> NoItem]
  /\ execPc = [i \in Items |-> "idle"]
  /\ executed = [i \in Items |-> 0] /\ dropped = [i \in Items |-> 0]

-----------------------------------------------------------------------------

inPool(labels) == {t \in PoolThreads : poolPc[t] \in labels}

\* The sets of threads that notify() may wake of those that wait at a monitor,
\* and those that notifyAll() wakes.
notify(waiting) == IF waiting = {} THEN {{}} ELSE {{t} : t \in waiting}
\* Seeded fault: nobody wakes up.
notifyNobody(waiting) == {{}}
notifyAll(waiting) == {waiting}

\* _inUse once it should be n; destroy() ends the counting.
\* Seeded fault: the counter stops one too early.
countUseBelow(n) == IF poolDestroyed \/ n = sizeMax THEN inUse ELSE n
countUse(n) == IF poolDestroyed THEN inUse ELSE n

\* The program counters when the threads of W go on at label.
sent(pc, W, label) == [t \in PoolThreads |-> IF t \in W THEN label ELSE pc[t]]

-----------------------------------------------------------------------------
(* execute(), called by any thread that uses the pool *)

isMaxCapacity == Len(workItems) > ListSizeMax

\* The two tests of execute, without a lock.
executeCheck(i) ==
  /\ execPc[i] = "idle" /\ destroyPc # "freed"
  /\ execPc' = [execPc EXCEPT ![i] =
                  IF poolDestroyed \/ isMaxCapacity THEN "refused" ELSE "push"]
  /\ UNCHANGED <<poolOwner, workItems, promote, poolCounts, poolPc, item, poolFates>>

executePush(i) ==
  /\ execPc[i] = "push"
  /\ workItems' = Append(workItems, i)
  /\ \E W \in notify(inPool({"waitWork"})) : poolPc' = sent(poolPc, W, "lead")
  /\ execPc' = [execPc EXCEPT ![i] = "accepted"]
  /\ UNCHANGED <<poolOwner, promote, poolCounts, item, poolFates>>

-----------------------------------------------------------------------------
(* EventHandlerThread::run and ThreadPool::run *)

\* A follower takes the promotion or waits for one.
\* Seeded fault: _promote is not reset.
followKeeps(t) ==
  /\ poolPc[t] = "follow"
  /\ poolPc' = [poolPc EXCEPT ![t] = IF promote THEN "lead" ELSE "asleep"]
  /\ UNCHANGED <<poolOwner, workItems, promote, poolCounts, item, execPc, poolFates>>
follow(t) ==
  /\ poolPc[t] = "follow"
  /\ poolPc' = [poolPc EXCEPT ![t] = IF promote THEN "lead" ELSE "asleep"]
  /\ promote' = FALSE
  /\ UNCHANGED <<poolOwner, workItems, poolCounts, item, execPc, poolFates>>

\* The leader has nothing to do: it waits, or leaves when the pool is destroyed.
leadNothing(t) ==
  /\ poolPc[t] = "lead" /\ workItems = <<>>
  /\ poolPc' = [poolPc EXCEPT ![t] = IF poolDestroyed THEN "leave" ELSE "waitWork"]
  /\ UNCHANGED <<poolOwner, workItems, promote, poolCounts, item, execPc, poolFates>>

\* Seeded fault: the item is left in the queue.
popNot == workItems
pop == Tail(workItems)

leadTake(t) ==
  /\ poolPc[t] = "lead" /\ workItems # <<>>
  /\ item' = [item EXCEPT ![t] = Head(workItems)]
  /\ workItems' = pop
  /\ poolPc' = [poolPc EXCEPT ![t] = "promote"]
  /\ UNCHANGED <<poolOwner, promote, poolCounts, execPc, poolFates>>

\* Whether the thread that goes to work leaves nobody to lead, and may start one.
\* Seeded fault: the test is late by one.
growsLate(busy) == busy < sizeMax /\ busy > running
grows(busy) == busy < sizeMax /\ busy = running

promoteFollower(t) ==
  /\ poolPc[t] = "promote"
  /\ promote' = TRUE
  /\ inUse' = countUse(inUse + 1)
  /\ \E W \in notify(inPool({"asleep"})) :
       \E new \in IF ~poolDestroyed /\ grows(inUse')
                  THEN {{n} : n \in inPool({"none"})} ELSE {{}} :
         /\ running' = running + Cardinality(new)
         /\ poolPc' = [sent(poolPc, W \cup new, "follow") EXCEPT ![t] = "run"]
  /\ UNCHANGED <<poolOwner, workItems, item, execPc, poolFates>>

\* _destroyed is read again, without a lock.
runItem(t) ==
  /\ poolPc[t] = "run" /\ ~poolDestroyed
  /\ poolPc' = [poolPc EXCEPT ![t] = "execute"]
  /\ executed' = [executed EXCEPT ![item[t]] = @ + 1]
  /\ UNCHANGED <<poolOwner, workItems, promote, poolCounts, item, execPc, dropped>>

dropItem(t) ==
  /\ poolPc[t] = "run" /\ poolDestroyed
  /\ poolPc' = [poolPc EXCEPT ![t] = "giveBack"]
  /\ dropped' = [dropped EXCEPT ![item[t]] = @ + 1]
  /\ item' = [item EXCEPT ![t] = NoItem]
  /\ UNCHANGED <<poolOwner, workItems, promote, poolCounts, execPc, executed>>

\* The handler of the item returns or throws a tbutil::Exception.
executeReturns(t) ==
  /\ poolPc[t] = "execute"
  /\ poolPc' = [poolPc EXCEPT ![t] = "giveBack"]
  /\ item' = [item EXCEPT ![t] = NoItem]
  /\ UNCHANGED <<poolOwner, workItems, promote, poolCounts, execPc, poolFates>>

giveBack(t) ==
  /\ poolPc[t] = "giveBack"
  /\ inUse' = countUse(inUse - 1)
  /\ poolPc' = [poolPc EXCEPT ![t] = "follow"]
  /\ UNCHANGED <<poolOwner, workItems, promote, running, item, execPc, poolFates>>

\* A leader that ends promotes a follower, which will end as well.
leave(t) ==
  /\ poolPc[t] = "leave"
  /\ promote' = TRUE
  /\ \E W \in notify(inPool({"asleep"})) :
       poolPc' = [sent(poolPc, W, "follow") EXCEPT ![t] = "done"]
  /\ UNCHANGED <<poolOwner, workItems, poolCounts, item, execPc, poolFates>>

-----------------------------------------------------------------------------
(* The owner: destroy(), joinWithAllThreads() and the destructor *)

destroy ==
  /\ destroyPc = "none"
  /\ poolDestroyed' = TRUE /\ destroyPc' = "notify"
  /\ \E W \in notifyAll(inPool({"asleep"})) : poolPc' = sent(poolPc, W, "follow")
  /\ UNCHANGED <<workItems, promote, poolCounts, item, execPc, poolFates>>

destroyNotify ==
  /\ destroyPc = "notify"
  /\ destroyPc' = "join"
  /\ \E W \in notifyAll(inPool({"waitWork"})) : poolPc' = sent(poolPc, W, "lead")
  /\ UNCHANGED <<poolDestroyed, workItems, promote, poolCounts, item, execPc, poolFates>>

\* All threads are joined and nobody is in execute() when the pool is destructed.
destruct ==
  /\ destroyPc = "join" /\ inPool({"none", "done"}) = PoolThreads
  /\ \A i \in Items : execPc[i] # "push"
  /\ dropped' = [i \in Items |-> IF Contains(workItems, i) THEN dropped[i] + 1
                                                           ELSE dropped[i]]
  /\ workItems' = <<>> /\ destroyPc' = "freed"
  /\ UNCHANGED <<poolDestroyed, promote, poolCounts, poolPc, item, execPc, executed>>

-----------------------------------------------------------------------------

\* What a thread does without the help of a handler.
threadStep(t) ==
  \/ follow(t) \/ leadNothing(t) \/ leadTake(t) \/ promoteFollower(t)
  \/ runItem(t) \/ dropItem(t) \/ giveBack(t) \/ leave(t)

PoolNext ==
  \/ \E i \in Items : executeCheck(i) \/ executePush(i)
  \/ \E t \in PoolThreads : threadStep(t) \/ executeReturns(t)
  \/ destroy \/ destroyNotify \/ destruct

PoolSpec == PoolInit /\ [][PoolNext]_poolVars

-----------------------------------------------------------------------------

\* There is always one thread that leads or one promotion to be taken, never
\* two and never none (the asserts at lines 129 and 378, and the hand-over).
OneLeader ==
  LET leaders == inPool({"lead", "waitWork", "promote", "leave"})
  IN IF promote THEN leaders = {} ELSE \E t \in PoolThreads : leaders = {t}

\* Until destroy, _inUse counts the threads at work and _running all of them (the
\* asserts at lines 135, 147 and 339), so that the pool grows when it must.
InUseCounts ==
  /\ running = sizeMax - Cardinality(inPool({"none"}))
  /\ ~poolDestroyed => inUse = Cardinality(inPool({"run", "execute", "giveBack"}))

\* An accepted item is in the queue, or a thread is about to execute it, or it
\* was executed or destroyed, exactly one of these; a refused one never is.
ItemsOnce ==
  \A i \in Items :
    LET held == {t \in inPool({"promote", "run"}) : item[t] = i}
        queued == {n \in DOMAIN workItems : workItems[n] = i}
    IN executed[i] + dropped[i] + Cardinality(held) + Cardinality(queued)
         = IF execPc[i] = "accepted" THEN 1 ELSE 0

\* After destroy() every thread ends, except those whose handler does not return,
\* so that joinWithAllThreads comes back.
ended == inPool({"none", "done", "execute"}) = PoolThreads
PoolEnds == poolDestroyed ~> ended

\* An item does not stay in the queue unless all _sizeMax threads are in a handler.
\* One that execute() entered after it had missed destroy() waits for the destructor.
ItemIsTaken ==
  \A i \in Items :
    Contains(workItems, i) ~>
      \/ ~Contains(workItems, i)
      \/ inPool({"execute"}) = PoolThreads
      \/ poolDestroyed /\ ended

=============================================================================
