------------------------------- MODULE Monitor -------------------------------
(***************************************************************************)
(* tbutil::Monitor over a Mutex or a RecMutex, with Cond and the LockT     *)
(* objects by which threads use it. notify() only counts: the signals are  *)
(* sent when the monitor is left or waits. A RecMutex counts its own       *)
(* depth, so that the pthread mutex under it is locked once and a wait     *)
(* gives it up whatever the depth.                                         *)
(***************************************************************************)
EXTENDS Integers, FiniteSets

CONSTANTS
  MonThreads,
  MaxDepth,    \* bound of the LockT objects that a thread has on one RecMutex
  MaxNotify    \* bound of _nnotify

NoThread == "nobody"

ASSUME MonitorAssumption ==
  IsFiniteSet(MonThreads) /\ NoThread \notin MonThreads /\ MaxDepth \in Nat \ {0} /\ MaxNotify \in Nat

VARIABLES
  recursive,   \* the mutex is a RecMutex
  mutex,       \* who holds the pthread mutex, how often, and _count of the RecMutex
  nnotify,     \* _nnotify
  acquired,    \* how many LockT objects of a thread are acquired
  waiters,     \* threads in pthread_cond_wait
  woken,       \* threads that were woken and want the mutex back
  lockState,   \* LockState.count of a thread that waits
  owed         \* wake-ups that the current holder has asked for and waiters can expect

monitorVars == <<recursive, mutex, nnotify, acquired, waiters, woken, lockState, owed>>

Free == [holder |-> NoThread, depth |-> 0, count |-> 0]

MonitorTypeOK ==
  /\ recursive \in BOOLEAN
  /\ mutex \in [holder : MonThreads \cup {NoThread}, depth : 0..MaxDepth, count : 0..MaxDepth]
  /\ nnotify \in -1..MaxNotify /\ acquired \in [MonThreads -> 0..MaxDepth]
  /\ waiters \subseteq MonThreads /\ woken \subseteq MonThreads
  /\ lockState \in [MonThreads -> 0..MaxDepth] /\ owed \in 0..Cardinality(waiters)

MonitorInit ==
  /\ recursive \in BOOLEAN /\ mutex = Free /\ nnotify = 0
  /\ acquired = [t \in MonThreads |-> 0] /\ waiters = {} /\ woken = {}
  /\ lockState = [t \in MonThreads |-> 0] /\ owed = 0

-----------------------------------------------------------------------------
(* The pthread mutex, Mutex and RecMutex *)

mayLock(m, t) == m.holder = NoThread \/ (recursive /\ m.holder = t)
pthreadLock(m, t) == [holder |-> t, depth |-> m.depth + 1, count |-> m.count]
pthreadUnlock(m) ==
  [holder |-> IF m.depth = 1 THEN NoThread ELSE m.holder, depth |-> m.depth - 1, count |-> m.count]

mutexLock(m, t) == pthreadLock(m, t)
mutexUnlock(m) == pthreadUnlock(m)

\* Seeded fault: the pthread mutex stays locked twice.
recMutexLockTwice(m, t) == [pthreadLock(m, t) EXCEPT !.count = @ + 1]
recMutexLock(m, t) ==
  LET n == [pthreadLock(m, t) EXCEPT !.count = @ + 1]
  IN IF n.count > 1 THEN pthreadUnlock(n) ELSE n
recMutexUnlock(m) ==
  LET n == [m EXCEPT !.count = @ - 1] IN IF n.count = 0 THEN pthreadUnlock(n) ELSE n

locked(m, t) == IF recursive THEN recMutexLock(m, t) ELSE mutexLock(m, t)
unlocked(m) == IF recursive THEN recMutexUnlock(m) ELSE mutexUnlock(m)
willUnlock(m) == recursive => m.count = 1

\* tryLock() of Mutex and RecMutex: the mutex as it is when another thread has it.
mutexTryLock(m, t) == IF mayLock(m, t) THEN mutexLock(m, t) ELSE m
recMutexTryLock(m, t) == IF mayLock(m, t) THEN recMutexLock(m, t) ELSE m
tried(m, t) == IF recursive THEN recMutexTryLock(m, t) ELSE mutexTryLock(m, t)

\* unlock(LockState&) before a wait, and lock(LockState&) after it.
saved(m) == IF recursive THEN m.count ELSE 0
restored(m, n) == [m EXCEPT !.count = n]

-----------------------------------------------------------------------------
(* Cond and Monitor *)

atMost(n, k) == IF n < k THEN n ELSE k

\* notifyImpl, n signals or a broadcast; then the threads T begin to wait.
notifyImpl(n, T) ==
  \E S \in SUBSET waiters :
    /\ Cardinality(S) = IF n = -1 THEN Cardinality(waiters) ELSE atMost(n, Cardinality(waiters))
    /\ waiters' = (waiters \ S) \cup T /\ woken' = woken \cup S
    /\ owed' = IF owed > Cardinality(S) THEN owed - Cardinality(S) ELSE 0

\* _nnotify when the mutex was locked.
\* Seeded fault: it is forgotten at an inner lock too.
nnotifyLockedAlways(m) == 0
nnotifyLocked(m) == IF willUnlock(m) THEN 0 ELSE nnotify

isRunning(t) == t \notin waiters \cup woken
mayAcquire(t) ==
  isRunning(t) /\ acquired[t] < (IF recursive THEN MaxDepth ELSE 1)

acquire(t) ==
  /\ mayAcquire(t) /\ mayLock(mutex, t)
  /\ mutex' = locked(mutex, t) /\ nnotify' = nnotifyLocked(mutex')
  /\ acquired' = [acquired EXCEPT ![t] = @ + 1]
  /\ UNCHANGED <<recursive, waiters, woken, lockState, owed>>

tryAcquire(t) ==
  /\ mayAcquire(t) /\ mutex' = tried(mutex, t)
  /\ acquired' = [acquired EXCEPT ![t] = IF mutex' = mutex THEN @ ELSE @ + 1]
  /\ nnotify' = IF mutex' = mutex THEN nnotify ELSE nnotifyLocked(mutex')
  /\ UNCHANGED <<recursive, waiters, woken, lockState, owed>>

\* Monitor::unlock, by release() or the end of a LockT.
release(t) ==
  /\ isRunning(t) /\ acquired[t] > 0
  /\ IF willUnlock(mutex) THEN notifyImpl(nnotify, {})
     ELSE UNCHANGED <<waiters, woken, owed>>
  /\ mutex' = unlocked(mutex) /\ acquired' = [acquired EXCEPT ![t] = @ - 1]
  /\ UNCHANGED <<recursive, nnotify, lockState>>

notifyOne(t) ==
  /\ isRunning(t) /\ acquired[t] > 0 /\ nnotify < MaxNotify
  /\ nnotify' = IF nnotify = -1 THEN -1 ELSE nnotify + 1
  /\ owed' = atMost(owed + 1, Cardinality(waiters))
  /\ UNCHANGED <<recursive, mutex, acquired, waiters, woken, lockState>>

notifyEveryone(t) ==
  /\ isRunning(t) /\ acquired[t] > 0
  /\ nnotify' = -1 /\ owed' = Cardinality(waiters)
  /\ UNCHANGED <<recursive, mutex, acquired, waiters, woken, lockState>>

\* wait() and timedWait() send the signals first, to others.
wait(t) ==
  /\ isRunning(t) /\ acquired[t] > 0
  /\ notifyImpl(nnotify, {t})
  /\ lockState' = [lockState EXCEPT ![t] = saved(mutex)]
  /\ mutex' = pthreadUnlock(restored(mutex, 0))
  /\ UNCHANGED <<recursive, nnotify, acquired>>

\* A negative timeout: the signals are sent and the exception passes on.
timedWaitInvalid(t) ==
  /\ isRunning(t) /\ acquired[t] > 0
  /\ notifyImpl(nnotify, {}) /\ nnotify' = 0
  /\ UNCHANGED <<recursive, mutex, acquired, lockState>>

\* The timeout of timedWait, and the wake-ups that pthread makes of its own accord.
wakesUp(t) ==
  /\ t \in waiters /\ waiters' = waiters \ {t} /\ woken' = woken \cup {t}
  /\ owed' = atMost(owed, Cardinality(waiters'))
  /\ UNCHANGED <<recursive, mutex, nnotify, acquired, lockState>>

waitReturns(t) ==
  /\ t \in woken /\ mutex.holder = NoThread /\ woken' = woken \ {t}
  /\ mutex' = restored(pthreadLock(mutex, t), lockState[t])
  /\ lockState' = [lockState EXCEPT ![t] = 0]
  /\ nnotify' = 0
  /\ UNCHANGED <<recursive, acquired, waiters, owed>>

MonitorNext ==
  \E t \in MonThreads :
    \/ acquire(t) \/ tryAcquire(t) \/ release(t) \/ notifyOne(t) \/ notifyEveryone(t)
    \/ wait(t) \/ timedWaitInvalid(t) \/ wakesUp(t) \/ waitReturns(t)

-----------------------------------------------------------------------------

\* The monitor is held by the thread that has acquired it and does not wait, to the
\* depth that the thread knows of, and the pthread mutex is never locked twice: a
\* wait at any depth lets the others in and comes back to the same depth.
LockIsBalanced ==
  /\ \A t \in MonThreads : (mutex.holder = t) = (acquired[t] > 0 /\ isRunning(t))
  /\ mutex.depth = IF mutex.holder = NoThread THEN 0 ELSE 1
  /\ recursive /\ mutex.holder # NoThread => mutex.count = acquired[mutex.holder]
  /\ mutex.holder = NoThread => mutex.count = 0

\* A notification is not forgotten: when the monitor is free, as many waiters were
\* woken as the last holder has asked for, or none is left.
NotifyIsDelivered == mutex.holder = NoThread => owed = 0

\* What Monitor.h promises: a balanced lock, and notifications that arrive.
MonitorSafe == LockIsBalanced /\ NotifyIsDelivered
=============================================================================
