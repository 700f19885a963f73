----------------------------- MODULE TbsysProofs -----------------------------
(***************************************************************************)
(* Proofs about the components of tbsys that run side by side in Tbsys: a  *)
(* monitor keeps its lock balanced and forgets no notification, a scope    *)
(* whose guards got their locks is protected, a CQueueThread handles each  *)
(* item once at most and loses none, a Shared object lives as long as its  *)
(* users, a Service tells the truth about its daemon, is the only one of   *)
(* its pid file and is whole when a signal comes, and the times of a       *)
(* Profiler add up; for any threads, depths, guards, items, users,         *)
(* launches and entries.                                                   *)
(***************************************************************************)
EXTENDS Tbsys, FunctionTheorems, FiniteSetTheorems, SequenceTheorems, WellFoundedInduction, TLAPS

-----------------------------------------------------------------------------
(* Monitor: its invariant *)

\* A thread that waits has the monitor at the depth that its LockState keeps.
WaitersInv ==
  /\ waiters \cap woken = {}
  /\ \A t \in waiters \cup woken :
       acquired[t] > 0 /\ lockState[t] = IF recursive THEN acquired[t] ELSE 0
  /\ ~recursive => mutex.count = 0 /\ \A t \in MonThreads : acquired[t] <= 1

\* What waiters can expect is what will be signalled.
OwedInv == owed <= Cardinality(waiters) /\ (nnotify # -1 => owed <= nnotify)

MonitorInv == MonitorTypeOK /\ MonitorSafe /\ WaitersInv /\ OwedInv

-----------------------------------------------------------------------------
(* The mutex *)

HeldBy(t, n) == [holder |-> t, depth |-> 1, count |-> n]

LEMMA FirstLock ==
  ASSUME NEW t \in MonThreads
  PROVE  locked(Free, t) = HeldBy(t, IF recursive THEN 1 ELSE 0)
BY DEF locked, recMutexLock, mutexLock, pthreadLock, Free, HeldBy

LEMMA InnerLock ==
  ASSUME NEW t \in MonThreads, NEW n \in Nat, n > 0, recursive
  PROVE  locked(HeldBy(t, n), t) = HeldBy(t, n + 1)
<1>1. t # NoThread
  BY MonitorAssumption
<1> QED
  BY <1>1 DEF locked, recMutexLock, pthreadLock, pthreadUnlock, HeldBy

LEMMA LastUnlock ==
  ASSUME NEW t \in MonThreads
  PROVE  unlocked(HeldBy(t, IF recursive THEN 1 ELSE 0)) = Free
BY DEF unlocked, recMutexUnlock, mutexUnlock, pthreadUnlock, Free, HeldBy

LEMMA InnerUnlock ==
  ASSUME NEW t \in MonThreads, NEW n \in Nat, n > 1, recursive
  PROVE  unlocked(HeldBy(t, n)) = HeldBy(t, n - 1)
BY DEF unlocked, recMutexUnlock, HeldBy

LEMMA WaitUnlock ==
  ASSUME NEW t \in MonThreads, NEW n \in Nat
  PROVE  pthreadUnlock(restored(HeldBy(t, n), 0)) = Free
BY DEF pthreadUnlock, restored, Free, HeldBy

LEMMA WaitLock ==
  ASSUME NEW t \in MonThreads, NEW n \in Nat
  PROVE  restored(pthreadLock(Free, t), n) = HeldBy(t, n)
BY DEF pthreadLock, restored, Free, HeldBy

\* The mutex is as its holder knows it.
LEMMA HolderKnows ==
  ASSUME MonitorInv
  PROVE  /\ mutex.holder = NoThread => mutex = Free
         /\ \A t \in MonThreads : isRunning(t) /\ acquired[t] > 0 =>
              mutex = HeldBy(t, IF recursive THEN acquired[t] ELSE 0)
         /\ \A t \in MonThreads : isRunning(t) /\ mutex.holder # t => acquired[t] = 0
<1> USE DEF MonitorInv, MonitorTypeOK, MonitorSafe, LockIsBalanced, WaitersInv
<1>1. mutex = [holder |-> mutex.holder, depth |-> mutex.depth, count |-> mutex.count]
  OBVIOUS
<1>2. mutex.holder = NoThread => mutex = Free
  BY <1>1 DEF Free
<1>3. ASSUME NEW t \in MonThreads, isRunning(t), acquired[t] > 0
      PROVE  mutex = HeldBy(t, IF recursive THEN acquired[t] ELSE 0)
  BY <1>1, <1>3, MonitorAssumption DEF HeldBy
<1>4. ASSUME NEW t \in MonThreads, isRunning(t), mutex.holder # t
      PROVE  acquired[t] = 0
  BY <1>4
<1> QED
  BY <1>2, <1>3, <1>4

-----------------------------------------------------------------------------
(* The notifications *)

\* As many signals as there are waiters that can expect one, and more.
LEMMA Delivered ==
  ASSUME MonitorInv, NEW T \in SUBSET MonThreads, notifyImpl(nnotify, T)
  PROVE  /\ owed' = 0
         /\ waiters' \cup woken' = waiters \cup woken \cup T
         /\ waiters \cap T = {} => waiters' \cap woken' \subseteq T \cap woken
         /\ IsFiniteSet(waiters') /\ Cardinality(waiters') \in Nat
<1> USE DEF MonitorInv, MonitorTypeOK, OwedInv
<1>1. PICK S \in SUBSET waiters :
        /\ Cardinality(S) = IF nnotify = -1 THEN Cardinality(waiters) ELSE atMost(nnotify, Cardinality(waiters))
        /\ waiters' = (waiters \ S) \cup T /\ woken' = woken \cup S
        /\ owed' = IF owed > Cardinality(S) THEN owed - Cardinality(S) ELSE 0
  BY DEF notifyImpl
<1>2. IsFiniteSet(waiters) /\ Cardinality(waiters) \in Nat
  BY MonitorAssumption, FS_Subset, FS_CardinalityType
<1>3. owed \in Nat /\ nnotify \in Int
  BY <1>2
<1>4. owed <= Cardinality(S)
  <2>1. CASE nnotify = -1
    BY <1>1, <2>1
  <2>2. CASE nnotify # -1
    <3>1. owed <= nnotify /\ owed <= Cardinality(waiters)
      BY <2>2
    <3>2. Cardinality(S) = nnotify \/ Cardinality(S) = Cardinality(waiters)
      BY <1>1, <2>2 DEF atMost
    <3> QED
      BY <3>1, <3>2
  <2> QED
    BY <2>1, <2>2
<1>5. owed' = 0
  <2>1. Cardinality(S) \in Nat
    BY <1>2, FS_Subset, FS_CardinalityType
  <2> QED
    BY <1>1, <1>3, <1>4, <2>1
<1>6. IsFiniteSet(waiters') /\ Cardinality(waiters') \in Nat
  <2>1. waiters' \in SUBSET MonThreads
    BY <1>1
  <2> QED
    BY <2>1, MonitorAssumption, FS_Subset, FS_CardinalityType
<1>7. waiters' \cup woken' = waiters \cup woken \cup T
  BY <1>1
<1>8. waiters \cap T = {} => waiters' \cap woken' \subseteq T \cap woken
  BY <1>1 DEF WaitersInv
<1> QED
  BY <1>5, <1>6, <1>7, <1>8

-----------------------------------------------------------------------------
(* The steps *)

\* What remains to be shown of a step after which thread t has the monitor n times.
LEMMA HeldAfter ==
  ASSUME MonitorInv, NEW t \in MonThreads, NEW n \in 1..MaxDepth, ~recursive => n = 1, UNCHANGED recursive,
         mutex' = HeldBy(t, IF recursive THEN n ELSE 0), acquired' = [acquired EXCEPT ![t] = n],
         mutex.holder \in {t, NoThread}, waiters' \cup woken' = (waiters \cup woken) \ {t}
  PROVE  /\ LockIsBalanced'
         /\ mutex' \in [holder : MonThreads \cup {NoThread}, depth : 0..MaxDepth, count : 0..MaxDepth]
         /\ acquired' \in [MonThreads -> 0..MaxDepth]
         /\ ~recursive => mutex'.count = 0 /\ \A u \in MonThreads : acquired'[u] <= 1
<1> USE DEF MonitorInv, MonitorTypeOK, MonitorSafe, WaitersInv
<1>0. t # NoThread
  BY MonitorAssumption
<1>1. mutex'.holder = t /\ mutex'.depth = 1 /\ mutex'.count = IF recursive THEN n ELSE 0
  BY DEF HeldBy
<1>2. ASSUME NEW u \in MonThreads
      PROVE  (mutex'.holder = u) = (acquired'[u] > 0 /\ u \notin waiters' \cup woken')
  <2>1. CASE u = t
    BY <1>1, <2>1
  <2>2. CASE u # t
    <3>1. acquired'[u] = acquired[u] /\ (u \in waiters' \cup woken' <=> u \in waiters \cup woken)
      BY <2>2
    <3>2. ~(acquired[u] > 0 /\ u \notin waiters \cup woken)
      BY <2>2, MonitorAssumption DEF LockIsBalanced, isRunning
    <3> QED
      BY <1>1, <2>2, <3>1, <3>2
  <2> QED
    BY <2>1, <2>2
<1>3. LockIsBalanced'
  BY <1>0, <1>1, <1>2 DEF LockIsBalanced, isRunning
<1>4. mutex' \in [holder : MonThreads \cup {NoThread}, depth : 0..MaxDepth, count : 0..MaxDepth]
  BY MonitorAssumption DEF HeldBy
<1>5. acquired' \in [MonThreads -> 0..MaxDepth]
  OBVIOUS
<1>6. ~recursive => mutex'.count = 0 /\ \A u \in MonThreads : acquired'[u] <= 1
  BY <1>1
<1> QED
  BY <1>3, <1>4, <1>5, <1>6

LEMMA AcquireStep ==
  ASSUME MonitorInv, NEW t \in MonThreads, acquire(t)
  PROVE  MonitorInv'
<1> DEFINE n == acquired[t] + 1
<1> USE DEF MonitorInv, MonitorTypeOK, MonitorSafe, WaitersInv, OwedInv, acquire, mayAcquire
<1>0. t # NoThread /\ acquired[t] \in 0..MaxDepth
  BY MonitorAssumption
<1>1. n \in 1..MaxDepth /\ (~recursive => n = 1)
  BY <1>0, MonitorAssumption
<1>2. mutex.holder \in {t, NoThread} /\ (mutex.holder = t => recursive)
  BY <1>0 DEF mayLock
<1>3. mutex' = HeldBy(t, IF recursive THEN n ELSE 0)
  <2>1. CASE mutex.holder = NoThread
    BY <1>0, <2>1, HolderKnows, FirstLock
  <2>2. CASE mutex.holder = t
    <3>1. acquired[t] > 0 /\ mutex = HeldBy(t, acquired[t])
      BY <1>2, <2>2, HolderKnows DEF LockIsBalanced
    <3> QED
      BY <1>0, <1>2, <2>2, <3>1, InnerLock
  <2> QED
    BY <1>2, <2>1, <2>2
<1>4. acquired' = [acquired EXCEPT ![t] = n] /\ waiters' \cup woken' = (waiters \cup woken) \ {t}
  BY DEF isRunning
<1>5. /\ LockIsBalanced'
      /\ mutex' \in [holder : MonThreads \cup {NoThread}, depth : 0..MaxDepth, count : 0..MaxDepth]
      /\ acquired' \in [MonThreads -> 0..MaxDepth]
      /\ ~recursive => mutex'.count = 0 /\ \A u \in MonThreads : acquired'[u] <= 1
  BY <1>1, <1>2, <1>3, <1>4, HeldAfter
<1>6. nnotify' \in {0, nnotify}
  BY DEF nnotifyLocked
<1>7. OwedInv' /\ nnotify' \in -1..MaxNotify
  <2>1. CASE mutex.holder = NoThread
    <3>1. acquired[t] = 0 /\ owed = 0
      BY <1>0, <2>1, HolderKnows DEF NotifyIsDelivered
    <3> QED
      BY <1>6, <3>1, MonitorAssumption
  <2>2. CASE mutex.holder = t
    <3>1. acquired[t] > 0 /\ recursive
      BY <1>2, <2>2 DEF LockIsBalanced
    <3>2. mutex'.count > 1
      BY <1>0, <1>3, <3>1 DEF HeldBy
    <3>3. nnotify' = nnotify
      BY <3>1, <3>2 DEF nnotifyLocked, willUnlock
    <3> QED
      BY <3>3
  <2> QED
    BY <1>2, <2>1, <2>2
<1>8. NotifyIsDelivered'
  BY <1>0, <1>3 DEF NotifyIsDelivered, HeldBy
<1>9. WaitersInv'
  BY <1>4, <1>5 DEF isRunning
<1> QED
  BY <1>5, <1>7, <1>8, <1>9

LEMMA TryAcquireStep ==
  ASSUME MonitorInv, NEW t \in MonThreads, tryAcquire(t)
  PROVE  MonitorInv'
<1>1. CASE mayLock(mutex, t)
  <2>1. mutex' = locked(mutex, t)
    BY <1>1 DEF tryAcquire, tried, locked, recMutexTryLock, mutexTryLock
  <2>2. mutex' # mutex
    <3>1. t # NoThread /\ acquired[t] \in Nat
      BY MonitorAssumption DEF MonitorInv, MonitorTypeOK
    <3>2. CASE mutex.holder = NoThread
      BY <2>1, <3>1, <3>2, HolderKnows, FirstLock DEF HeldBy
    <3>3. CASE recursive /\ mutex.holder = t
      <4>1. acquired[t] > 0 /\ mutex = HeldBy(t, acquired[t])
        BY <3>3, HolderKnows DEF MonitorInv, MonitorSafe, LockIsBalanced
      <4>2. mutex' = HeldBy(t, acquired[t] + 1)
        BY <2>1, <3>1, <3>3, <4>1, InnerLock
      <4> QED
        BY <3>1, <4>1, <4>2 DEF HeldBy
    <3> QED
      BY <1>1, <3>2, <3>3 DEF mayLock
  <2>3. acquire(t)
    BY <1>1, <2>1, <2>2 DEF tryAcquire, acquire
  <2> QED
    BY <2>3, AcquireStep
<1>2. CASE ~mayLock(mutex, t)
  <2>1. mutex' = mutex
    BY <1>2 DEF tryAcquire, tried, recMutexTryLock, mutexTryLock
  <2>2. acquired' = acquired
    BY <2>1 DEF tryAcquire, MonitorInv, MonitorTypeOK
  <2>3. UNCHANGED monitorVars
    BY <2>1, <2>2 DEF tryAcquire, monitorVars
  <2> QED
    BY <2>3 DEF MonitorInv, MonitorTypeOK, MonitorSafe, WaitersInv, OwedInv, LockIsBalanced, NotifyIsDelivered,
                isRunning, monitorVars
<1> QED
  BY <1>1, <1>2

\* What remains to be shown of a step after which the monitor is free.
LEMMA FreeAfter ==
  ASSUME MonitorInv, NEW t \in MonThreads, mutex.holder = t, mutex' = Free, UNCHANGED recursive,
         \/ acquired' = [acquired EXCEPT ![t] = 0] /\ waiters' \cup woken' = waiters \cup woken
         \/ acquired' = acquired /\ waiters' \cup woken' = waiters \cup woken \cup {t}
  PROVE  /\ LockIsBalanced'
         /\ mutex' \in [holder : MonThreads \cup {NoThread}, depth : 0..MaxDepth, count : 0..MaxDepth]
         /\ acquired' \in [MonThreads -> 0..MaxDepth]
         /\ ~recursive => mutex'.count = 0 /\ \A u \in MonThreads : acquired'[u] <= 1
<1> USE DEF MonitorInv, MonitorTypeOK, MonitorSafe, WaitersInv
<1>0. t # NoThread /\ NoThread \notin MonThreads /\ MaxDepth \in Nat
  BY MonitorAssumption
<1>1. mutex'.holder = NoThread /\ mutex'.depth = 0 /\ mutex'.count = 0
  BY DEF Free
<1>2. ASSUME NEW u \in MonThreads
      PROVE  ~(acquired'[u] > 0 /\ u \notin waiters' \cup woken')
  <2>1. u # t => ~(acquired[u] > 0 /\ u \notin waiters \cup woken)
    BY DEF LockIsBalanced, isRunning
  <2> QED
    BY <2>1
<1>3. LockIsBalanced'
  BY <1>0, <1>1, <1>2 DEF LockIsBalanced, isRunning
<1>4. mutex' \in [holder : MonThreads \cup {NoThread}, depth : 0..MaxDepth, count : 0..MaxDepth]
  BY <1>0 DEF Free
<1>5. acquired' \in [MonThreads -> 0..MaxDepth] /\ \A u \in MonThreads : acquired'[u] \in {0, acquired[u]}
  BY <1>0
<1>6. ~recursive => mutex'.count = 0 /\ \A u \in MonThreads : acquired'[u] <= 1
  BY <1>1, <1>5
<1> QED
  BY <1>3, <1>4, <1>5, <1>6

LEMMA ReleaseStep ==
  ASSUME MonitorInv, NEW t \in MonThreads, release(t)
  PROVE  MonitorInv'
<1> USE DEF MonitorInv, MonitorTypeOK, MonitorSafe, WaitersInv, OwedInv, release
<1>0. t # NoThread /\ acquired[t] \in 1..MaxDepth
  BY MonitorAssumption
<1>1. mutex = HeldBy(t, IF recursive THEN acquired[t] ELSE 0) /\ mutex.holder = t
  BY HolderKnows DEF HeldBy
<1>2. CASE willUnlock(mutex)
  <2>1. acquired[t] = 1 /\ mutex' = Free
    BY <1>0, <1>1, <1>2, LastUnlock DEF willUnlock, HeldBy
  <2>2. /\ owed' = 0 /\ waiters' \cup woken' = waiters \cup woken /\ waiters' \cap woken' = {}
        /\ Cardinality(waiters') \in Nat
    BY <1>2, Delivered
  <2>3. /\ LockIsBalanced'
        /\ mutex' \in [holder : MonThreads \cup {NoThread}, depth : 0..MaxDepth, count : 0..MaxDepth]
        /\ acquired' \in [MonThreads -> 0..MaxDepth]
        /\ ~recursive => mutex'.count = 0 /\ \A u \in MonThreads : acquired'[u] <= 1
    <3>1. acquired' = [acquired EXCEPT ![t] = 0]
      BY <2>1
    <3> QED
      BY <1>1, <2>1, <2>2, <3>1, FreeAfter
  <2>4. MonitorTypeOK' /\ OwedInv'
    BY <2>2, <2>3
  <2>5. NotifyIsDelivered'
    BY <2>2 DEF NotifyIsDelivered
  <2>6. WaitersInv'
    <3>1. \A u \in waiters' \cup woken' : u # t /\ acquired'[u] = acquired[u]
      BY <2>2 DEF isRunning
    <3> QED
      BY <2>2, <2>3, <3>1
  <2> QED
    BY <2>3, <2>4, <2>5, <2>6
<1>3. CASE ~willUnlock(mutex)
  <2>1. recursive /\ acquired[t] > 1
    BY <1>0, <1>1, <1>3 DEF willUnlock, HeldBy
  <2>2. mutex' = HeldBy(t, acquired[t] - 1)
    BY <1>0, <1>1, <2>1, InnerUnlock
  <2>3. /\ LockIsBalanced'
        /\ mutex' \in [holder : MonThreads \cup {NoThread}, depth : 0..MaxDepth, count : 0..MaxDepth]
        /\ acquired' \in [MonThreads -> 0..MaxDepth]
        /\ ~recursive => mutex'.count = 0 /\ \A u \in MonThreads : acquired'[u] <= 1
    <3>1. acquired[t] - 1 \in 1..MaxDepth
      BY <1>0, <2>1, MonitorAssumption
    <3>2. waiters' \cup woken' = (waiters \cup woken) \ {t}
      BY <1>3 DEF isRunning
    <3> QED
      BY <1>1, <2>1, <2>2, <3>1, <3>2, HeldAfter
  <2>4. MonitorTypeOK' /\ OwedInv'
    BY <1>3, <2>3
  <2>5. NotifyIsDelivered'
    BY <1>0, <2>2 DEF NotifyIsDelivered, HeldBy
  <2>6. WaitersInv'
    <3>1. \A u \in waiters' \cup woken' : u # t /\ acquired'[u] = acquired[u]
      BY <1>3 DEF isRunning
    <3> QED
      BY <1>3, <2>3, <3>1
  <2> QED
    BY <2>3, <2>4, <2>5, <2>6
<1> QED
  BY <1>2, <1>3

\* notify() and notifyAll() count, and change neither the lock nor who waits.
LEMMA NotifyStep ==
  ASSUME MonitorInv, NEW t \in MonThreads, notifyOne(t) \/ notifyEveryone(t)
  PROVE  MonitorInv'
<1> USE DEF MonitorInv, MonitorTypeOK, MonitorSafe, OwedInv
<1>1. UNCHANGED <<recursive, mutex, acquired, waiters, woken, lockState>>
  BY DEF notifyOne, notifyEveryone
<1>2. LockIsBalanced' /\ WaitersInv'
  BY <1>1 DEF LockIsBalanced, WaitersInv, isRunning
<1>3. mutex.holder = t /\ t # NoThread
  BY MonitorAssumption DEF LockIsBalanced, notifyOne, notifyEveryone
<1>4. NotifyIsDelivered'
  BY <1>1, <1>3 DEF NotifyIsDelivered
<1>5. Cardinality(waiters) \in Nat
  BY MonitorAssumption, FS_Subset, FS_CardinalityType
<1>6. owed' \in 0..Cardinality(waiters') /\ nnotify' \in -1..MaxNotify /\ (nnotify' # -1 => owed' <= nnotify')
  BY <1>1, <1>5, MonitorAssumption DEF notifyOne, notifyEveryone, atMost
<1> QED
  BY <1>1, <1>2, <1>4, <1>6

LEMMA WaitStep ==
  ASSUME MonitorInv, NEW t \in MonThreads, wait(t)
  PROVE  MonitorInv'
<1> USE DEF MonitorInv, MonitorTypeOK, MonitorSafe, OwedInv
<1>0. t # NoThread /\ acquired[t] \in 1..MaxDepth /\ t \notin waiters \cup woken
  BY MonitorAssumption DEF wait, isRunning
<1>1. mutex = HeldBy(t, IF recursive THEN acquired[t] ELSE 0) /\ mutex.holder = t
  BY <1>0, HolderKnows DEF HeldBy, isRunning
<1>2. mutex' = Free
  BY <1>0, <1>1, WaitUnlock DEF wait
<1>3. /\ owed' = 0 /\ waiters' \cup woken' = waiters \cup woken \cup {t} /\ waiters' \cap woken' = {}
      /\ Cardinality(waiters') \in Nat
  BY <1>0, Delivered DEF wait
<1>4. /\ LockIsBalanced'
      /\ mutex' \in [holder : MonThreads \cup {NoThread}, depth : 0..MaxDepth, count : 0..MaxDepth]
      /\ acquired' \in [MonThreads -> 0..MaxDepth]
      /\ ~recursive => mutex'.count = 0 /\ \A u \in MonThreads : acquired'[u] <= 1
  BY <1>1, <1>2, <1>3, FreeAfter DEF wait
<1>5. lockState' = [lockState EXCEPT ![t] = IF recursive THEN acquired[t] ELSE 0]
  BY <1>1 DEF wait, saved, HeldBy
<1>6. WaitersInv'
  BY <1>0, <1>3, <1>4, <1>5 DEF WaitersInv, wait
<1>7. NotifyIsDelivered'
  BY <1>3 DEF NotifyIsDelivered
<1>8. waiters' \subseteq MonThreads /\ woken' \subseteq MonThreads /\ lockState' \in [MonThreads -> 0..MaxDepth]
  BY <1>0, <1>3, <1>5, MonitorAssumption
<1>9. UNCHANGED <<recursive, nnotify>>
  BY DEF wait
<1>10. OwedInv'
  BY <1>3, <1>9
<1> QED
  BY <1>3, <1>4, <1>6, <1>7, <1>8, <1>9, <1>10

LEMMA TimedWaitInvalidStep ==
  ASSUME MonitorInv, NEW t \in MonThreads, timedWaitInvalid(t)
  PROVE  MonitorInv'
<1> USE DEF MonitorInv, MonitorTypeOK, MonitorSafe, OwedInv
<1>1. /\ owed' = 0 /\ waiters' \cup woken' = waiters \cup woken /\ waiters' \cap woken' = {}
      /\ Cardinality(waiters') \in Nat
  BY Delivered DEF timedWaitInvalid
<1>2. UNCHANGED <<recursive, mutex, acquired, lockState>> /\ nnotify' = 0
  BY DEF timedWaitInvalid
<1>3. LockIsBalanced'
  BY <1>1, <1>2 DEF LockIsBalanced, isRunning
<1>4. WaitersInv'
  BY <1>1, <1>2 DEF WaitersInv
<1>5. NotifyIsDelivered'
  BY <1>1 DEF NotifyIsDelivered
<1> QED
  BY <1>1, <1>2, <1>3, <1>4, <1>5, MonitorAssumption

LEMMA WakesUpStep ==
  ASSUME MonitorInv, NEW t \in MonThreads, wakesUp(t)
  PROVE  MonitorInv'
<1> USE DEF MonitorInv, MonitorTypeOK, MonitorSafe, OwedInv
<1>1. UNCHANGED <<recursive, mutex, nnotify, acquired, lockState>>
  BY DEF wakesUp
<1>2. waiters' \cup woken' = waiters \cup woken /\ waiters' \cap woken' = {}
  BY DEF wakesUp, WaitersInv
<1>3. Cardinality(waiters) \in Nat /\ Cardinality(waiters') \in Nat
  BY MonitorAssumption, FS_Subset, FS_CardinalityType DEF wakesUp
<1>4. owed' \in 0..Cardinality(waiters') /\ owed' <= owed
  BY <1>3 DEF wakesUp, atMost
<1>5. LockIsBalanced'
  BY <1>1, <1>2 DEF LockIsBalanced, isRunning
<1>6. WaitersInv'
  BY <1>1, <1>2 DEF WaitersInv
<1>7. NotifyIsDelivered'
  BY <1>1, <1>3, <1>4 DEF NotifyIsDelivered
<1>8. OwedInv'
  BY <1>1, <1>3, <1>4
<1> QED
  BY <1>1, <1>2, <1>4, <1>5, <1>6, <1>7, <1>8

LEMMA WaitReturnsStep ==
  ASSUME MonitorInv, NEW t \in MonThreads, waitReturns(t)
  PROVE  MonitorInv'
<1> USE DEF MonitorInv, MonitorTypeOK, MonitorSafe, OwedInv
<1>0. t # NoThread /\ acquired[t] \in 1..MaxDepth /\ t \in woken /\ t \notin waiters /\ mutex.holder = NoThread
  BY MonitorAssumption DEF waitReturns, WaitersInv
<1>1. lockState[t] = (IF recursive THEN acquired[t] ELSE 0) /\ (~recursive => acquired[t] = 1)
  BY <1>0 DEF WaitersInv
<1>2. mutex' = HeldBy(t, IF recursive THEN acquired[t] ELSE 0)
  BY <1>0, <1>1, HolderKnows, WaitLock DEF waitReturns
<1>3. UNCHANGED <<recursive, acquired, waiters, owed>> /\ nnotify' = 0 /\ woken' = woken \ {t}
  BY DEF waitReturns
<1>4. /\ LockIsBalanced'
      /\ mutex' \in [holder : MonThreads \cup {NoThread}, depth : 0..MaxDepth, count : 0..MaxDepth]
      /\ acquired' \in [MonThreads -> 0..MaxDepth]
      /\ ~recursive => mutex'.count = 0 /\ \A u \in MonThreads : acquired'[u] <= 1
  <2>1. acquired' = [acquired EXCEPT ![t] = acquired[t]] /\ waiters' \cup woken' = (waiters \cup woken) \ {t}
    BY <1>0, <1>3
  <2> QED
    BY <1>0, <1>1, <1>2, <1>3, <2>1, HeldAfter
<1>5. lockState' = [lockState EXCEPT ![t] = 0]
  BY DEF waitReturns
<1>6. WaitersInv'
  BY <1>0, <1>3, <1>4, <1>5 DEF WaitersInv
<1>7. NotifyIsDelivered'
  BY <1>0, <1>3 DEF NotifyIsDelivered
<1>8. owed' = 0 /\ OwedInv'
  BY <1>0, <1>3 DEF NotifyIsDelivered
<1> QED
  BY <1>3, <1>4, <1>5, <1>6, <1>7, <1>8, MonitorAssumption

-----------------------------------------------------------------------------

\* Init implies the invariant, whatever the kind of the mutex.
LEMMA MonitorStarts == MonitorInit => MonitorInv
<1> SUFFICES ASSUME MonitorInit PROVE MonitorInv
  OBVIOUS
<1> USE DEF MonitorInit, Free
<1>1. MonitorTypeOK
  <2>1. Cardinality(waiters) = 0
    BY FS_EmptySet
  <2> QED
    BY <2>1, MonitorAssumption DEF MonitorTypeOK
<1>2. MonitorSafe
  BY MonitorAssumption DEF MonitorSafe, LockIsBalanced, NotifyIsDelivered
<1>3. WaitersInv /\ OwedInv
  BY FS_EmptySet DEF WaitersInv, OwedInv
<1> QED
  BY <1>1, <1>2, <1>3 DEF MonitorInv

\* Monitor.h and RecMutex.cpp: over a mutex of either kind, for any number of threads and
\* any depth, the monitor is held by the thread whose LockT objects hold it, as deep as
\* they do, and when it is free every notification that it owes has been sent.
THEOREM MonitorIsSafe == Spec => []MonitorSafe
<1>1. Init => MonitorInv
  BY MonitorStarts DEF Init
<1>2. MonitorInv /\ [Next]_vars => MonitorInv'
  <2> SUFFICES ASSUME MonitorInv, [MonitorNext]_monitorVars PROVE MonitorInv'
    BY DEF Next, only, vars
  <2>1. CASE UNCHANGED monitorVars
    BY <2>1 DEF MonitorInv, MonitorTypeOK, MonitorSafe, WaitersInv, OwedInv, LockIsBalanced, NotifyIsDelivered,
                isRunning, monitorVars
  <2>2. CASE MonitorNext
    <3> PICK t \in MonThreads :
          \/ acquire(t) \/ tryAcquire(t) \/ release(t) \/ notifyOne(t) \/ notifyEveryone(t)
          \/ wait(t) \/ timedWaitInvalid(t) \/ wakesUp(t) \/ waitReturns(t)
      BY <2>2 DEF MonitorNext
    <3> QED
      BY AcquireStep, TryAcquireStep, ReleaseStep, NotifyStep, WaitStep, TimedWaitInvalidStep, WakesUpStep,
         WaitReturnsStep
  <2> QED
    BY <2>1, <2>2
<1>3. MonitorInv => MonitorSafe
  BY DEF MonitorInv
<1> QED
  BY <1>1, <1>2, <1>3, PTL DEF Spec

-----------------------------------------------------------------------------
(* LockGuard: its invariant *)

\* A writer excludes every reader, itself included, even after a stray unlock.
WriterAlone == rwlock.writer # Nobody => \A t \in RwThreads : rwlock.readers[t] = 0

\* The lock has no more reads of a thread than the thread has guards.
ReadsBounded == \A t \in RwThreads : rwlock.readers[t] <= Len(guards[t])

\* A thread that waits has room for the guard that it waits for.
BlockedInv == \A t \in RwThreads : blockedFor[t] # "none" => Len(guards[t]) < MaxGuards

\* The lock is what the guards that got it say.
GuardsCounted(t) ==
  /\ acquiredBy(t, "read") = rwlock.readers[t]
  /\ acquiredBy(t, "write") = IF rwlock.writer = t THEN 1 ELSE 0

CountInv == ~stray => \A t \in RwThreads : GuardsCounted(t)
SimpleInv == lockKind = "CRWSimpleLock" => ~stray

GuardInv == GuardTypeOK /\ WriterAlone /\ ReadsBounded /\ BlockedInv /\ CountInv /\ SimpleInv

-----------------------------------------------------------------------------
(* Guards of a thread that have a side of the lock *)

LEMMA AcquiredNat ==
  ASSUME NEW s \in Seq(Guard), NEW side
  PROVE  /\ IsFiniteSet({i \in 1..Len(s) : s[i].acquired /\ s[i].side = side})
         /\ acquiredIn(s, side) \in Nat
<1>1. Len(s) \in Nat
  OBVIOUS
<1>2. IsFiniteSet(1..Len(s))
  BY <1>1, FS_Interval
<1>3. {i \in 1..Len(s) : s[i].acquired /\ s[i].side = side} \in SUBSET (1..Len(s))
  OBVIOUS
<1> QED
  BY <1>2, <1>3, FS_Subset, FS_CardinalityType DEF acquiredIn

LEMMA AcquiredEmpty ==
  ASSUME NEW side
  PROVE  acquiredIn(<<>>, side) = 0
<1>1. {i \in 1..Len(<<>>) : <<>>[i].acquired /\ <<>>[i].side = side} = {}
  OBVIOUS
<1> QED
  BY <1>1, FS_EmptySet DEF acquiredIn

\* A new guard counts if it got that side.
LEMMA AcquiredAppend ==
  ASSUME NEW s \in Seq(Guard), NEW g \in Guard, NEW side
  PROVE  acquiredIn(Append(s, g), side)
           = acquiredIn(s, side) + IF g.acquired /\ g.side = side THEN 1 ELSE 0
<1> DEFINE A == {i \in 1..Len(s) : s[i].acquired /\ s[i].side = side}
           B == {i \in 1..Len(Append(s, g)) : Append(s, g)[i].acquired /\ Append(s, g)[i].side = side}
           n == Len(s) + 1
<1>1. Len(s) \in Nat /\ Len(Append(s, g)) = n /\ Append(s, g)[n] = g
  OBVIOUS
<1>2. \A i \in 1..Len(s) : Append(s, g)[i] = s[i]
  OBVIOUS
<1>3. IsFiniteSet(A)
  BY AcquiredNat
<1>n. n \notin A
  BY <1>1
<1>4. B = IF g.acquired /\ g.side = side THEN A \cup {n} ELSE A
  BY <1>1, <1>2
<1>5. Cardinality(A \cup {n}) = Cardinality(A) + 1 /\ Cardinality(A) \in Nat
  BY <1>3, <1>n, FS_AddElement, FS_CardinalityType
<1>7. acquiredIn(s, side) = Cardinality(A) /\ acquiredIn(Append(s, g), side) = Cardinality(B)
  BY DEF acquiredIn
<1>8. CASE g.acquired /\ g.side = side
  <2>1. B = A \cup {n}
    BY <1>4, <1>8
  <2> HIDE DEF A, B
  <2> QED
    BY <1>5, <1>7, <1>8, <2>1
<1>9. CASE ~(g.acquired /\ g.side = side)
  <2>1. B = A
    BY <1>4, <1>9
  <2> HIDE DEF A, B
  <2> QED
    BY <1>5, <1>7, <1>9, <2>1
<1> QED
  BY <1>8, <1>9

\* Without its last guard a thread has one less of the side that this guard got.
LEMMA AcquiredFront ==
  ASSUME NEW s \in Seq(Guard), s # <<>>, NEW side
  PROVE  /\ Front(s) \in Seq(Guard) /\ Len(Front(s)) = Len(s) - 1 /\ Last(s) \in Guard
         /\ acquiredIn(s, side)
              = acquiredIn(Front(s), side) + IF Last(s).acquired /\ Last(s).side = side THEN 1 ELSE 0
<1>1. Len(s) \in Nat \ {0}
  BY EmptySeq
<1>2. Front(s) \in Seq(Guard) /\ Len(Front(s)) = Len(s) - 1 /\ Last(s) \in Guard
  <2> DEFINE n == Len(s) - 1
  <2>1. n \in Nat /\ n <= Len(s) /\ \A i \in 1..n : s[i] \in Guard
    BY <1>1
  <2>2. SubSeq(s, 1, n) = [i \in 1..n |-> s[i]]
    BY <1>1, <2>1
  <2>3. [i \in 1..n |-> s[i]] \in Seq(Guard) /\ Len([i \in 1..n |-> s[i]]) = n
    BY <2>1
  <2>4. Front(s) = SubSeq(s, 1, n) /\ Last(s) = s[Len(s)]
    BY DEF Front, Last
  <2>5. Front(s) \in Seq(Guard) /\ Len(Front(s)) = n
    BY <2>2, <2>3, <2>4
  <2>6. s[Len(s)] \in Guard
    BY <1>1
  <2> QED
    BY <2>4, <2>5, <2>6
<1>3. \A i \in 1..Len(s) - 1 : Front(s)[i] = s[i]
  BY <1>1, <1>2 DEF Front
<1>4. Append(Front(s), Last(s)) = s
  BY <1>1, <1>2, <1>3, SeqEqual DEF Last
<1> QED
  BY <1>2, <1>4, AcquiredAppend

LEMMA AcquiredAtMost ==
  ASSUME NEW s \in Seq(Guard), NEW side
  PROVE  acquiredIn(s, side) <= Len(s)
<1> DEFINE A == {i \in 1..Len(s) : s[i].acquired /\ s[i].side = side}
<1>1. Len(s) \in Nat
  OBVIOUS
<1>2. IsFiniteSet(1..Len(s)) /\ Cardinality(1..Len(s)) = Len(s)
  <2> HIDE DEF A
  <2>1. /\ IsFiniteSet(1..Len(s))
        /\ Cardinality(1..Len(s)) = IF 1 > Len(s) THEN 0 ELSE Len(s) - 1 + 1
    BY <1>1, FS_Interval
  <2> QED
    BY <1>1, <2>1
<1>3. A \subseteq 1..Len(s)
  OBVIOUS
<1>4. Cardinality(A) <= Cardinality(1..Len(s))
  <2> HIDE DEF A
  <2> QED
    BY <1>2, <1>3, FS_Subset
<1> QED
  BY <1>2, <1>4 DEF acquiredIn

-----------------------------------------------------------------------------
(* The invariant is inductive *)

LEMMA GuardStarts == GuardInit => GuardInv
<1> SUFFICES ASSUME GuardInit PROVE GuardInv
  OBVIOUS
<1> USE GuardAssumption DEF GuardInit, rwlockInit
<1>1. GuardTypeOK
  <2>1. <<>> \in Seq(Guard) /\ Len(<<>>) = 0
    OBVIOUS
  <2>2. guards \in [RwThreads -> Seq(Guard)] /\ \A t \in RwThreads : Len(guards[t]) <= MaxGuards
    BY <2>1
  <2>3. rwlock \in [readers : [RwThreads -> 0..MaxGuards], writer : RwThreads \cup {Nobody}]
    OBVIOUS
  <2>4. lockKind \in Kinds /\ lockMode \in ELockMode /\ stray \in BOOLEAN
    BY DEF Kinds, ELockMode
  <2> QED
    BY <2>2, <2>3, <2>4 DEF GuardTypeOK
<1>2. WriterAlone /\ ReadsBounded /\ BlockedInv /\ SimpleInv
  BY DEF WriterAlone, ReadsBounded, BlockedInv, SimpleInv
<1>3. CountInv
  BY AcquiredEmpty DEF CountInv, GuardsCounted, acquiredBy
<1> QED
  BY <1>1, <1>2, <1>3 DEF GuardInv

\* The sequence of guards of every thread, and what a new guard adds to it.
LEMMA Constructs ==
  ASSUME GuardInv, NEW t \in RwThreads, NEW side \in {"read", "write"}, NEW got \in BOOLEAN,
         Len(guards[t]) < MaxGuards, constructed(t, side, got)
  PROVE  /\ guards' \in [RwThreads -> Seq(Guard)]
         /\ \A u \in RwThreads : Len(guards'[u]) = IF u = t THEN Len(guards[u]) + 1 ELSE Len(guards[u])
         /\ \A u \in RwThreads : Len(guards'[u]) \in Nat /\ Len(guards'[u]) <= MaxGuards
         /\ \A u \in RwThreads, x \in {"read", "write"} :
              /\ acquiredBy(u, x) \in Nat
              /\ acquiredBy(u, x)'
                   = IF u = t /\ got /\ x = side THEN acquiredBy(u, x) + 1 ELSE acquiredBy(u, x)
<1> DEFINE g == [side |-> side, acquired |-> got]
<1>0. guards \in [RwThreads -> Seq(Guard)] /\ \A u \in RwThreads : Len(guards[u]) <= MaxGuards
  BY DEF GuardInv, GuardTypeOK
<1>1. g \in Guard /\ g.side = side /\ g.acquired = got
  BY DEF Guard
<1>2. guards' = [guards EXCEPT ![t] = Append(@, g)]
  BY DEF constructed
<1> HIDE DEF g
<1>3. \A u \in RwThreads : guards[u] \in Seq(Guard) /\ Len(guards[u]) \in Nat
  BY <1>0
<1>4. Append(guards[t], g) \in Seq(Guard) /\ Len(Append(guards[t], g)) = Len(guards[t]) + 1
  BY <1>1, <1>3
<1>5. \A u \in RwThreads : guards'[u] = IF u = t THEN Append(guards[t], g) ELSE guards[u]
  BY <1>0, <1>2
<1>6. guards' \in [RwThreads -> Seq(Guard)]
  BY <1>0, <1>2, <1>4
<1>7. \A u \in RwThreads : Len(guards'[u]) = IF u = t THEN Len(guards[u]) + 1 ELSE Len(guards[u])
  BY <1>3, <1>4, <1>5
<1>8. \A u \in RwThreads : Len(guards'[u]) \in Nat /\ Len(guards'[u]) <= MaxGuards
  BY <1>0, <1>3, <1>7, GuardAssumption
<1>9. ASSUME NEW u \in RwThreads, NEW x \in {"read", "write"}
      PROVE  /\ acquiredBy(u, x) \in Nat
             /\ acquiredBy(u, x)' = IF u = t /\ got /\ x = side THEN acquiredBy(u, x) + 1 ELSE acquiredBy(u, x)
  <2>1. acquiredBy(u, x) = acquiredIn(guards[u], x) /\ acquiredBy(u, x)' = acquiredIn(guards'[u], x)
    BY DEF acquiredBy, acquiredIn
  <2>2. acquiredIn(guards[u], x) \in Nat
    BY <1>3, AcquiredNat
  <2>3. acquiredIn(Append(guards[t], g), x)
          = acquiredIn(guards[t], x) + IF g.acquired /\ g.side = x THEN 1 ELSE 0
    BY <1>1, <1>3, AcquiredAppend
  <2> QED
    BY <1>1, <1>5, <2>1, <2>2, <2>3
<1> QED
  BY <1>6, <1>7, <1>8, <1>9

\* A guard that gets the lock, at once or when the blocked call returns.
LEMMA Takes ==
  ASSUME GuardInv, NEW t \in RwThreads, NEW side \in {"read", "write"},
         Len(guards[t]) < MaxGuards, mayLockSide(side),
         rwlock' = taken(t, side), constructed(t, side, TRUE),
         blockedFor' = blockedFor \/ blockedFor' = [blockedFor EXCEPT ![t] = "none"],
         blockedFor[t] = "none" \/ blockedFor' = [blockedFor EXCEPT ![t] = "none"],
         UNCHANGED <<lockKind, lockMode, stray>>
  PROVE  GuardInv'
<1> USE GuardAssumption
<1>0. /\ GuardTypeOK /\ WriterAlone /\ ReadsBounded /\ BlockedInv /\ CountInv /\ SimpleInv
      /\ \A u \in RwThreads : rwlock.readers[u] \in Nat
  BY DEF GuardInv, GuardTypeOK
<1>1. /\ guards' \in [RwThreads -> Seq(Guard)]
      /\ \A u \in RwThreads : Len(guards'[u]) = IF u = t THEN Len(guards[u]) + 1 ELSE Len(guards[u])
      /\ \A u \in RwThreads : Len(guards'[u]) \in Nat /\ Len(guards'[u]) <= MaxGuards
      /\ \A u \in RwThreads, x \in {"read", "write"} :
           /\ acquiredBy(u, x) \in Nat
           /\ acquiredBy(u, x)' = IF u = t /\ x = side THEN acquiredBy(u, x) + 1 ELSE acquiredBy(u, x)
  <2>1. /\ guards' \in [RwThreads -> Seq(Guard)]
        /\ \A u \in RwThreads : Len(guards'[u]) = IF u = t THEN Len(guards[u]) + 1 ELSE Len(guards[u])
        /\ \A u \in RwThreads : Len(guards'[u]) \in Nat /\ Len(guards'[u]) <= MaxGuards
        /\ \A u \in RwThreads, x \in {"read", "write"} :
             /\ acquiredBy(u, x) \in Nat
             /\ acquiredBy(u, x)'
                  = IF u = t /\ TRUE /\ x = side THEN acquiredBy(u, x) + 1 ELSE acquiredBy(u, x)
    BY Constructs, Zenon
  <2> QED
    BY <2>1
<1>2. rwlock.writer = Nobody /\ (side = "write" => \A u \in RwThreads : rwlock.readers[u] = 0)
  BY DEF mayLockSide, mayRead, mayWrite
<1>3. /\ \A u \in RwThreads : Len(guards[u]) \in Nat
      /\ \A u \in RwThreads :
           rwlock'.readers[u]
             = IF u = t /\ side = "read" THEN rwlock.readers[u] + 1 ELSE rwlock.readers[u]
      /\ rwlock'.writer = IF side = "write" THEN t ELSE Nobody
  BY <1>0, <1>2 DEF taken, GuardTypeOK
<1>4. ReadsBounded'
  <2> SUFFICES ASSUME NEW u \in RwThreads
               PROVE  rwlock'.readers[u] <= Len(guards'[u])
    BY DEF ReadsBounded
  <2>1. rwlock.readers[u] <= Len(guards[u]) /\ rwlock.readers[u] \in Nat
    BY <1>0 DEF ReadsBounded
  <2>2. Len(guards[u]) \in Nat
        /\ Len(guards'[u]) = IF u = t THEN Len(guards[u]) + 1 ELSE Len(guards[u])
    BY <1>1, <1>3
  <2>3. rwlock'.readers[u]
          = IF u = t /\ side = "read" THEN rwlock.readers[u] + 1 ELSE rwlock.readers[u]
    BY <1>3
  <2>4. CASE u = t
    <3>1. Len(guards'[u]) = Len(guards[u]) + 1
      BY <2>2, <2>4
    <3>2. rwlock'.readers[u] \in {rwlock.readers[u], rwlock.readers[u] + 1}
      BY <2>3
    <3> QED
      BY <2>1, <2>2, <3>1, <3>2
  <2>5. CASE u # t
    BY <2>1, <2>2, <2>3, <2>5
  <2> QED
    BY <2>4, <2>5
<1>5. GuardTypeOK'
  <2>1. rwlock' \in [readers : [RwThreads -> 0..MaxGuards], writer : RwThreads \cup {Nobody}]
    <3>1. ASSUME NEW u \in RwThreads
          PROVE  rwlock'.readers[u] \in 0..MaxGuards
      <4>1. rwlock'.readers[u] \in Nat
        BY <1>0, <1>3
      <4>2. rwlock'.readers[u] <= Len(guards'[u]) /\ Len(guards'[u]) \in Nat /\ Len(guards'[u]) <= MaxGuards
        BY <1>1, <1>4 DEF ReadsBounded
      <4> QED
        BY <4>1, <4>2
    <3> QED
      BY <1>0, <3>1 DEF taken, GuardTypeOK
  <2>2. blockedFor' \in [RwThreads -> {"none", "read", "write"}]
    BY <1>0 DEF GuardTypeOK
  <2> QED
    BY <1>0, <1>1, <2>1, <2>2 DEF GuardTypeOK
<1>6. WriterAlone'
  BY <1>0, <1>2, <1>3 DEF WriterAlone
<1>7. BlockedInv'
  <2> SUFFICES ASSUME NEW u \in RwThreads, blockedFor'[u] # "none"
               PROVE  Len(guards'[u]) < MaxGuards
    BY DEF BlockedInv
  <2>1. u # t /\ blockedFor[u] # "none"
    BY <1>0 DEF GuardTypeOK
  <2>2. Len(guards[u]) < MaxGuards
    BY <1>0, <2>1 DEF BlockedInv
  <2>3. Len(guards'[u]) = Len(guards[u])
    BY <1>1, <2>1
  <2> QED
    BY <1>3, <2>2, <2>3
<1>8. CountInv'
  <2> SUFFICES ASSUME ~stray, NEW u \in RwThreads
               PROVE  GuardsCounted(u)'
    BY DEF CountInv
  <2>1. GuardsCounted(u)
    BY <1>0 DEF CountInv
  <2>2. acquiredBy(u, "read")' = rwlock'.readers[u]
    BY <1>1, <1>3, <2>1 DEF GuardsCounted
  <2>3. acquiredBy(u, "write")' = IF rwlock'.writer = u THEN 1 ELSE 0
    BY <1>1, <1>2, <1>3, <2>1 DEF GuardsCounted
  <2> QED
    BY <2>2, <2>3 DEF GuardsCounted
<1>9. SimpleInv'
  BY <1>0 DEF SimpleInv
<1> QED
  BY <1>4, <1>5, <1>6, <1>7, <1>8, <1>9 DEF GuardInv

\* A guard that does not get the lock, of a thread that writes or only tries.
LEMMA Fails ==
  ASSUME GuardInv, NEW t \in RwThreads, NEW side \in {"read", "write"},
         Len(guards[t]) < MaxGuards, blockedFor[t] = "none", constructed(t, side, FALSE),
         UNCHANGED <<rwlock, blockedFor, lockKind, lockMode, stray>>
  PROVE  GuardInv'
<1> USE GuardAssumption
<1>0. GuardTypeOK /\ WriterAlone /\ ReadsBounded /\ BlockedInv /\ CountInv /\ SimpleInv
  BY DEF GuardInv
<1>1. /\ guards' \in [RwThreads -> Seq(Guard)]
      /\ \A u \in RwThreads : Len(guards'[u]) = IF u = t THEN Len(guards[u]) + 1 ELSE Len(guards[u])
      /\ \A u \in RwThreads : Len(guards'[u]) \in Nat /\ Len(guards'[u]) <= MaxGuards
      /\ \A u \in RwThreads, x \in {"read", "write"} :
           acquiredBy(u, x) \in Nat /\ acquiredBy(u, x)' = acquiredBy(u, x)
  <2>1. \A u \in RwThreads, x \in {"read", "write"} :
          /\ acquiredBy(u, x) \in Nat
          /\ acquiredBy(u, x)' = IF u = t /\ FALSE /\ x = side THEN acquiredBy(u, x) + 1 ELSE acquiredBy(u, x)
    BY Constructs, Zenon
  <2>2. \A u \in RwThreads, x \in {"read", "write"} :
          acquiredBy(u, x) \in Nat /\ acquiredBy(u, x)' = acquiredBy(u, x)
    BY <2>1
  <2> QED
    BY Constructs, <2>2, Zenon
<1>2. \A u \in RwThreads : Len(guards[u]) \in Nat /\ rwlock.readers[u] \in Nat
  BY <1>0 DEF GuardTypeOK
<1>3. GuardTypeOK' /\ WriterAlone' /\ SimpleInv'
  BY <1>0, <1>1 DEF GuardTypeOK, WriterAlone, SimpleInv
<1>4. ReadsBounded'
  <2> SUFFICES ASSUME NEW u \in RwThreads
               PROVE  rwlock'.readers[u] <= Len(guards'[u])
    BY DEF ReadsBounded
  <2>1. rwlock.readers[u] <= Len(guards[u]) /\ rwlock' = rwlock
    BY <1>0 DEF ReadsBounded
  <2>2. Len(guards'[u]) \in {Len(guards[u]), Len(guards[u]) + 1}
    BY <1>1
  <2> QED
    BY <1>2, <2>1, <2>2
<1>5. BlockedInv'
  <2> SUFFICES ASSUME NEW u \in RwThreads, blockedFor'[u] # "none"
               PROVE  Len(guards'[u]) < MaxGuards
    BY DEF BlockedInv
  <2>1. u # t /\ Len(guards[u]) < MaxGuards
    BY <1>0 DEF BlockedInv
  <2>2. Len(guards'[u]) = Len(guards[u])
    BY <1>1, <2>1
  <2> QED
    BY <1>2, <2>1, <2>2
<1>6. CountInv'
  BY <1>0, <1>1 DEF CountInv, GuardsCounted
<1> QED
  BY <1>3, <1>4, <1>5, <1>6 DEF GuardInv

LEMMA Blocks ==
  ASSUME GuardInv, NEW t \in RwThreads, NEW side \in {"read", "write"},
         Len(guards[t]) < MaxGuards, blockedFor' = [blockedFor EXCEPT ![t] = side],
         UNCHANGED <<rwlock, guards, lockKind, lockMode, stray>>
  PROVE  GuardInv'
<1>1. GuardTypeOK'
  BY DEF GuardInv, GuardTypeOK
<1>2. WriterAlone' /\ ReadsBounded' /\ SimpleInv'
  BY DEF GuardInv, WriterAlone, ReadsBounded, SimpleInv
<1>3. BlockedInv'
  BY DEF GuardInv, GuardTypeOK, BlockedInv
<1>4. CountInv'
  BY DEF GuardInv, CountInv, GuardsCounted, acquiredBy
<1> QED
  BY <1>1, <1>2, <1>3, <1>4 DEF GuardInv

\* No unlock adds a holder, whoever calls it.
LEMMA Unlocks ==
  ASSUME GuardTypeOK, WriterAlone, NEW t \in RwThreads, NEW new \in unlockResults(t)
  PROVE  /\ new \in [readers : [RwThreads -> 0..MaxGuards], writer : RwThreads \cup {Nobody}]
         /\ new.writer = rwlock.writer \/ new.writer = Nobody
         /\ \A u \in RwThreads : new.readers[u] <= rwlock.readers[u]
         /\ rwlock.readers[t] > 0 => /\ new.readers[t] = rwlock.readers[t] - 1
                                     /\ new.writer = rwlock.writer
                                     /\ \A u \in RwThreads \ {t} : new.readers[u] = rwlock.readers[u]
         /\ rwlock.writer = t => new.writer = Nobody /\ new.readers = rwlock.readers
<1> USE GuardAssumption
<1>0. /\ rwlock \in [readers : [RwThreads -> 0..MaxGuards], writer : RwThreads \cup {Nobody}]
      /\ \A u \in RwThreads : rwlock.readers[u] \in 0..MaxGuards
  BY DEF GuardTypeOK
<1>1. CASE rwlock.writer = t
  <2>1. new = [rwlock EXCEPT !.writer = Nobody]
    BY <1>1 DEF unlockResults
  <2>2. rwlock.readers[t] = 0
    BY <1>1 DEF WriterAlone
  <2> QED
    BY <1>0, <1>1, <2>1, <2>2
<1>2. CASE rwlock.writer # t /\ rwlock.readers[t] > 0
  <2>1. new = [rwlock EXCEPT !.readers[t] = @ - 1]
    BY <1>2 DEF unlockResults
  <2>2. rwlock.readers[t] - 1 \in 0..MaxGuards /\ rwlock.readers[t] - 1 <= rwlock.readers[t]
    BY <1>0, <1>2
  <2> QED
    BY <1>0, <1>2, <2>1, <2>2
<1>3. CASE rwlock.writer # t /\ ~(rwlock.readers[t] > 0)
  <2>1. \/ new = rwlock
        \/ new = [rwlock EXCEPT !.writer = Nobody]
        \/ \E u \in RwThreads : rwlock.readers[u] > 0 /\ new = [rwlock EXCEPT !.readers[u] = @ - 1]
    BY <1>3 DEF unlockResults
  <2>2. CASE new = rwlock \/ new = [rwlock EXCEPT !.writer = Nobody]
    BY <1>0, <1>3, <2>2
  <2>3. ASSUME NEW u \in RwThreads, rwlock.readers[u] > 0,
               new = [rwlock EXCEPT !.readers[u] = @ - 1]
        PROVE  /\ new \in [readers : [RwThreads -> 0..MaxGuards], writer : RwThreads \cup {Nobody}]
               /\ new.writer = rwlock.writer
               /\ \A v \in RwThreads : new.readers[v] <= rwlock.readers[v]
    <3>1. rwlock.readers[u] - 1 \in 0..MaxGuards /\ rwlock.readers[u] - 1 <= rwlock.readers[u]
      BY <1>0, <2>3
    <3> QED
      BY <1>0, <2>3, <3>1
  <2> QED
    BY <1>3, <2>1, <2>2, <2>3
<1> QED
  BY <1>1, <1>2, <1>3

LEMMA Destroys ==
  ASSUME GuardInv, NEW t \in RwThreads, destroyGuard(t)
  PROVE  GuardInv'
<1> USE GuardAssumption
<1> DEFINE last == Last(guards[t])
           holds(u, x) == IF u = t /\ last.acquired /\ last.side = x
                          THEN acquiredBy(u, x) - 1 ELSE acquiredBy(u, x)
<1>0. /\ GuardTypeOK /\ WriterAlone /\ ReadsBounded /\ BlockedInv /\ CountInv /\ SimpleInv
      /\ guards \in [RwThreads -> Seq(Guard)]
      /\ \A u \in RwThreads : /\ guards[u] \in Seq(Guard) /\ Len(guards[u]) \in Nat
                              /\ Len(guards[u]) <= MaxGuards /\ rwlock.readers[u] \in Nat
  BY DEF GuardInv, GuardTypeOK
<1>1. /\ guards[t] # <<>> /\ guards' = [guards EXCEPT ![t] = Front(@)]
      /\ UNCHANGED <<lockKind, lockMode, blockedFor>>
  BY DEF destroyGuard
<1>2. \/ lockKind = "CRWSimpleLock" /\ ~last.acquired /\ UNCHANGED <<rwlock, stray>>
      \/ /\ lockKind # "CRWSimpleLock" \/ last.acquired
         /\ rwlock' \in unlockResults(t) /\ stray' = (stray \/ ~last.acquired)
  BY DEF destroyGuard
<1>3. /\ Front(guards[t]) \in Seq(Guard) /\ Len(Front(guards[t])) = Len(guards[t]) - 1
      /\ last \in Guard
      /\ \A x \in {"read", "write"} :
           acquiredIn(guards[t], x)
             = acquiredIn(Front(guards[t]), x) + IF last.acquired /\ last.side = x THEN 1 ELSE 0
  BY <1>0, <1>1, AcquiredFront
<1> HIDE DEF last
<1>4. \A u \in RwThreads : guards'[u] = IF u = t THEN Front(guards[t]) ELSE guards[u]
  BY <1>0, <1>1
<1>5. guards' \in [RwThreads -> Seq(Guard)]
  BY <1>0, <1>1, <1>3
<1>6. \A u \in RwThreads : /\ Len(guards'[u]) \in Nat /\ Len(guards'[u]) <= Len(guards[u])
                           /\ u = t => Len(guards'[u]) = Len(guards[u]) - 1
                           /\ u # t => Len(guards'[u]) = Len(guards[u])
  BY <1>0, <1>3, <1>4, <1>5
<1>7. \A u \in RwThreads, x \in {"read", "write"} :
        /\ acquiredBy(u, x) \in Nat /\ acquiredBy(u, x)' \in Nat
        /\ acquiredBy(u, x)' = holds(u, x)
        /\ acquiredBy(u, x)' <= Len(guards'[u])
  <2> SUFFICES ASSUME NEW u \in RwThreads, NEW x \in {"read", "write"}
               PROVE  /\ acquiredBy(u, x) \in Nat /\ acquiredBy(u, x)' \in Nat
                      /\ acquiredBy(u, x)' = holds(u, x)
                      /\ acquiredBy(u, x)' <= Len(guards'[u])
    OBVIOUS
  <2>1. acquiredBy(u, x) = acquiredIn(guards[u], x) /\ acquiredBy(u, x)' = acquiredIn(guards'[u], x)
    BY DEF acquiredBy, acquiredIn
  <2>2. acquiredIn(guards[u], x) \in Nat /\ acquiredIn(guards'[u], x) \in Nat
    BY <1>0, <1>5, AcquiredNat
  <2>3. acquiredIn(guards'[u], x) <= Len(guards'[u])
    BY <1>5, AcquiredAtMost
  <2>4. CASE u = t
    <3>1. acquiredIn(guards[u], x)
            = acquiredIn(guards'[u], x) + IF last.acquired /\ last.side = x THEN 1 ELSE 0
      BY <1>3, <1>4, <2>4
    <3>2. CASE last.acquired /\ last.side = x
      BY <2>1, <2>2, <2>3, <2>4, <3>1, <3>2
    <3>3. CASE ~(last.acquired /\ last.side = x)
      BY <2>1, <2>2, <2>3, <2>4, <3>1, <3>3
    <3> QED
      BY <3>2, <3>3
  <2>5. CASE u # t
    BY <1>4, <2>1, <2>2, <2>3, <2>5
  <2> QED
    BY <2>4, <2>5
<1>8. BlockedInv'
  BY <1>0, <1>1, <1>6 DEF BlockedInv
<1>9. SimpleInv'
  <2> SUFFICES ASSUME lockKind = "CRWSimpleLock" PROVE ~stray'
    BY <1>1 DEF SimpleInv
  <2>1. ~stray
    BY <1>0 DEF SimpleInv
  <2>2. CASE last.acquired
    BY <1>2, <2>1, <2>2
  <2>3. CASE ~last.acquired
    BY <1>2, <2>1, <2>3
  <2> QED
    BY <2>2, <2>3
<1>10. /\ rwlock' \in [readers : [RwThreads -> 0..MaxGuards], writer : RwThreads \cup {Nobody}]
       /\ rwlock'.writer = rwlock.writer \/ rwlock'.writer = Nobody
       /\ \A u \in RwThreads : rwlock'.readers[u] \in Nat /\ rwlock'.readers[u] <= rwlock.readers[u]
  <2>1. CASE UNCHANGED rwlock
    BY <1>0, <2>1 DEF GuardTypeOK
  <2>2. CASE rwlock' \in unlockResults(t)
    <3>1. /\ rwlock' \in [readers : [RwThreads -> 0..MaxGuards], writer : RwThreads \cup {Nobody}]
          /\ rwlock'.writer = rwlock.writer \/ rwlock'.writer = Nobody
          /\ \A u \in RwThreads : rwlock'.readers[u] <= rwlock.readers[u]
      BY <1>0, <2>2, Unlocks
    <3> QED
      BY <3>1
  <2> QED
    BY <1>2, <2>1, <2>2
<1>11. stray' \in BOOLEAN
  BY <1>0, <1>2 DEF GuardTypeOK
<1>12. GuardTypeOK'
  <2>1. \A u \in RwThreads : Len(guards'[u]) <= MaxGuards
    BY <1>0, <1>6
  <2> QED
    BY <1>0, <1>1, <1>5, <1>10, <1>11, <2>1 DEF GuardTypeOK
<1>13. WriterAlone'
  <2> SUFFICES ASSUME rwlock'.writer # Nobody, NEW u \in RwThreads
               PROVE  rwlock'.readers[u] = 0
    BY DEF WriterAlone
  <2>1. rwlock.readers[u] = 0
    BY <1>0, <1>10 DEF WriterAlone
  <2> QED
    BY <1>10, <2>1
<1>14. ReadsBounded'
  <2> SUFFICES ASSUME NEW u \in RwThreads
               PROVE  rwlock'.readers[u] <= Len(guards'[u])
    BY DEF ReadsBounded
  <2>1. rwlock'.readers[u] \in Nat /\ rwlock'.readers[u] <= rwlock.readers[u]
        /\ rwlock.readers[u] \in Nat /\ rwlock.readers[u] <= Len(guards[u])
    BY <1>0, <1>10 DEF ReadsBounded
  <2>2. CASE u # t
    BY <1>6, <2>1, <2>2
  <2>3. CASE u = t /\ rwlock' \in unlockResults(t)
    <3>1. rwlock.readers[t] > 0 => rwlock'.readers[t] = rwlock.readers[t] - 1
      BY <1>0, <2>3, Unlocks
    <3> QED
      BY <1>0, <1>6, <2>1, <2>3, <3>1
  <2>4. CASE u = t /\ lockKind = "CRWSimpleLock" /\ ~last.acquired /\ UNCHANGED rwlock
    <3>1. rwlock.readers[t] = acquiredBy(t, "read")
      BY <1>0, <2>4 DEF SimpleInv, CountInv, GuardsCounted
    <3>2. acquiredBy(t, "read")' = acquiredBy(t, "read") /\ acquiredBy(t, "read")' <= Len(guards'[t])
      BY <1>7, <2>4
    <3> QED
      BY <2>4, <3>1, <3>2
  <2> QED
    BY <1>2, <2>2, <2>3, <2>4
<1>15. CountInv'
  <2> SUFFICES ASSUME ~stray', NEW u \in RwThreads
               PROVE  GuardsCounted(u)'
    BY DEF CountInv
  <2>0. ~stray
    BY <1>2
  <2>1. ~stray /\ \A v \in RwThreads : GuardsCounted(v)
    BY <1>0, <2>0 DEF CountInv
  <2>2. CASE ~last.acquired
    <3>1. UNCHANGED rwlock
      BY <1>2, <2>2
    <3>2. \A x \in {"read", "write"} : acquiredBy(u, x)' = acquiredBy(u, x)
      BY <1>7, <2>2
    <3> QED
      BY <2>1, <3>1, <3>2 DEF GuardsCounted
  <2>3. CASE last.acquired
    <3>0. rwlock' \in unlockResults(t)
      BY <1>2, <2>3
    <3>1. /\ rwlock.readers[t] > 0 => /\ rwlock'.readers[t] = rwlock.readers[t] - 1
                                      /\ rwlock'.writer = rwlock.writer
                                      /\ \A v \in RwThreads \ {t} : rwlock'.readers[v] = rwlock.readers[v]
          /\ rwlock.writer = t => rwlock'.writer = Nobody /\ rwlock'.readers = rwlock.readers
      BY <1>0, <3>0, Unlocks
    <3>2. last.side = "read" \/ last.side = "write"
      BY <1>3 DEF Guard
    <3>3. CASE last.side = "read"
      <4>1. acquiredBy(t, "read") > 0
        BY <1>7, <2>3, <3>3
      <4>2. rwlock.readers[t] > 0
        BY <2>1, <4>1 DEF GuardsCounted
      <4>3. acquiredBy(u, "read")' = rwlock'.readers[u]
        BY <1>7, <2>1, <2>3, <3>1, <3>3, <4>2 DEF GuardsCounted
      <4>4. acquiredBy(u, "write")' = acquiredBy(u, "write")
        BY <1>7, <3>3
      <4> QED
        BY <2>1, <3>1, <4>2, <4>3, <4>4 DEF GuardsCounted
    <3>4. CASE last.side = "write"
      <4>1. acquiredBy(t, "write") > 0
        BY <1>7, <2>3, <3>4
      <4>2. rwlock.writer = t /\ acquiredBy(t, "write") = 1
        BY <2>1, <4>1 DEF GuardsCounted
      <4>3. acquiredBy(u, "read")' = acquiredBy(u, "read")
        BY <1>7, <3>4
      <4>4. acquiredBy(u, "write")' = 0
        <5>1. CASE u = t
          BY <1>7, <2>3, <3>4, <4>2, <5>1
        <5>2. CASE u # t
          BY <1>7, <2>1, <4>2, <5>2 DEF GuardsCounted
        <5> QED
          BY <5>1, <5>2
      <4>5. rwlock'.writer # u
        BY <3>1, <4>2
      <4> QED
        BY <2>1, <3>1, <4>2, <4>3, <4>4, <4>5 DEF GuardsCounted
    <3> QED
      BY <3>2, <3>3, <3>4
  <2> QED
    BY <2>2, <2>3
<1> QED
  BY <1>8, <1>9, <1>12, <1>13, <1>14, <1>15 DEF GuardInv

\* One step of the specification keeps the invariant.
LEMMA GuardStep == GuardInv /\ [GuardNext]_guardVars => GuardInv'
<1> USE GuardAssumption
<1> SUFFICES ASSUME GuardInv, [GuardNext]_guardVars PROVE GuardInv'
  OBVIOUS
<1>0. /\ blockedFor \in [RwThreads -> {"none", "read", "write"}]
      /\ sides \subseteq {"read", "write"}
      /\ \A t \in RwThreads : Len(guards[t]) \in Nat
  BY DEF GuardInv, GuardTypeOK, sides
<1>1. ASSUME NEW t \in RwThreads, mayConstruct(t)
      PROVE  blockedFor[t] = "none" /\ Len(guards[t]) < MaxGuards
  BY <1>0, <1>1 DEF mayConstruct
<1>2. ASSUME NEW t \in RwThreads, NEW side \in sides, lockGuard(t, side)
      PROVE  GuardInv'
  <2>1. mayConstruct(t) /\ side \in {"read", "write"} /\ UNCHANGED <<lockKind, lockMode, stray>>
    BY <1>0, <1>2 DEF lockGuard
  <2>2. blockedFor[t] = "none" /\ Len(guards[t]) < MaxGuards
    BY <1>1, <2>1
  <2>3. CASE mayLockSide(side) /\ rwlock' = taken(t, side)
             /\ constructed(t, side, TRUE) /\ UNCHANGED blockedFor
    BY <2>1, <2>2, <2>3, Takes
  <2>4. CASE constructed(t, side, FALSE) /\ UNCHANGED <<rwlock, blockedFor>>
    BY <2>1, <2>2, <2>4, Fails
  <2>5. CASE blockedFor' = [blockedFor EXCEPT ![t] = side] /\ UNCHANGED <<rwlock, guards>>
    BY <2>1, <2>2, <2>5, Blocks
  <2> QED
    BY <1>2, <2>3, <2>4, <2>5 DEF lockGuard
<1>3. ASSUME NEW t \in RwThreads, NEW side \in sides, tryGuard(t, side)
      PROVE  GuardInv'
  <2>1. mayConstruct(t) /\ side \in {"read", "write"}
        /\ UNCHANGED <<lockKind, lockMode, blockedFor, stray>>
    BY <1>0, <1>3 DEF tryGuard
  <2>2. blockedFor[t] = "none" /\ Len(guards[t]) < MaxGuards
    BY <1>1, <2>1
  <2>3. CASE mayLockSide(side)
    <3>1. rwlock' = taken(t, side) /\ constructed(t, side, TRUE)
      BY <1>3, <2>3 DEF tryGuard, constructed
    <3> QED
      BY <2>1, <2>2, <2>3, <3>1, Takes
  <2>4. CASE ~mayLockSide(side)
    <3>0. mayLockSide(side) = FALSE
      BY <2>4 DEF mayLockSide, mayRead, mayWrite
    <3>1. rwlock' = rwlock /\ constructed(t, side, FALSE)
      BY <1>3, <2>4, <3>0 DEF tryGuard
    <3> QED
      BY <2>1, <2>2, <3>1, Fails
  <2> QED
    BY <2>3, <2>4
<1>4. ASSUME NEW t \in RwThreads, lockReturns(t)
      PROVE  GuardInv'
  <2> DEFINE side == blockedFor[t]
  <2>1. /\ side \in {"read", "write"} /\ mayLockSide(side) /\ rwlock' = taken(t, side)
        /\ constructed(t, side, TRUE) /\ blockedFor' = [blockedFor EXCEPT ![t] = "none"]
        /\ UNCHANGED <<lockKind, lockMode, stray>>
    BY <1>0, <1>4 DEF lockReturns
  <2>2. Len(guards[t]) < MaxGuards
    BY <2>1 DEF GuardInv, BlockedInv
  <2> HIDE DEF side
  <2> QED
    BY <2>1, <2>2, Takes
<1>5. ASSUME NEW t \in RwThreads, destroyGuard(t)
      PROVE  GuardInv'
  BY <1>5, Destroys
<1>6. CASE UNCHANGED guardVars
  BY <1>6 DEF guardVars, GuardInv, GuardTypeOK, WriterAlone, ReadsBounded, BlockedInv, CountInv,
              SimpleInv, GuardsCounted, acquiredBy
<1> QED
  BY <1>2, <1>3, <1>4, <1>5, <1>6 DEF GuardNext

\* The invariant says of two guards what the source promises.
LEMMA InvProtects == GuardInv => GuardProtects
<1> SUFFICES ASSUME GuardInv, ~stray, NEW t \in RwThreads, NEW u \in RwThreads
             PROVE  /\ acquiredBy(t, "read") = rwlock.readers[t]
                    /\ (acquiredBy(t, "write") = 1) <=> (rwlock.writer = t)
                    /\ t # u /\ acquiredBy(t, "write") > 0
                         => \A s \in {"read", "write"} : acquiredBy(u, s) = 0
  BY DEF GuardProtects
<1>1. GuardsCounted(t) /\ GuardsCounted(u)
  BY DEF GuardInv, CountInv
<1>2. rwlock.writer = t => rwlock.readers[u] = 0
  BY GuardAssumption DEF GuardInv, WriterAlone
<1> QED
  BY <1>1, <1>2 DEF GuardsCounted

-----------------------------------------------------------------------------

\* As long as every guard got its lock, no thread is in a guarded scope beside
\* a thread that writes, and the lock counts exactly the guards that have it
\* (tbrwlock.h, tblockguard.h).
THEOREM ScopeIsProtected == Spec => []GuardProtects
<1>1. Init => GuardInv
  BY GuardStarts DEF Init
<1>2. GuardInv /\ [Next]_vars => GuardInv'
  BY GuardStep DEF Next, only, vars
<1> QED
  BY <1>1, <1>2, InvProtects, PTL DEF Spec

-----------------------------------------------------------------------------
(* QueueThread: its invariant *)

\* Where an item is: its places in the queue, the threads that have it.
placesIn(q, d) == {i \in DOMAIN q : q[i] = d}
takers(f, d) == {w \in Pool : f[w] = d}

QueueThreadTypes ==
  /\ queue \in Seq(Written) /\ owner \in OwnerSteps
  /\ worker \in [Pool -> WorkerSteps] /\ item \in [Pool -> Written \cup {NoData}]
  /\ handledBy \in [Written -> Nat] /\ written \in SUBSET Written

\* A thread has an item while it handles one, and only then.
ItemIsAtWork == \A w \in Pool : item[w] # NoData <=> worker[w] = "handle"

OncePlaced ==
  \A d \in Written :
    handledBy[d] + Cardinality(takers(item, d)) + Cardinality(placesIn(queue, d)) = IF d \in written THEN 1 ELSE 0

\* Before start() there is no thread.
NoThreadYet == owner = "made" => \A w \in Pool : worker[w] = "none"

QueueThreadInv == QueueThreadTypes /\ ItemIsAtWork /\ NoThreadYet /\ OncePlaced /\ WaitedForAll

-----------------------------------------------------------------------------
(* Counting *)

LEMMA PlacesFinite ==
  ASSUME NEW q \in Seq(Written), NEW d
  PROVE  IsFiniteSet(placesIn(q, d)) /\ Cardinality(placesIn(q, d)) \in Nat
<1>1. Len(q) \in Nat /\ DOMAIN q = 1..Len(q)
  OBVIOUS
<1>2. IsFiniteSet(1..Len(q))
  BY <1>1, FS_Interval
<1>3. placesIn(q, d) \in SUBSET (1..Len(q))
  BY <1>1 DEF placesIn
<1> QED
  BY <1>2, <1>3, FS_Subset, FS_CardinalityType

LEMMA PlacesEmpty ==
  ASSUME NEW d
  PROVE  Cardinality(placesIn(<<>>, d)) = 0
<1>1. placesIn(<<>>, d) = {}
  BY DEF placesIn
<1> QED
  BY <1>1, FS_EmptySet

\* An item at the end of the queue has one place more.
LEMMA PlacesAppend ==
  ASSUME NEW q \in Seq(Written), NEW e \in Written, NEW d
  PROVE  Cardinality(placesIn(Append(q, e), d)) = Cardinality(placesIn(q, d)) + IF e = d THEN 1 ELSE 0
<1> DEFINE n == Len(q) + 1
<1>1. /\ Len(q) \in Nat /\ DOMAIN q = 1..Len(q) /\ DOMAIN Append(q, e) = 1..n
      /\ Append(q, e)[n] = e /\ \A i \in 1..Len(q) : Append(q, e)[i] = q[i]
  OBVIOUS
<1>2. n \notin placesIn(q, d)
  BY <1>1 DEF placesIn
<1>3. placesIn(Append(q, e), d) = IF e = d THEN placesIn(q, d) \cup {n} ELSE placesIn(q, d)
  BY <1>1 DEF placesIn
<1>4. IsFiniteSet(placesIn(q, d)) /\ Cardinality(placesIn(q, d)) \in Nat
  BY PlacesFinite
<1>5. Cardinality(placesIn(q, d) \cup {n}) = Cardinality(placesIn(q, d)) + 1
  BY <1>2, <1>4, FS_AddElement
<1> QED
  BY <1>3, <1>4, <1>5

\* Without its first item the queue has one place less of it: the others move up by one.
LEMMA PlacesTail ==
  ASSUME NEW q \in Seq(Written), q # <<>>, NEW d
  PROVE  Cardinality(placesIn(q, d)) = Cardinality(placesIn(Tail(q), d)) + IF Head(q) = d THEN 1 ELSE 0
<1> DEFINE T == placesIn(Tail(q), d)
           S == {i + 1 : i \in T}
           f == [i \in T |-> i + 1]
<1>1. /\ Len(q) \in Nat \ {0} /\ DOMAIN q = 1..Len(q) /\ Head(q) = q[1]
      /\ Tail(q) \in Seq(Written) /\ Len(Tail(q)) = Len(q) - 1 /\ DOMAIN Tail(q) = 1..Len(q) - 1
      /\ \A i \in 1..Len(q) - 1 : Tail(q)[i] = q[i + 1]
  BY EmptySeq, HeadTailProperties, LenProperties
<1>2. T \in SUBSET Nat /\ \A i \in T : i > 0
  BY <1>1 DEF placesIn
<1>3. f \in Bijection(T, S)
  BY <1>2 DEF Bijection, Injection, Surjection, IsInjective
<1>4. IsFiniteSet(T) /\ Cardinality(T) \in Nat
  BY <1>1, PlacesFinite
<1>5. IsFiniteSet(S) /\ Cardinality(S) = Cardinality(T)
  <2> HIDE DEF T, S, f
  <2> QED
    BY <1>3, <1>4, FS_Bijection DEF ExistsBijection
<1>6. 1 \notin S
  BY <1>2
<1>7. placesIn(q, d) = IF Head(q) = d THEN S \cup {1} ELSE S
  <2>1. \A i \in 2..Len(q) : q[i] = d <=> i - 1 \in T
    BY <1>1 DEF placesIn
  <2>2. \A i \in 2..Len(q) : i - 1 \in T <=> i \in S
    BY <1>2
  <2>3. \A i \in S : i \in 2..Len(q)
    BY <1>1 DEF placesIn
  <2> QED
    BY <1>1, <2>1, <2>2, <2>3 DEF placesIn
<1>8. Cardinality(S \cup {1}) = Cardinality(S) + 1
  <2> HIDE DEF S
  <2> QED
    BY <1>5, <1>6, FS_AddElement
<1> QED
  <2> HIDE DEF T, S, f
  <2>1. Cardinality(placesIn(Tail(q), d)) = Cardinality(S) /\ Cardinality(S) \in Nat
    BY <1>4, <1>5 DEF T
  <2> QED
    BY <1>7, <1>8, <2>1

LEMMA TakersFinite ==
  ASSUME NEW f, NEW d
  PROVE  IsFiniteSet(takers(f, d)) /\ Cardinality(takers(f, d)) \in Nat
<1>1. takers(f, d) \in SUBSET Pool
  BY DEF takers
<1> QED
  BY <1>1, QueueThreadAssumption, FS_Subset, FS_CardinalityType

\* A thread that takes an item, or lets it go.
LEMMA TakersTake ==
  ASSUME NEW f \in [Pool -> Written \cup {NoData}], NEW w \in Pool, f[w] = NoData, NEW e \in Written, NEW d \in Written
  PROVE  Cardinality(takers([f EXCEPT ![w] = e], d)) = Cardinality(takers(f, d)) + IF e = d THEN 1 ELSE 0
<1>1. w \notin takers(f, d)
  BY QueueThreadAssumption DEF takers
<1>2. takers([f EXCEPT ![w] = e], d) = IF e = d THEN takers(f, d) \cup {w} ELSE takers(f, d)
  BY <1>1 DEF takers
<1>3. IsFiniteSet(takers(f, d)) /\ Cardinality(takers(f, d)) \in Nat
  BY TakersFinite
<1>4. Cardinality(takers(f, d) \cup {w}) = Cardinality(takers(f, d)) + 1
  BY <1>1, <1>3, FS_AddElement
<1> QED
  BY <1>2, <1>3, <1>4

LEMMA TakersDrop ==
  ASSUME NEW f \in [Pool -> Written \cup {NoData}], NEW w \in Pool, NEW d \in Written
  PROVE  Cardinality(takers(f, d)) = Cardinality(takers([f EXCEPT ![w] = NoData], d)) + IF f[w] = d THEN 1 ELSE 0
<1> DEFINE g == [f EXCEPT ![w] = NoData]
<1>1. g \in [Pool -> Written \cup {NoData}] /\ g[w] = NoData
  OBVIOUS
<1>2. CASE f[w] = d
  <2>1. f = [g EXCEPT ![w] = d]
    BY <1>2
  <2> HIDE DEF g
  <2>2. Cardinality(takers(f, d)) = Cardinality(takers(g, d)) + 1
    <3>1. Cardinality(takers([g EXCEPT ![w] = d], d)) = Cardinality(takers(g, d)) + IF d = d THEN 1 ELSE 0
      BY <1>1, TakersTake, Zenon
    <3> QED
      BY <2>1, <3>1
  <2> QED
    BY <1>2, <2>2 DEF g
<1>3. CASE f[w] # d
  <2>1. takers(g, d) = takers(f, d)
    BY <1>3, QueueThreadAssumption DEF takers
  <2>2. Cardinality(takers(f, d)) \in Nat
    BY TakersFinite
  <2> QED
    BY <1>3, <2>1, <2>2
<1> QED
  BY <1>2, <1>3

-----------------------------------------------------------------------------
(* The invariant *)

\* Waking threads up changes neither what they have nor whether they have ended.
Wakes(f) ==
  /\ f \in [Pool -> WorkerSteps]
  /\ \A w \in Pool : /\ f[w] = "handle" <=> worker[w] = "handle"
                     /\ worker[w] \in {"none", "done"} => f[w] = worker[w]

LEMMA SignalWakes ==
  ASSUME QueueThreadTypes, NEW f \in signal
  PROVE  Wakes(f)
<1>1. CASE signalled = {}
  BY <1>1 DEF signal, Wakes, QueueThreadTypes
<1>2. CASE signalled # {}
  BY <1>2 DEF signal, signalled, Wakes, QueueThreadTypes, WorkerSteps
<1> QED
  BY <1>1, <1>2

LEMMA BroadcastWakes ==
  ASSUME QueueThreadTypes
  PROVE  Wakes(broadcast)
BY DEF broadcast, Wakes, QueueThreadTypes, WorkerSteps

LEMMA QueueThreadStarts == QueueThreadInit => QueueThreadInv
<1> SUFFICES ASSUME QueueThreadInit PROVE QueueThreadInv
  OBVIOUS
<1>1. QueueThreadTypes /\ ItemIsAtWork /\ NoThreadYet /\ WaitedForAll
  BY DEF QueueThreadInit, QueueThreadTypes, ItemIsAtWork, NoThreadYet, WaitedForAll, OwnerSteps, WorkerSteps
<1>2. ASSUME NEW d \in Written
      PROVE  handledBy[d] = 0 /\ Cardinality(takers(item, d)) = 0 /\ Cardinality(placesIn(queue, d)) = 0
  <2>1. takers(item, d) = {}
    BY QueueThreadAssumption DEF QueueThreadInit, takers
  <2> QED
    BY <2>1, FS_EmptySet, PlacesEmpty DEF QueueThreadInit
<1>3. OncePlaced
  BY <1>2 DEF OncePlaced, QueueThreadInit
<1> QED
  BY <1>1, <1>3 DEF QueueThreadInv

\* The owner leaves the items alone.
LEMMA OwnerStep ==
  ASSUME QueueThreadInv, startPool \/ stopPool \/ callWait \/ joinReturns \/ destroyPool
  PROVE  QueueThreadInv'
<1> USE DEF QueueThreadInv
<1>1. UNCHANGED <<queue, item, handledBy, written>>
  BY DEF startPool, stopPool, callWait, joinReturns, destroyPool
<1>2. OncePlaced'
  BY <1>1 DEF OncePlaced, placesIn, takers
<1>3. QueueThreadTypes' /\ ItemIsAtWork' /\ NoThreadYet' /\ WaitedForAll'
  <2> USE DEF QueueThreadTypes, ItemIsAtWork, NoThreadYet, WaitedForAll, OwnerSteps, WorkerSteps
  <2>1. CASE startPool
    BY <2>1 DEF startPool
  <2>2. CASE stopPool
    BY <2>2, BroadcastWakes DEF stopPool, Wakes
  <2>3. CASE callWait
    BY <2>3 DEF callWait
  <2>4. CASE joinReturns
    BY <2>4 DEF joinReturns, allJoined
  <2>5. CASE destroyPool
    BY <2>5, BroadcastWakes DEF destroyPool, Wakes
  <2> QED
    BY <2>1, <2>2, <2>3, <2>4, <2>5
<1> QED
  BY <1>2, <1>3

LEMMA WriteStep ==
  ASSUME QueueThreadInv, NEW e \in Written, writeData(e)
  PROVE  QueueThreadInv'
<1> USE DEF QueueThreadInv
<1>1. Wakes(worker')
  BY SignalWakes DEF writeData
<1>2. QueueThreadTypes' /\ ItemIsAtWork' /\ NoThreadYet' /\ WaitedForAll'
  BY <1>1 DEF writeData, Wakes, QueueThreadTypes, ItemIsAtWork, NoThreadYet, WaitedForAll
<1>3. ASSUME NEW d \in Written
      PROVE  handledBy[d]' + Cardinality(takers(item', d)) + Cardinality(placesIn(queue', d)) = IF d \in written' THEN 1 ELSE 0
  <2>1. Cardinality(placesIn(queue', d)) = Cardinality(placesIn(queue, d)) + IF e = d THEN 1 ELSE 0
    BY PlacesAppend DEF writeData, QueueThreadTypes
  <2>2. Cardinality(placesIn(queue, d)) \in Nat /\ Cardinality(takers(item, d)) \in Nat /\ handledBy[d] \in Nat
    BY PlacesFinite, TakersFinite DEF QueueThreadTypes
  <2>3. handledBy[d] + Cardinality(takers(item, d)) + Cardinality(placesIn(queue, d)) = IF d \in written THEN 1 ELSE 0
    BY DEF OncePlaced
  <2>4. handledBy' = handledBy /\ item' = item /\ written' = written \cup {e} /\ e \notin written
    BY DEF writeData
  <2> QED
    BY <2>1, <2>2, <2>3, <2>4
<1> QED
  BY <1>2, <1>3 DEF OncePlaced

\* A thread that wakes up, ends, goes to sleep, takes an item or has handled one.
LEMMA ThreadStep ==
  ASSUME QueueThreadInv, NEW w \in Pool, runThread(w)
  PROVE  QueueThreadInv'
<1> USE DEF QueueThreadInv
<1>1. CASE hook(w) \/ (takeNext(w) /\ UNCHANGED <<queue, item>>)
  <2>1. UNCHANGED <<queue, item, handledBy, written, owner>>
    BY <1>1 DEF hook, takeNext
  <2>2. OncePlaced'
    BY <2>1 DEF OncePlaced, placesIn, takers
  <2>3. \E s \in {"loop", "done", "asleep"} : worker' = [worker EXCEPT ![w] = s]
    BY <1>1 DEF hook, takeNext
  <2>4. worker[w] \in {"hook", "loop"}
    BY <1>1 DEF hook, takeNext
  <2>5. QueueThreadTypes' /\ ItemIsAtWork' /\ NoThreadYet' /\ WaitedForAll'
    BY <2>1, <2>3, <2>4 DEF QueueThreadTypes, ItemIsAtWork, NoThreadYet, WaitedForAll, WorkerSteps
  <2> QED
    BY <2>2, <2>5
<1>2. CASE takeNext(w) /\ queue # <<>> /\ ~stopping
  <2>1. /\ worker[w] = "loop" /\ worker' = [worker EXCEPT ![w] = "handle"]
        /\ item' = [item EXCEPT ![w] = Head(queue)] /\ queue' = Tail(queue)
        /\ UNCHANGED <<owner, handledBy, written>>
    BY <1>2 DEF takeNext
  <2>2. Head(queue) \in Written /\ Tail(queue) \in Seq(Written)
    BY <1>2, HeadTailProperties DEF QueueThreadTypes
  <2>3. item[w] = NoData
    BY <2>1 DEF ItemIsAtWork
  <2>4. QueueThreadTypes' /\ ItemIsAtWork' /\ NoThreadYet' /\ WaitedForAll'
    BY <2>1, <2>2, QueueThreadAssumption DEF QueueThreadTypes, ItemIsAtWork, NoThreadYet, WaitedForAll, WorkerSteps
  <2>5. ASSUME NEW d \in Written
        PROVE  handledBy[d]' + Cardinality(takers(item', d)) + Cardinality(placesIn(queue', d)) = IF d \in written' THEN 1 ELSE 0
    <3>1. Cardinality(placesIn(queue, d)) = Cardinality(placesIn(queue', d)) + IF Head(queue) = d THEN 1 ELSE 0
      BY <1>2, <2>1, PlacesTail DEF QueueThreadTypes
    <3>2. Cardinality(takers(item', d)) = Cardinality(takers(item, d)) + IF Head(queue) = d THEN 1 ELSE 0
      <4>1. item \in [Pool -> Written \cup {NoData}]
        BY DEF QueueThreadTypes
      <4>2. Cardinality(takers([item EXCEPT ![w] = Head(queue)], d))
              = Cardinality(takers(item, d)) + IF Head(queue) = d THEN 1 ELSE 0
        BY <2>2, <2>3, <4>1, TakersTake
      <4> QED
        BY <2>1, <4>2
    <3>3. Cardinality(placesIn(queue', d)) \in Nat /\ Cardinality(takers(item, d)) \in Nat /\ handledBy[d] \in Nat
      BY <2>1, <2>2, PlacesFinite, TakersFinite DEF QueueThreadTypes
    <3>4. handledBy[d] + Cardinality(takers(item, d)) + Cardinality(placesIn(queue, d)) = IF d \in written THEN 1 ELSE 0
      BY DEF OncePlaced
    <3> QED
      BY <2>1, <3>1, <3>2, <3>3, <3>4
  <2> QED
    BY <2>4, <2>5 DEF OncePlaced
<1>3. CASE handleQueue(w)
  <2>1. /\ worker[w] = "handle" /\ worker' = [worker EXCEPT ![w] = "loop"]
        /\ item' = [item EXCEPT ![w] = NoData] /\ handledBy' = [handledBy EXCEPT ![item[w]] = @ + 1]
        /\ UNCHANGED <<queue, owner, written>>
    BY <1>3 DEF handleQueue
  <2>2. item[w] \in Written
    BY <2>1 DEF ItemIsAtWork, QueueThreadTypes
  <2>3. QueueThreadTypes' /\ ItemIsAtWork' /\ NoThreadYet' /\ WaitedForAll'
    BY <2>1, <2>2 DEF QueueThreadTypes, ItemIsAtWork, NoThreadYet, WaitedForAll, WorkerSteps
  <2>4. ASSUME NEW d \in Written
        PROVE  handledBy[d]' + Cardinality(takers(item', d)) + Cardinality(placesIn(queue', d)) = IF d \in written' THEN 1 ELSE 0
    <3>1. Cardinality(takers(item, d)) = Cardinality(takers(item', d)) + IF item[w] = d THEN 1 ELSE 0
      BY <2>1, TakersDrop DEF QueueThreadTypes
    <3>2. handledBy'[d] = handledBy[d] + IF item[w] = d THEN 1 ELSE 0
      BY <2>1, <2>2 DEF QueueThreadTypes
    <3>3. Cardinality(placesIn(queue, d)) \in Nat /\ Cardinality(takers(item', d)) \in Nat /\ handledBy[d] \in Nat
      BY PlacesFinite, TakersFinite DEF QueueThreadTypes
    <3>4. handledBy[d] + Cardinality(takers(item, d)) + Cardinality(placesIn(queue, d)) = IF d \in written THEN 1 ELSE 0
      BY DEF OncePlaced
    <3> QED
      BY <2>1, <3>1, <3>2, <3>3, <3>4
  <2> QED
    BY <2>3, <2>4 DEF OncePlaced
<1> QED
  BY <1>1, <1>2, <1>3 DEF runThread, takeNext

LEMMA QueueThreadStep == QueueThreadInv /\ [QueueThreadNext]_queueThreadVars => QueueThreadInv'
<1> SUFFICES ASSUME QueueThreadInv, [QueueThreadNext]_queueThreadVars PROVE QueueThreadInv'
  OBVIOUS
<1>1. CASE QueueThreadNext
  BY <1>1, OwnerStep, WriteStep, ThreadStep DEF QueueThreadNext
<1>2. CASE UNCHANGED queueThreadVars
  BY <1>2 DEF queueThreadVars, QueueThreadInv, QueueThreadTypes, ItemIsAtWork, NoThreadYet, OncePlaced, placesIn, takers, WaitedForAll
<1> QED
  BY <1>1, <1>2

-----------------------------------------------------------------------------

\* An item that writeData accepted is in the queue, with one thread, or was handled, once
\* and in one of these places only; and when wait() has returned no thread is left
\* (queuethread.cpp:66-85, defaultrunnable.cpp:69).
THEOREM HandledOnce == Spec => []QueueThreadSafe
<1>1. Init => QueueThreadInv
  BY QueueThreadStarts DEF Init
<1>2. QueueThreadInv /\ [Next]_vars => QueueThreadInv'
  BY QueueThreadStep DEF Next, only, vars
<1>3. QueueThreadInv => QueueThreadSafe
  BY DEF QueueThreadInv, OncePlaced, placesIn, takers, QueueThreadSafe, ItemsHandledOnce
<1> QED
  BY <1>1, <1>2, <1>3, PTL DEF Spec

-----------------------------------------------------------------------------
(* SharedThread: its invariant *)

BeforeDone == {"hook", "hookDec", "run", "done"}

SharedTypes ==
  /\ noDelete \in BOOLEAN /\ objectState \in {"live", "deleting", "deleted"}
  /\ handles \in SUBSET Users /\ keeps \in SUBSET Users
  /\ userPc \in [Users -> UserPcs] /\ threadPc \in ThreadPcs
  /\ isRunningFlag \in BOOLEAN /\ started \in BOOLEAN
  /\ threadMutex \in Users \cup {TheThread, NoOne}

\* Who has the mutex, and which start() has its keepMe.
PlacesAgree ==
  /\ \A u \in Users : userPc[u] \in {"test", "create", "set", "unlock"} <=> threadMutex = u
  /\ threadPc = "unset" <=> threadMutex = TheThread
  /\ \A u \in Users : u \in keeps <=> userPc[u] \notin {"idle", "keep"}

\* One start() creates one thread, which waits for it before it clears _running.
OneStart ==
  /\ \A u \in Users :
       /\ userPc[u] = "create" => ~started /\ threadPc = "none"
       /\ userPc[u] = "set" => ~started /\ ~isRunningFlag /\ threadPc \in BeforeDone
  /\ started \/ threadPc = "none" \/ \E u \in Users : userPc[u] = "set"
  /\ (\A u \in Users : userPc[u] # "set") => (isRunningFlag <=> threadPc \in BeforeDone)

StartInv == SharedTypes /\ PlacesAgree /\ OneStart

\* The references of the new thread, the first of which start() takes for it.
creating == \E u \in Users : userPc[u] = "create"
lent == IF threadPc = "hookDec" THEN 2 ELSE IF threadInside \/ creating THEN 1 ELSE 0
RefsAreCounted == ref = Cardinality(handles) + Cardinality(keeps) + lent

\* An object that nothing points to is deleted, except while it starts itself in its
\* constructor.
Lifetime ==
  /\ objectState = "live" <=> ~noDelete
  /\ objectState # "live" => ref = 0
  /\ objectState = "live" /\ ref = 0 => userPc[Maker] = "keep"
  /\ \A u \in Users : userPc[u] = "keep" /\ u \notin handles =>
       u = Maker /\ ref = 0 /\ objectState = "live"

SharedInv == StartInv /\ RefsAreCounted /\ Lifetime

-----------------------------------------------------------------------------
(* Start and the new thread *)

LEMMA MakerUses == Maker \in Users
BY SharedThreadAssumption DEF Maker

LEMMA NobodyUses == NoOne \notin Users /\ TheThread \notin Users /\ NoOne # TheThread
BY SharedThreadAssumption DEF NoOne, TheThread

LEMMA StartStarts == SharedInit => StartInv
<1> SUFFICES ASSUME SharedInit PROVE StartInv
  OBVIOUS
<1>1. SharedTypes
  BY MakerUses DEF SharedInit, SharedTypes, UserPcs, ThreadPcs
<1>2. \A u \in Users : userPc[u] \in {"idle", "keep"}
  BY DEF SharedInit
<1>3. PlacesAgree
  BY <1>2, NobodyUses DEF SharedInit, PlacesAgree
<1>4. OneStart
  BY <1>2 DEF SharedInit, OneStart, BeforeDone
<1> QED
  BY <1>1, <1>3, <1>4 DEF StartInv
LEMMA StartStep == StartInv /\ [SharedNext]_sharedVars => StartInv'
<1> SUFFICES ASSUME StartInv, [SharedNext]_sharedVars PROVE StartInv'
  OBVIOUS
<1> USE NobodyUses DEF StartInv, SharedTypes, UserPcs, ThreadPcs, BeforeDone
<1>1. CASE deleteThis
  BY <1>1 DEF deleteThis, PlacesAgree, OneStart
<1>2. ASSUME NEW u \in Users, copyHandle(u) \/ dropHandle(u) PROVE StartInv'
  <2>1. /\ UNCHANGED <<userPc, keeps, threadPc, isRunningFlag, started, threadMutex>>
        /\ handles' \in SUBSET Users
    BY <1>2 DEF copyHandle, dropHandle
  <2>2. noDelete' \in BOOLEAN /\ objectState' \in {"live", "deleting", "deleted"}
    BY <1>2 DEF copyHandle, dropHandle, incRef, decRef
  <2> QED
    BY <2>1, <2>2 DEF PlacesAgree, OneStart
<1>3. ASSUME NEW u \in Users, callStart(u) PROVE StartInv'
  BY <1>3 DEF callStart, goes, noRef, PlacesAgree, OneStart
<1>4. ASSUME NEW u \in Users, keepMe(u) PROVE StartInv'
  BY <1>4 DEF keepMe, goes, incRef, PlacesAgree, OneStart
<1>5. ASSUME NEW u \in Users, lockStart(u) PROVE StartInv'
  BY <1>5 DEF lockStart, goes, noRef, PlacesAgree, OneStart
<1>6. ASSUME NEW u \in Users, testStarted(u) PROVE StartInv'
  BY <1>6 DEF testStarted, goes, noRef, incRef, PlacesAgree, OneStart
<1>7. ASSUME NEW u \in Users, createThread(u) PROVE StartInv'
  <2>1. noDelete' \in BOOLEAN /\ objectState' \in {"live", "deleting", "deleted"}
    BY <1>7 DEF createThread, noRef, decRef
  <2>2. /\ UNCHANGED <<handles, keeps, isRunningFlag, started, threadMutex>> /\ userPc[u] = "create"
        /\ \/ userPc' = [userPc EXCEPT ![u] = "set"] /\ threadPc' = "hook"
           \/ userPc' = [userPc EXCEPT ![u] = "unlock"] /\ threadPc' = threadPc
    BY <1>7 DEF createThread, goes
  <2>3. /\ \A v \in Users : v # u => userPc'[v] = userPc[v] /\ userPc[v] \notin {"create", "set"}
        /\ ~started /\ ~isRunningFlag /\ threadPc = "none"
    BY <2>2 DEF PlacesAgree, OneStart
  <2>4. SharedTypes'
    BY <2>1, <2>2
  <2>5. PlacesAgree'
    BY <2>2, <2>3 DEF PlacesAgree
  <2>6. OneStart'
    <3>1. CASE userPc' = [userPc EXCEPT ![u] = "set"] /\ threadPc' = "hook"
      BY <2>2, <2>3, <3>1 DEF OneStart
    <3>2. CASE userPc' = [userPc EXCEPT ![u] = "unlock"] /\ threadPc' = threadPc
      BY <2>2, <2>3, <3>2 DEF OneStart
    <3> QED
      BY <2>2, <3>1, <3>2
  <2> QED
    BY <2>4, <2>5, <2>6
<1>8. ASSUME NEW u \in Users, setRunning(u) PROVE StartInv'
  BY <1>8 DEF setRunning, goes, noRef, PlacesAgree, OneStart
<1>9. ASSUME NEW u \in Users, unlockStart(u) PROVE StartInv'
  BY <1>9 DEF unlockStart, goes, noRef, PlacesAgree, OneStart
<1>10. ASSUME NEW u \in Users, dropKeepMe(u) PROVE StartInv'
  BY <1>10 DEF dropKeepMe, goes, decRef, PlacesAgree, OneStart
<1>11. CASE startHook
  <2>1. noDelete' \in BOOLEAN /\ objectState' \in {"live", "deleting", "deleted"}
    BY <1>11 DEF startHook, hookRef, incRef, decRef
  <2>2. /\ UNCHANGED <<handles, userPc, keeps, started, isRunningFlag, threadMutex>>
        /\ threadPc \in {"hook", "hookDec"} /\ threadPc' \in {"hookDec", "run"}
    BY <1>11 DEF startHook, threadGoes
  <2> QED
    BY <2>1, <2>2 DEF PlacesAgree, OneStart
<1>12. CASE runReturns \/ threadEnds
  BY <1>12 DEF runReturns, threadEnds, threadGoes, noRef, decRef, PlacesAgree, OneStart
<1>13. CASE setDone
  <2>1. /\ UNCHANGED <<noDelete, objectState, handles, userPc, keeps, started>>
        /\ threadPc = "done" /\ threadPc' = "unset" /\ ~isRunningFlag'
        /\ threadMutex = NoOne /\ threadMutex' = TheThread
    BY <1>13 DEF setDone, doneMayEnter, threadGoes, noRef
  <2>2. \A u \in Users : userPc[u] \notin {"test", "create", "set", "unlock"}
    BY <2>1 DEF PlacesAgree
  <2>3. PlacesAgree'
    BY <2>1, <2>2 DEF PlacesAgree
  <2>4. OneStart'
    BY <2>1, <2>2 DEF OneStart
  <2> QED
    BY <1>13, <2>1, <2>3, <2>4 DEF setDone
<1>14. CASE unlockDone
  BY <1>14 DEF unlockDone, threadGoes, noRef, PlacesAgree, OneStart
<1>15. ASSUME NEW u \in Users, joinThread(u) PROVE StartInv'
  BY <1>15 DEF joinThread, threadGoes, noRef, PlacesAgree, OneStart
<1>16. CASE UNCHANGED sharedVars
  BY <1>16 DEF sharedVars, PlacesAgree, OneStart
<1> QED
  BY <1>1, <1>2, <1>3, <1>4, <1>5, <1>6, <1>7, <1>8, <1>9, <1>10, <1>11, <1>12, <1>13, <1>14, <1>15, <1>16
     DEF SharedNext, threadHookStep, userStep

-----------------------------------------------------------------------------
(* Counting the references *)

LEMMA UsersFinite ==
  ASSUME NEW S \in SUBSET Users
  PROVE  /\ IsFiniteSet(S) /\ Cardinality(S) \in Nat /\ (Cardinality(S) = 0 <=> S = {})
BY SharedThreadAssumption, FS_Subset, FS_CardinalityType, FS_EmptySet

LEMMA UserComes ==
  ASSUME NEW S \in SUBSET Users, NEW u \in Users, u \notin S
  PROVE  Cardinality(S \cup {u}) = Cardinality(S) + 1
BY UsersFinite, FS_AddElement

LEMMA UserGoes ==
  ASSUME NEW S \in SUBSET Users, NEW u \in S
  PROVE  Cardinality(S \ {u}) = Cardinality(S) - 1
BY UsersFinite, FS_RemoveElement

\* Whoever has a reference makes the count positive, and then the object is live.
LEMMA RefKeepsAlive ==
  ASSUME SharedInv
  PROVE  /\ ref \in Nat /\ lent \in {0, 1, 2}
         /\ handles # {} \/ keeps # {} \/ lent > 0 => ref > 0
         /\ ref > 0 => objectState = "live"
         /\ ref = 0 => handles = {} /\ keeps = {} /\ lent = 0
<1>1. lent \in {0, 1, 2}
  BY DEF lent
<1>2. /\ Cardinality(handles) \in Nat /\ (Cardinality(handles) = 0 <=> handles = {})
      /\ Cardinality(keeps) \in Nat /\ (Cardinality(keeps) = 0 <=> keeps = {})
  BY UsersFinite DEF SharedInv, StartInv, SharedTypes
<1>3. ref = Cardinality(handles) + Cardinality(keeps) + lent
  BY DEF SharedInv, RefsAreCounted
<1>4. objectState # "live" => ref = 0
  BY DEF SharedInv, Lifetime
<1>5. ref \in Nat /\ (ref > 0 => objectState = "live")
  BY <1>1, <1>2, <1>3, <1>4
<1> HIDE DEF lent
<1> DEFINE h == Cardinality(handles)
           k == Cardinality(keeps)
<1>6. h \in Nat /\ k \in Nat /\ lent \in Nat /\ ref = h + k + lent
  BY <1>1, <1>2, <1>3
<1>7. (h = 0 <=> handles = {}) /\ (k = 0 <=> keeps = {})
  BY <1>2
<1> HIDE DEF h, k
<1>8. /\ h # 0 \/ k # 0 \/ lent > 0 => ref > 0
      /\ ref = 0 => h = 0 /\ k = 0 /\ lent = 0
  BY <1>6
<1> QED
  BY <1>1, <1>5, <1>7, <1>8

\* A reference more, one less, and as many as before.
LEMMA RefUp ==
  ASSUME SharedInv, incRef, objectState = "live", \A u \in Users : userPc'[u] = "keep" => u \in handles'
  PROVE  Lifetime'
BY RefKeepsAlive DEF incRef, SharedInv, Lifetime

LEMMA RefDown ==
  ASSUME SharedInv, decRef, ref > 0,
         \A u \in Users : userPc'[u] = "keep" => userPc[u] = "keep" /\ (u \in handles => u \in handles')
  PROVE  Lifetime'
<1>1. /\ ref \in Nat /\ objectState = "live" /\ ~noDelete
  BY RefKeepsAlive DEF SharedInv, Lifetime
<1>2. \A u \in Users : userPc'[u] = "keep" => u \in handles'
  BY DEF SharedInv, Lifetime
<1>3. /\ ref' = ref - 1
      /\ ref = 1 => objectState' = "deleting" /\ noDelete'
      /\ ref # 1 => objectState' = "live" /\ ~noDelete'
  BY <1>1, Zenon DEF decRef
<1> QED
  BY <1>1, <1>2, <1>3 DEF Lifetime

LEMMA RefSame ==
  ASSUME SharedInv, noRef,
         \A u \in Users : userPc'[u] = "keep" => u \in handles' \/ (userPc[u] = "keep" /\ u \notin handles),
         userPc[Maker] = "keep" => userPc'[Maker] = "keep"
  PROVE  Lifetime'
BY DEF noRef, SharedInv, Lifetime

LEMMA SharedStarts == SharedInit => SharedInv
<1> SUFFICES ASSUME SharedInit PROVE SharedInv
  OBVIOUS
<1>1. StartInv
  BY StartStarts
<1>2. /\ \A u \in Users : userPc[u] = "keep" => selfStarted /\ u = Maker
      /\ \A u \in Users : userPc[u] # "create"
      /\ selfStarted => userPc[Maker] = "keep"
  BY MakerUses DEF SharedInit
<1>3. lent = 0
  BY <1>2 DEF SharedInit, lent, threadInside, creating
<1>4. Cardinality({}) = 0 /\ Cardinality({Maker}) = 1
  BY FS_EmptySet, FS_Singleton
<1>5. RefsAreCounted
  BY <1>3, <1>4 DEF SharedInit, RefsAreCounted
<1>6. Lifetime
  BY <1>2 DEF SharedInit, Lifetime
<1> QED
  BY <1>1, <1>5, <1>6 DEF SharedInv

LEMMA HandleStep ==
  ASSUME SharedInv, NEW u \in Users, copyHandle(u) \/ dropHandle(u)
  PROVE  RefsAreCounted' /\ Lifetime'
<1>1. UNCHANGED <<userPc, keeps, threadPc>> /\ userPc[u] = "idle"
  BY DEF copyHandle, dropHandle
<1>2. lent' = lent
  BY <1>1 DEF lent, threadInside, creating
<1>3. /\ handles \in SUBSET Users /\ Cardinality(handles) \in Nat /\ Cardinality(keeps) \in Nat
      /\ ref \in Nat /\ lent \in Nat
  BY UsersFinite, RefKeepsAlive DEF SharedInv, StartInv, SharedTypes
<1>4. ref = Cardinality(handles) + Cardinality(keeps) + lent
  BY DEF SharedInv, RefsAreCounted
<1>5. CASE copyHandle(u)
  <2>1. handles' = handles \cup {u} /\ u \notin handles /\ incRef /\ (handles # {} \/ ref > 0)
    BY <1>5 DEF copyHandle
  <2>2. ref > 0 /\ objectState = "live"
    BY <2>1, RefKeepsAlive
  <2>3. Lifetime'
    <3>1. \A v \in Users : userPc'[v] = "keep" => v \in handles'
      BY <1>1, <2>1, <2>2 DEF SharedInv, Lifetime
    <3> QED
      BY <2>1, <2>2, <3>1, RefUp
  <2>4. Cardinality(handles') = Cardinality(handles) + 1
    BY <1>3, <2>1, UserComes
  <2>5. RefsAreCounted'
    BY <1>1, <1>2, <1>3, <1>4, <2>1, <2>4 DEF incRef, RefsAreCounted
  <2> QED
    BY <2>3, <2>5
<1>6. CASE dropHandle(u)
  <2>1. handles' = handles \ {u} /\ u \in handles /\ decRef
    BY <1>6 DEF dropHandle
  <2>2. Lifetime'
    BY <1>1, <2>1, RefDown, RefKeepsAlive
  <2>3. Cardinality(handles') = Cardinality(handles) - 1
    BY <1>3, <2>1, UserGoes
  <2>4. RefsAreCounted'
    BY <1>1, <1>2, <1>3, <1>4, <2>1, <2>3 DEF decRef, RefsAreCounted
  <2> QED
    BY <2>2, <2>4
<1> QED
  BY <1>5, <1>6

\* start() up to the new thread, and after it.
LEMMA UserStep ==
  ASSUME SharedInv, NEW u \in Users, callStart(u) \/ userStep(u)
  PROVE  RefsAreCounted' /\ Lifetime'
<1>1. /\ handles' = handles /\ userPc \in [Users -> UserPcs]
      /\ keeps \in SUBSET Users /\ Cardinality(keeps) \in Nat /\ Cardinality(handles) \in Nat
      /\ ref \in Nat /\ lent \in Nat /\ (ref > 0 => objectState = "live")
      /\ handles # {} \/ keeps # {} \/ lent > 0 => ref > 0
  BY UsersFinite, RefKeepsAlive
     DEF SharedInv, StartInv, SharedTypes, callStart, userStep, keepMe, lockStart, testStarted, createThread,
         setRunning, unlockStart, dropKeepMe
<1>2. /\ ref = Cardinality(handles) + Cardinality(keeps) + lent
      /\ u \in keeps <=> userPc[u] \notin {"idle", "keep"}
  BY DEF SharedInv, RefsAreCounted, StartInv, PlacesAgree
<1>3. CASE callStart(u) \/ lockStart(u) \/ setRunning(u) \/ unlockStart(u)
  <2>1. /\ noRef /\ keeps' = keeps /\ threadPc' = threadPc
        /\ \A v \in Users : v # u => userPc'[v] = userPc[v]
        /\ userPc[u] \notin {"keep", "create"} /\ userPc'[u] # "create"
        /\ userPc'[u] = "keep" => u \in handles
    BY <1>1, <1>3 DEF callStart, lockStart, setRunning, unlockStart, goes
  <2>2. lent' = lent
    BY <2>1 DEF lent, threadInside, creating
  <2>3. RefsAreCounted'
    BY <1>1, <1>2, <2>1, <2>2 DEF noRef, RefsAreCounted
  <2>4. Lifetime'
    BY <1>1, <2>1, RefSame, MakerUses
  <2> QED
    BY <2>3, <2>4
<1>4. CASE keepMe(u)
  <2>1. /\ incRef /\ keeps' = keeps \cup {u} /\ threadPc' = threadPc /\ userPc[u] = "keep"
        /\ userPc' = [userPc EXCEPT ![u] = "lock"] /\ u \notin keeps
    BY <1>2, <1>4 DEF keepMe, goes
  <2>2. lent' = lent
    BY <1>1, <2>1 DEF lent, threadInside, creating
  <2>3. Cardinality(keeps') = Cardinality(keeps) + 1
    BY <1>1, <2>1, UserComes
  <2>4. RefsAreCounted'
    BY <1>1, <1>2, <2>1, <2>2, <2>3 DEF incRef, RefsAreCounted
  <2>5. objectState = "live" /\ \A v \in Users : userPc'[v] = "keep" => v \in handles'
    <3>1. CASE u \in handles
      <4>1. ref > 0 /\ objectState = "live"
        BY <1>1, <3>1
      <4> QED
        BY <1>1, <2>1, <4>1 DEF SharedInv, Lifetime
    <3>2. CASE u \notin handles
      <4>1. u = Maker /\ ref = 0 /\ objectState = "live"
        BY <2>1, <3>2 DEF SharedInv, Lifetime
      <4> QED
        BY <1>1, <2>1, <4>1 DEF SharedInv, Lifetime
    <3> QED
      BY <3>1, <3>2
  <2> QED
    BY <2>1, <2>4, <2>5, RefUp
<1>5. CASE testStarted(u)
  <2>1. /\ keeps' = keeps /\ threadPc' = threadPc /\ userPc[u] = "test" /\ u \in keeps
        /\ \/ started /\ noRef /\ userPc' = [userPc EXCEPT ![u] = "unlock"]
           \/ ~started /\ incRef /\ userPc' = [userPc EXCEPT ![u] = "create"]
    BY <1>2, <1>5 DEF testStarted, goes
  <2>2. CASE started /\ noRef /\ userPc' = [userPc EXCEPT ![u] = "unlock"]
    <3>1. lent' = lent
      BY <1>1, <2>1, <2>2 DEF lent, threadInside, creating
    <3>2. RefsAreCounted'
      BY <1>1, <1>2, <2>1, <2>2, <3>1 DEF noRef, RefsAreCounted
    <3>3. Lifetime'
      BY <1>1, <2>1, <2>2, RefSame, MakerUses
    <3> QED
      BY <3>2, <3>3
  <2>3. CASE ~started /\ incRef /\ userPc' = [userPc EXCEPT ![u] = "create"]
    <3>1. threadPc = "none" /\ \A v \in Users : userPc[v] # "create"
      BY <2>1, <2>3 DEF SharedInv, StartInv, OneStart, PlacesAgree
    <3>2. lent = 0 /\ lent' = 1
      BY <1>1, <2>1, <2>3, <3>1 DEF lent, threadInside, creating
    <3>3. RefsAreCounted'
      BY <1>1, <1>2, <2>1, <2>3, <3>2 DEF incRef, RefsAreCounted
    <3>4. objectState = "live" /\ ref > 0
      BY <1>1, <2>1
    <3>5. \A v \in Users : userPc'[v] = "keep" => v \in handles'
      BY <1>1, <2>3, <3>4 DEF SharedInv, Lifetime
    <3> QED
      BY <2>3, <3>3, <3>4, <3>5, RefUp
  <2> QED
    BY <2>1, <2>2, <2>3
<1>6. CASE createThread(u)
  <2>1. /\ keeps' = keeps /\ userPc[u] = "create" /\ u \in keeps
        /\ \/ userPc' = [userPc EXCEPT ![u] = "set"] /\ noRef /\ threadPc' = "hook"
           \/ userPc' = [userPc EXCEPT ![u] = "unlock"] /\ decRef /\ threadPc' = threadPc
    BY <1>2, <1>6 DEF createThread, goes
  <2>2. threadPc = "none" /\ \A v \in Users : v # u => userPc[v] # "create"
    BY <2>1 DEF SharedInv, StartInv, OneStart, PlacesAgree
  <2>3. lent = 1
    BY <2>1, <2>2 DEF lent, threadInside, creating
  <2>4. CASE userPc' = [userPc EXCEPT ![u] = "set"] /\ noRef /\ threadPc' = "hook"
    <3>1. lent' = 1
      BY <2>4 DEF lent, threadInside
    <3>2. RefsAreCounted'
      BY <1>1, <1>2, <2>1, <2>3, <2>4, <3>1 DEF noRef, RefsAreCounted
    <3>3. Lifetime'
      BY <1>1, <2>1, <2>4, RefSame, MakerUses
    <3> QED
      BY <3>2, <3>3
  <2>5. CASE userPc' = [userPc EXCEPT ![u] = "unlock"] /\ decRef /\ threadPc' = threadPc
    <3>1. lent' = 0
      BY <1>1, <2>2, <2>5 DEF lent, threadInside, creating
    <3>2. RefsAreCounted'
      BY <1>1, <1>2, <2>1, <2>3, <2>5, <3>1 DEF decRef, RefsAreCounted
    <3>3. Lifetime'
      BY <1>1, <2>1, <2>5, RefDown
    <3> QED
      BY <3>2, <3>3
  <2> QED
    BY <2>1, <2>4, <2>5
<1>7. CASE dropKeepMe(u)
  <2>1. /\ decRef /\ keeps' = keeps \ {u} /\ threadPc' = threadPc /\ u \in keeps
        /\ userPc[u] = "unkeep" /\ userPc' = [userPc EXCEPT ![u] = "idle"]
    BY <1>2, <1>7 DEF dropKeepMe, goes
  <2>2. lent' = lent
    BY <1>1, <2>1 DEF lent, threadInside, creating
  <2>3. Cardinality(keeps') = Cardinality(keeps) - 1
    BY <1>1, <2>1, UserGoes
  <2>4. RefsAreCounted'
    BY <1>1, <1>2, <2>1, <2>2, <2>3 DEF decRef, RefsAreCounted
  <2>5. Lifetime'
    BY <1>1, <2>1, RefDown
  <2> QED
    BY <2>4, <2>5
<1> QED
  BY <1>3, <1>4, <1>5, <1>6, <1>7 DEF userStep

LEMMA NewThreadStep ==
  ASSUME SharedInv, threadHookStep \/ \E u \in Users : joinThread(u)
  PROVE  RefsAreCounted' /\ Lifetime'
<1>1. UNCHANGED <<handles, userPc, keeps>>
  BY DEF threadHookStep, startHook, runReturns, setDone, unlockDone, threadEnds, joinThread, threadGoes
<1>2. /\ Cardinality(keeps) \in Nat /\ Cardinality(handles) \in Nat /\ ref \in Nat /\ lent \in Nat
      /\ (ref > 0 => objectState = "live") /\ (handles # {} \/ lent > 0 => ref > 0)
      /\ ref = Cardinality(handles) + Cardinality(keeps) + lent
  BY UsersFinite, RefKeepsAlive DEF SharedInv, StartInv, SharedTypes, RefsAreCounted
<1>3. threadPc # "none" => ~creating
  BY DEF SharedInv, StartInv, OneStart, creating
<1>4. creating' = creating
  BY <1>1 DEF creating
<1>5. CASE runReturns \/ setDone \/ unlockDone \/ \E u \in Users : joinThread(u)
  <2>1. noRef /\ lent' = lent
    BY <1>3, <1>4, <1>5 DEF runReturns, setDone, unlockDone, joinThread, threadGoes, lent, threadInside
  <2> QED
    BY <1>1, <1>2, <2>1, RefSame DEF noRef, RefsAreCounted
<1>6. CASE startHook
  <2>1. \/ incRef /\ threadPc = "hook" /\ threadPc' = "hookDec"
        \/ decRef /\ threadPc = "hookDec" /\ threadPc' = "run"
    BY <1>6 DEF startHook, threadGoes, hookRef, hookOrder
  <2>2. CASE incRef /\ threadPc = "hook" /\ threadPc' = "hookDec"
    <3>1. lent = 1 /\ lent' = 2
      BY <1>3, <2>2 DEF lent, threadInside
    <3>2. ref > 0 /\ objectState = "live"
      BY <1>2, <3>1
    <3>3. \A v \in Users : userPc'[v] = "keep" => v \in handles'
      BY <1>1, <3>2 DEF SharedInv, Lifetime
    <3>4. RefsAreCounted'
      BY <1>1, <1>2, <2>2, <3>1 DEF incRef, RefsAreCounted
    <3> QED
      BY <2>2, <3>2, <3>3, <3>4, RefUp
  <2>3. CASE decRef /\ threadPc = "hookDec" /\ threadPc' = "run"
    <3>1. lent = 2 /\ lent' = 1
      BY <1>3, <1>4, <2>3 DEF lent, threadInside
    <3>2. ref > 0
      BY <1>2, <3>1
    <3>3. RefsAreCounted'
      BY <1>1, <1>2, <2>3, <3>1 DEF decRef, RefsAreCounted
    <3> QED
      BY <1>1, <2>3, <3>2, <3>3, RefDown
  <2> QED
    BY <2>1, <2>2, <2>3
<1>7. CASE threadEnds
  <2>1. decRef /\ threadPc = "leave" /\ threadPc' = "ended"
    BY <1>7 DEF threadEnds, threadGoes
  <2>2. lent = 1 /\ lent' = 0
    BY <1>3, <1>4, <2>1 DEF lent, threadInside
  <2>3. RefsAreCounted'
    BY <1>1, <1>2, <2>1, <2>2 DEF decRef, RefsAreCounted
  <2> QED
    BY <1>1, <1>2, <2>1, <2>2, <2>3, RefDown
<1> QED
  BY <1>5, <1>6, <1>7 DEF threadHookStep

LEMMA SharedStep == SharedInv /\ [SharedNext]_sharedVars => SharedInv'
<1> SUFFICES ASSUME SharedInv, [SharedNext]_sharedVars PROVE SharedInv'
  OBVIOUS
<1>1. StartInv'
  BY StartStep DEF SharedInv
<1>2. RefsAreCounted' /\ Lifetime'
  <2>1. CASE deleteThis
    BY <2>1 DEF deleteThis, SharedInv, RefsAreCounted, Lifetime, lent, threadInside, creating
  <2>2. CASE UNCHANGED sharedVars
    BY <2>2 DEF sharedVars, SharedInv, RefsAreCounted, Lifetime, lent, threadInside, creating
  <2>3. CASE threadHookStep \/ \E u \in Users : joinThread(u)
    BY <2>3, NewThreadStep
  <2>4. CASE \E u \in Users : copyHandle(u) \/ dropHandle(u) \/ callStart(u) \/ userStep(u)
    BY <2>4, HandleStep, UserStep
  <2> QED
    BY <2>1, <2>2, <2>3, <2>4 DEF SharedNext
<1> QED
  BY <1>1, <1>2 DEF SharedInv

LEMMA InvShares == SharedInv => SharedSafe
<1> SUFFICES ASSUME SharedInv PROVE DeletedIsUnused /\ AliveIsTrue
  BY DEF SharedSafe
<1>1. /\ StartInv /\ Lifetime
      /\ ref \in Nat /\ (ref = 0 => handles = {} /\ keeps = {} /\ lent = 0)
      /\ ref = Cardinality(handles) + Cardinality(keeps) + lent
  BY RefKeepsAlive DEF SharedInv, RefsAreCounted
<1>2. objectState # "live" => handles = {} /\ quiet /\ threadMutex = NoOne
  <2> SUFFICES ASSUME objectState # "live" PROVE handles = {} /\ quiet /\ threadMutex = NoOne
    OBVIOUS
  <2>1. handles = {} /\ keeps = {} /\ lent = 0
    BY <1>1 DEF Lifetime
  <2>2. ~threadInside
    BY <2>1 DEF lent, threadInside
  <2>3. \A u \in Users : userPc[u] = "idle"
    BY <1>1, <2>1 DEF StartInv, PlacesAgree, Lifetime
  <2>4. threadMutex = NoOne
    BY <1>1, <2>2, <2>3 DEF StartInv, SharedTypes, PlacesAgree, threadInside
  <2> QED
    BY <2>1, <2>2, <2>3, <2>4 DEF quiet, insideStart
<1>3. objectState = "live" /\ quiet => ref = Cardinality(handles) /\ ref > 0
  <2> SUFFICES ASSUME objectState = "live", quiet PROVE ref = Cardinality(handles) /\ ref > 0
    OBVIOUS
  <2>1. ~threadInside /\ \A u \in Users : userPc[u] = "idle"
    BY DEF quiet, insideStart
  <2>2. keeps = {}
    BY <1>1, <2>1 DEF StartInv, SharedTypes, PlacesAgree
  <2>3. lent = 0
    BY <2>1 DEF lent, threadInside, creating
  <2>4. Cardinality(handles) \in Nat /\ Cardinality(keeps) = 0
    BY <1>1, <2>2, UsersFinite, FS_EmptySet DEF StartInv, SharedTypes
  <2>5. ref # 0
    BY <1>1, <2>1, MakerUses DEF Lifetime
  <2> QED
    BY <1>1, <2>3, <2>4, <2>5
<1>4. AliveIsTrue
  <2> SUFFICES ASSUME insideStart = {}
               PROVE  isRunningFlag = (threadPc \in {"hook", "hookDec", "run", "done"})
    BY DEF AliveIsTrue
  <2>1. \A u \in Users : userPc[u] # "set"
    BY DEF insideStart
  <2>2. isRunningFlag <=> threadPc \in {"hook", "hookDec", "run", "done"}
    BY <1>1, <2>1 DEF StartInv, OneStart, BeforeDone
  <2>3. isRunningFlag \in BOOLEAN
    BY <1>1 DEF StartInv, SharedTypes
  <2> QED
    BY <2>2, <2>3, Zenon
<1> QED
  BY <1>2, <1>3, <1>4 DEF DeletedIsUnused

-----------------------------------------------------------------------------

\* For any number of users: an object is deleted once nobody has a handle on it and
\* nobody is inside it, neither in start() nor in the new thread, and its mutex is free;
\* as long as it is there its count is that of the handles; and isAlive() is right about
\* the thread whenever no start() is under way (Shared.cpp, Handle.h, TbThread.cpp).
THEOREM SharedIsSafe == Spec => []SharedSafe
<1>1. Init => SharedInv
  BY SharedStarts DEF Init
<1>2. SharedInv /\ [Next]_vars => SharedInv'
  BY SharedStep DEF Next, only, vars
<1> QED
  BY <1>1, <1>2, InvShares, PTL DEF Spec

-----------------------------------------------------------------------------
(* Service: its invariant *)

\* The types, those of records apart.
Flags == [destroyed : BOOLEAN, chlidStop : BOOLEAN, callback : BOOLEAN, instance : BOOLEAN,
          cancelled : BOOLEAN, status : {"success", "failure"}]
SigwaitThreads == [pc : SigwaitSteps, signal : Signals]
Pipes == [bytes : {<<>>, <<0>>, <<1>>}, writable : BOOLEAN]

PlaceTypes ==
  /\ shell \in [Launches -> ShellSteps] /\ service \in [Launches -> ServiceSteps]
  /\ command \in [Launches -> Commands]
  /\ pending \in [Launches -> SUBSET Signals] /\ wanted \in [Launches -> Nat]
RecordTypes ==
  /\ flags \in [Launches -> Flags] /\ sigwaiter \in [Launches -> SigwaitThreads]
  /\ pipe \in [Launches -> Pipes]
ServiceTypes == PlaceTypes /\ RecordTypes

\* What the started process does goes with its command; its service is there from the
\* fork on, and a service of the foreground is no daemon.
ShellInv(l) ==
  /\ shell[l] \in {"off", "main", "runDaemon", "fork", "kill"} => service[l] = "none"
  /\ shell[l] \in {"runDaemon", "fork", "reading"} => command[l] = "runDaemon"
  /\ shell[l] = "foreground" =>
       /\ command[l] = "foreground"
       /\ service[l] \notin {"child", "grandchild", "report", "initialize", "open pid", "write pid", "failed"}
  /\ isDaemon(l) => shell[l] \in {"reading", "success", "failure"}

\* What is in the pipe of a daemon, and that the shell has not read more than that.
PipeInv(l) ==
  /\ service[l] = "none" => pipe[l].bytes = <<>> /\ l \notin ran
  /\ isDaemon(l) =>
       /\ pipe[l].writable <=> service[l] \in {"child", "grandchild", "run", "report", "failed"}
       /\ pipe[l].writable => pipe[l].bytes = <<>>
       /\ ~pipe[l].writable /\ pipe[l].bytes = <<>> => l \in died
       /\ pipe[l].bytes = <<0>> => l \in ran
       /\ pipe[l].bytes = <<1>> => l \notin ran
       /\ service[l] \in {"child", "grandchild", "run", "failed"} => l \notin ran
       /\ service[l] = "report" => l \in ran
       /\ shell[l] = "success" => l \in ran \cup died
       /\ shell[l] = "failure" => pipe[l].bytes = <<1>>

\* The signal thread is over when its service is, and one that calls the callback finds
\* the service waiting, unless it was asked to end before.
SignalInv(l) ==
  /\ service[l] = "none" => sigwaiter[l].pc = "none"
  /\ service[l] = "gone" => sigwaiter[l].pc = "ended"
  /\ flags[l].callback => service[l] = "waiting"
  /\ sigwaiter[l].pc \in {"callback", "interruptCallback"} /\ ~flags[l].destroyed => service[l] = "waiting"

\* A service was asked to end, or sent a signal, at least once for each signal that waits,
\* for the one that the signal thread handles, and for the end of waitForShutdown().
owing(l, s) == IF s \in pending[l] THEN 1 ELSE 0
waiting(l) == owing(l, "SIGINT") + owing(l, "SIGHUP")
handling(l) == IF sigwaiter[l].pc \in {"getCallback", "callback", "interruptCallback"} THEN 1 ELSE 0
ended(l) == IF flags[l].destroyed THEN 1 ELSE 0
RequestInv(l) ==
  /\ sigwaiter[l].pc \in {"returning", "shutdown"} => wanted[l] >= waiting(l) + 1
  /\ sigwaiter[l].pc \notin {"returning", "shutdown"} => wanted[l] >= waiting(l) + handling(l) + ended(l)

\* As long as nothing went wrong with the pid file, one start at most is under way or has
\* a daemon, and a daemon that has written its pid is the one in the file.
active(l) == shell[l] = "fork" \/ (exists(l) /\ shell[l] # "foreground")
SoleInv ==
  ~disturbed =>
    /\ detached = {}
    /\ \A k, l \in Launches : active(k) /\ active(l) => k = l
    /\ \A l \in Launches : active(l) /\ service[l] \in {"waitForShutdown", "waiting"} => pidFile = l

LaunchInv(l) == ShellInv(l) /\ PipeInv(l) /\ SignalInv(l) /\ RequestInv(l)
ServiceInv == ServiceTypes /\ SoleInv /\ \A l \in Launches : LaunchInv(l)

-----------------------------------------------------------------------------
(* Service: a step of one launch *)

\* What a step leaves to a launch that it is not about.
Same(k) ==
  /\ shell'[k] = shell[k] /\ command'[k] = command[k] /\ service'[k] = service[k]
  /\ flags'[k] = flags[k] /\ sigwaiter'[k] = sigwaiter[k] /\ pending'[k] = pending[k]
  /\ pipe'[k] = pipe[k] /\ wanted'[k] = wanted[k]
  /\ (k \in ran' <=> k \in ran) /\ (k \in died' <=> k \in died)
OthersSame(l) == \A k \in Launches \ {l} : Same(k)

LEMMA SameKeeps ==
  ASSUME NEW k, LaunchInv(k), Same(k)
  PROVE  LaunchInv(k)'
<1>1. (exists(k)' <=> exists(k)) /\ (isDaemon(k)' <=> isDaemon(k))
  BY DEF Same, exists, isDaemon
<1>2. waiting(k)' = waiting(k) /\ handling(k)' = handling(k) /\ ended(k)' = ended(k)
  BY DEF Same, waiting, owing, handling, ended
<1>3. ShellInv(k)'
  BY <1>1 DEF LaunchInv, ShellInv, Same
<1>4. PipeInv(k)'
  BY <1>1 DEF LaunchInv, PipeInv, Same
<1>5. SignalInv(k)' /\ RequestInv(k)'
  BY <1>2 DEF LaunchInv, SignalInv, RequestInv, Same
<1> QED
  BY <1>3, <1>4, <1>5 DEF LaunchInv

LEMMA StepOfOne ==
  ASSUME ServiceInv, NEW l \in Launches, OthersSame(l), LaunchInv(l)'
  PROVE  \A k \in Launches : LaunchInv(k)'
BY SameKeeps DEF ServiceInv, OthersSame

LEMMA MainResults == \A o : mainResult(o) \in Commands
<1> SUFFICES ASSUME NEW o PROVE mainResult(o) \in Commands
  OBVIOUS
<1> QED
  BY DEF mainResult, Commands

LEMMA ServiceStarts == ServiceInit => ServiceInv
<1> SUFFICES ASSUME ServiceInit PROVE ServiceInv
  OBVIOUS
<1>1. ServiceTypes
  BY DEF ServiceInit, ServiceTypes, PlaceTypes, RecordTypes, Flags, SigwaitThreads, Pipes, newService,
       ShellSteps, ServiceSteps, Commands, SigwaitSteps, Signals
<1>2. SoleInv
  BY DEF ServiceInit, SoleInv, active, exists
<1>3. ASSUME NEW l \in Launches PROVE LaunchInv(l)
  BY <1>1 DEF ServiceInit, newService, LaunchInv, ShellInv, PipeInv, SignalInv, RequestInv, isDaemon, waiting, owing,
       handling, ended
<1> QED
  BY <1>1, <1>2, <1>3 DEF ServiceInv


\* The records of a launch stay what they are when one of their members changes.
LEMMA RecordsTyped ==
  /\ newService \in Flags
  /\ \A f \in Flags, b \in BOOLEAN, s \in {"success", "failure"} :
       /\ [f EXCEPT !.callback = b] \in Flags /\ [f EXCEPT !.destroyed = b] \in Flags
       /\ [f EXCEPT !.chlidStop = b, !.destroyed = b] \in Flags
       /\ [f EXCEPT !.instance = b, !.cancelled = ~b] \in Flags
       /\ [f EXCEPT !.status = s] \in Flags
  /\ \A w \in SigwaitThreads, pc \in SigwaitSteps : [w EXCEPT !.pc = pc] \in SigwaitThreads
  /\ \A pc \in SigwaitSteps, s \in Signals : [pc |-> pc, signal |-> s] \in SigwaitThreads
  /\ \A p \in Pipes, b \in BOOLEAN : [p EXCEPT !.writable = b] \in Pipes
  /\ \A n \in {0, 1} : [bytes |-> <<n>>, writable |-> FALSE] \in Pipes
<1>1. newService \in Flags
  BY DEF newService, Flags
<1>2. ASSUME NEW f \in Flags, NEW b \in BOOLEAN, NEW s \in {"success", "failure"}
      PROVE  /\ [f EXCEPT !.callback = b] \in Flags /\ [f EXCEPT !.destroyed = b] \in Flags
             /\ [f EXCEPT !.chlidStop = b, !.destroyed = b] \in Flags
             /\ [f EXCEPT !.instance = b, !.cancelled = ~b] \in Flags
             /\ [f EXCEPT !.status = s] \in Flags
  BY DEF Flags
<1>3. /\ \A w \in SigwaitThreads, pc \in SigwaitSteps : [w EXCEPT !.pc = pc] \in SigwaitThreads
      /\ \A pc \in SigwaitSteps, s \in Signals : [pc |-> pc, signal |-> s] \in SigwaitThreads
  BY DEF SigwaitThreads
<1>4. /\ \A p \in Pipes, b \in BOOLEAN : [p EXCEPT !.writable = b] \in Pipes
      /\ \A n \in {0, 1} : [bytes |-> <<n>>, writable |-> FALSE] \in Pipes
  BY DEF Pipes
<1> QED
  BY <1>1, <1>2, <1>3, <1>4

LEMMA Updated ==
  ASSUME NEW T, NEW f \in [Launches -> T], NEW l, NEW v \in T
  PROVE  [f EXCEPT ![l] = v] \in [Launches -> T]
OBVIOUS

LEMMA ForgetsTypes ==
  ASSUME ServiceTypes, NEW l \in Launches, forgets(l)
  PROVE  /\ flags' \in [Launches -> Flags] /\ sigwaiter' \in [Launches -> SigwaitThreads]
         /\ service' \in [Launches -> ServiceSteps] /\ pending' \in [Launches -> SUBSET Signals]
<1>1. flags' \in [Launches -> Flags]
  BY RecordsTyped DEF forgets, ServiceTypes, RecordTypes
<1>2. sigwaiter' \in [Launches -> SigwaitThreads]
  BY RecordsTyped DEF forgets, ServiceTypes, RecordTypes, Signals, SigwaitSteps
<1>3. service' \in [Launches -> ServiceSteps] /\ pending' \in [Launches -> SUBSET Signals]
  BY DEF forgets, at, ServiceTypes, PlaceTypes, ServiceSteps
<1> QED
  BY <1>1, <1>2, <1>3

LEMMA DiesTypes ==
  ASSUME ServiceTypes, NEW l \in Launches, dies(l)
  PROVE  RecordTypes' /\ service' \in [Launches -> ServiceSteps] /\ pending' \in [Launches -> SUBSET Signals]
<1>1. pipe' \in [Launches -> Pipes]
  BY RecordsTyped DEF ServiceTypes, RecordTypes, dies
<1> QED
  BY <1>1, ForgetsTypes DEF dies, RecordTypes

LEMMA GetsTypes ==
  ASSUME ServiceTypes, NEW l \in Launches, NEW s \in Signals, gets(l, s)
  PROVE  pending' \in [Launches -> SUBSET Signals] /\ wanted' \in [Launches -> Nat]
BY DEF gets, ServiceTypes, PlaceTypes

\* The steps of a launch before its service is there; and the end of the stop command.
LEMMA ShellTypes ==
  ASSUME ServiceTypes, NEW l \in Launches,
         (\E args \in CommandLines : callMain(l, args)) \/ shellStep(l)
  PROVE  ServiceTypes'
<1>1. CASE \E args \in CommandLines : callMain(l, args)
  BY <1>1, MainResults DEF callMain, results, exits, ServiceTypes, PlaceTypes, RecordTypes, ghostVars, ShellSteps
<1>2. CASE mainStop(l) \/ mainElse(l) \/ checkPid(l) \/ readPipe(l)
  BY <1>2 DEF mainStop, mainElse, checkPid, readPipe, told, exits, ServiceTypes, PlaceTypes, RecordTypes, ghostVars,
       ShellSteps, Commands
<1>3. CASE mainForeground(l)
  BY <1>3, RecordsTyped DEF mainForeground, at, exits, ServiceTypes, PlaceTypes, RecordTypes, ghostVars, 
       ShellSteps, ServiceSteps, SigwaitSteps
<1>4. CASE forkChild(l)
  <2>1. [pipe EXCEPT ![l].writable = TRUE] \in [Launches -> Pipes]
    BY RecordsTyped DEF ServiceTypes, RecordTypes
  <2> QED
    BY <1>4, <2>1 DEF forkChild, at, exits, ServiceTypes, PlaceTypes, RecordTypes, ghostVars, ShellSteps, ServiceSteps
<1>5. CASE mainKill(l)
  BY <1>5, DiesTypes, GetsTypes DEF mainKill, exits, ServiceTypes, PlaceTypes, RecordTypes, ShellSteps, Signals
<1> QED
  BY <1>1, <1>2, <1>3, <1>4, <1>5 DEF shellStep

LEMMA MainThreadTypes ==
  ASSUME ServiceTypes, NEW l \in Launches, mainThread(l)
  PROVE  ServiceTypes'
<1> USE DEF ServiceTypes, PlaceTypes, RecordTypes
<1>1. CASE runEnds(l) \/ initialize(l) \/ openPid(l) \/ writePid(l)
  BY <1>1 DEF runEnds, initialize, openPid, writePid, at, ghostVars, ServiceSteps
<1>2. CASE becomeDaemon(l)
  <2>1. [sigwaiter EXCEPT ![l].pc = "sigwait"] \in [Launches -> SigwaitThreads]
    BY RecordsTyped DEF SigwaitSteps
  <2> QED
    BY <1>2, <2>1 DEF becomeDaemon, at, ghostVars, ServiceSteps
<1>3. CASE report(l)
  BY <1>3, RecordsTyped DEF report, reportByte, at, ghostVars, ServiceSteps
<1>4. CASE startWaiting(l) \/ stopWaiting(l)
  <2>1. \A b \in BOOLEAN : [flags EXCEPT ![l].callback = b] \in [Launches -> Flags]
    BY RecordsTyped
  <2> QED
    BY <1>4, <2>1 DEF startWaiting, stopWaiting, at, ghostVars, ServiceSteps
<1>5. CASE destroy(l)
  <2>1. \A ok \in {"success", "failure"} : [flags EXCEPT ![l].status = ok] \in [Launches -> Flags]
    BY RecordsTyped
  <2> QED
    BY <1>5, <2>1 DEF destroy, at, ghostVars, ServiceSteps
<1>6. CASE deleteService(l)
  <2>1. [flags EXCEPT ![l].instance = FALSE, ![l].cancelled = TRUE] \in [Launches -> Flags]
    BY RecordsTyped
  <2> QED
    BY <1>6, <2>1 DEF deleteService, at, ghostVars, ServiceSteps
<1>7. CASE endService(l)
  <2>1. flags[l].status \in ShellSteps
    BY DEF Flags, ShellSteps
  <2> QED
    BY <1>7, <2>1, ForgetsTypes DEF endService, exits, ghostVars
<1> QED
  BY <1>1, <1>2, <1>3, <1>4, <1>5, <1>6, <1>7 DEF mainThread

LEMMA SignalTypes ==
  ASSUME ServiceTypes, NEW l \in Launches,
         sigwaitThread(l) \/ (\E s \in Signals : sendSignal(l, s)) \/ stop(l) \/ crash(l)
  PROVE  ServiceTypes'
<1>1. \A s, pc : firstStep(s) \in SigwaitSteps /\ stepAfter(s, pc) \in SigwaitSteps
  BY DEF firstStep, stepAfter, interruptSteps, SigwaitSteps
<1>2. \A pc \in SigwaitSteps : goesTo(l, pc) => sigwaiter' \in [Launches -> SigwaitThreads]
  <2>1. sigwaiter[l] \in SigwaitThreads
    BY DEF ServiceTypes, RecordTypes
  <2>2. \A pc \in SigwaitSteps : [sigwaiter[l] EXCEPT !.pc = pc] \in SigwaitThreads
    BY <2>1, RecordsTyped
  <2> QED
    BY <2>1, <2>2 DEF goesTo, ServiceTypes, RecordTypes
<1>3. /\ [flags EXCEPT ![l].destroyed = TRUE] \in [Launches -> Flags]
      /\ [flags EXCEPT ![l].chlidStop = TRUE, ![l].destroyed = TRUE] \in [Launches -> Flags]
  BY RecordsTyped DEF ServiceTypes, RecordTypes
<1> USE DEF ServiceTypes, PlaceTypes, RecordTypes
<1>4. CASE sigwaitReturns(l)
  <2>1. \A s \in Signals :
          [sigwaiter EXCEPT ![l] = [pc |-> "getCallback", signal |-> s]] \in [Launches -> SigwaitThreads]
    BY RecordsTyped DEF SigwaitSteps
  <2> QED
    BY <1>4, <2>1 DEF sigwaitReturns, mainElsewhere
<1>5. CASE getCallback(l) \/ callback(l) \/ cancelled(l)
  BY <1>1, <1>2, <1>5, DiesTypes DEF getCallback, callback, cancelled, mainElsewhere, SigwaitSteps
<1>6. CASE interruptCallback(l) \/ callbackReturns(l) \/ shutdown(l)
  <2>1. "returning" \in SigwaitSteps
    BY DEF SigwaitSteps
  <2>2. CASE interruptCallback(l)
    <3>1. sigwaiter' \in [Launches -> SigwaitThreads]
      BY <1>1, <1>2, <2>1, <2>2 DEF interruptCallback
    <3>2. flags' \in [Launches -> Flags]
      BY <1>3, <2>2 DEF interruptCallback
    <3> QED
      BY <2>2, <3>1, <3>2 DEF interruptCallback, mainElsewhere
  <2>3. CASE callbackReturns(l)
    BY <1>1, <1>2, <2>3 DEF callbackReturns, mainElsewhere
  <2>4. CASE shutdown(l)
    BY <1>1, <1>2, <1>3, <2>4 DEF shutdown, mainElsewhere
  <2> QED
    BY <1>6, <2>2, <2>3, <2>4
<1>7. CASE \E s \in Signals : sendSignal(l, s)
  BY <1>7, GetsTypes DEF sendSignal
<1>8. CASE stop(l)
  <2>1. wanted' = [wanted EXCEPT ![l] = wanted[l] + 1]
    BY <1>8, Zenon DEF stop
  <2>2. wanted' \in [Launches -> Nat]
    BY <2>1
  <2>3. flags' \in [Launches -> Flags]
    BY <1>3, <1>8, Zenon DEF stop
  <2>4. UNCHANGED <<shell, command, service, sigwaiter, pending, pipe>>
    BY <1>8, Zenon DEF stop
  <2> QED
    BY <2>2, <2>3, <2>4
<1>9. CASE crash(l)
  BY <1>9, DiesTypes DEF crash, exits, ShellSteps
<1> QED
  BY <1>4, <1>5, <1>6, <1>7, <1>8, <1>9 DEF sigwaitThread

LEMMA RequestSame ==
  ASSUME NEW l, RequestInv(l), pending'[l] = pending[l], wanted'[l] = wanted[l],
         sigwaiter'[l].pc = sigwaiter[l].pc, flags'[l].destroyed = flags[l].destroyed
  PROVE  RequestInv(l)'
BY DEF RequestInv, waiting, owing, handling, ended

\* The steps of the started process that leave the service alone.
LEMMA ShellAlone ==
  ASSUME ServiceInv, NEW l \in Launches,
         \/ \E args \in CommandLines : callMain(l, args)
         \/ mainStop(l) \/ mainElse(l) \/ checkPid(l) \/ readPipe(l)
  PROVE  \A k \in Launches : LaunchInv(k)'
<1>1. /\ UNCHANGED <<service, flags, sigwaiter, pending, pipe, ran, died, wanted>>
      /\ LaunchInv(l) /\ shell \in [Launches -> ShellSteps] /\ command \in [Launches -> Commands]
      /\ pipe \in [Launches -> Pipes]
  BY DEF callMain, mainStop, mainElse, checkPid, readPipe, ghostVars, ServiceInv, ServiceTypes, PlaceTypes, RecordTypes
<1>2. OthersSame(l)
  BY <1>1 DEF OthersSame, Same, callMain, mainStop, mainElse, checkPid, readPipe, exits
<1>3. SignalInv(l)' /\ RequestInv(l)'
  BY <1>1, RequestSame DEF LaunchInv, SignalInv
<1>4. ShellInv(l)'
  BY <1>1 DEF LaunchInv, ShellInv, isDaemon, callMain, mainStop, mainElse, checkPid, readPipe, told, exits, Commands
<1>5. PipeInv(l)'
  <2>1. CASE readPipe(l)
    <3>1. /\ shell[l] = "reading" /\ (pipe[l].bytes # <<>> \/ ~pipe[l].writable)
          /\ shell'[l] = told(pipe[l].bytes) /\ UNCHANGED command
      BY <1>1, <2>1 DEF readPipe, exits
    <3>2. pipe[l].bytes \in {<<>>, <<0>>, <<1>>}
      BY <1>1 DEF Pipes
    <3>3. told(<<>>) = "success" /\ told(<<0>>) = "success" /\ told(<<1>>) = "failure"
      BY DEF told
    <3> QED
      BY <1>1, <3>1, <3>2, <3>3 DEF LaunchInv, PipeInv, ShellInv, isDaemon
  <2>2. CASE ~readPipe(l)
    BY <1>1, <2>2 DEF LaunchInv, ShellInv, PipeInv, isDaemon, callMain, mainStop, mainElse, checkPid, exits
  <2> QED
    BY <2>1, <2>2
<1> QED
  BY <1>2, <1>3, <1>4, <1>5, StepOfOne DEF LaunchInv

LEMMA ShellForks ==
  ASSUME ServiceInv, NEW l \in Launches, mainForeground(l) \/ forkChild(l)
  PROVE  \A k \in Launches : LaunchInv(k)'
<1>1. /\ UNCHANGED <<command, flags, pending, ran, died, wanted>>
      /\ LaunchInv(l) /\ ServiceTypes
  BY DEF mainForeground, forkChild, ghostVars, ServiceInv
<1>2. CASE mainForeground(l)
  <2>1. OthersSame(l)
    BY <1>1, <1>2 DEF ServiceTypes, PlaceTypes, RecordTypes, OthersSame, Same, mainForeground, at, exits
  <2>2. /\ service[l] = "none" /\ command[l] = "foreground" /\ shell'[l] = "foreground" /\ service'[l] = "run"
        /\ UNCHANGED pipe /\ sigwaiter'[l].pc = "sigwait"
    BY <1>1, <1>2 DEF ServiceTypes, PlaceTypes, RecordTypes, SigwaitThreads, mainForeground, at, exits, LaunchInv,
         ShellInv
  <2>3. ShellInv(l)' /\ PipeInv(l)' /\ SignalInv(l)'
    BY <1>1, <2>2 DEF LaunchInv, ShellInv, PipeInv, SignalInv, isDaemon
  <2>4. wanted[l] \in Nat
    BY <1>1 DEF ServiceTypes, PlaceTypes
  <2>5. RequestInv(l)'
    BY <1>1, <2>2, <2>4 DEF LaunchInv, RequestInv, waiting, owing, handling, ended
  <2> QED
    BY <2>1, <2>3, <2>5, StepOfOne DEF LaunchInv
<1>3. CASE forkChild(l)
  <2>1. OthersSame(l) /\ UNCHANGED sigwaiter
    BY <1>1, <1>3 DEF ServiceTypes, PlaceTypes, RecordTypes, OthersSame, Same, forkChild, at, exits
  <2>2. /\ service[l] = "none" /\ command[l] = "runDaemon"
        /\ \/ /\ shell'[l] = "reading" /\ service'[l] = "child"
              /\ pipe'[l].bytes = pipe[l].bytes /\ pipe'[l].writable
           \/ shell'[l] = "failure" /\ UNCHANGED <<service, pipe>>
    BY <1>1, <1>3 DEF ServiceTypes, PlaceTypes, RecordTypes, Pipes, forkChild, at, exits, LaunchInv, ShellInv
  <2>3. ShellInv(l)' /\ SignalInv(l)' /\ RequestInv(l)'
    BY <1>1, <2>1, <2>2, RequestSame DEF LaunchInv, ShellInv, SignalInv, isDaemon
  <2>4. <<>> # <<0>> /\ <<>> # <<1>>
    OBVIOUS
  <2>5. PipeInv(l)'
    BY <1>1, <2>2, <2>4 DEF LaunchInv, PipeInv, isDaemon
  <2> QED
    BY <2>1, <2>3, <2>5, StepOfOne DEF LaunchInv
<1> QED
  BY <1>2, <1>3

\* The end of a service, by a signal or in its time: nothing is left that needs it.
LEMMA ForgetsKeeps ==
  ASSUME ServiceInv, NEW k \in Launches, exists(k), forgets(k), command'[k] = command[k], wanted'[k] = wanted[k],
         \/ shell'[k] = shell[k]
         \/ shell[k] = "foreground" /\ shell'[k] \in {"success", "failure"}
  PROVE  /\ ShellInv(k)' /\ SignalInv(k)' /\ RequestInv(k)' /\ service'[k] = "gone"
         /\ \A j \in Launches \ {k} : /\ service'[j] = service[j] /\ flags'[j] = flags[j]
                                      /\ pending'[j] = pending[j] /\ sigwaiter'[j] = sigwaiter[j]
<1>1. ServiceTypes /\ LaunchInv(k)
  BY DEF ServiceInv
<1>2. /\ service'[k] = "gone" /\ pending'[k] = {} /\ sigwaiter'[k].pc = "ended"
      /\ flags'[k] = newService /\ wanted[k] \in Nat
  BY <1>1 DEF forgets, at, ServiceTypes, PlaceTypes, RecordTypes
<1>3. \A j \in Launches \ {k} : /\ service'[j] = service[j] /\ flags'[j] = flags[j]
                                /\ pending'[j] = pending[j] /\ sigwaiter'[j] = sigwaiter[j]
  BY <1>1 DEF forgets, at, ServiceTypes, PlaceTypes, RecordTypes
<1>4. ShellInv(k)'
  BY <1>1, <1>2 DEF LaunchInv, ShellInv, isDaemon, exists
<1>5. ~flags'[k].destroyed /\ ~flags'[k].callback
  BY <1>2 DEF newService
<1>6. SignalInv(k)' /\ RequestInv(k)'
  BY <1>2, <1>5 DEF SignalInv, RequestInv, waiting, owing, handling, ended
<1> QED
  BY <1>2, <1>3, <1>4, <1>6

LEMMA DiesKeeps ==
  ASSUME ServiceInv, NEW k \in Launches, exists(k), dies(k), command'[k] = command[k], wanted'[k] = wanted[k],
         k \in ran' <=> k \in ran,
         \/ shell'[k] = shell[k]
         \/ shell[k] = "foreground" /\ shell'[k] \in {"success", "failure"}
  PROVE  /\ LaunchInv(k)'
         /\ \A j \in Launches \ {k} :
              /\ service'[j] = service[j] /\ flags'[j] = flags[j]
              /\ pending'[j] = pending[j] /\ sigwaiter'[j] = sigwaiter[j]
              /\ pipe'[j] = pipe[j] /\ (j \in died' <=> j \in died)
<1>1. ServiceTypes /\ LaunchInv(k)
  BY DEF ServiceInv
<1>2. /\ ShellInv(k)' /\ SignalInv(k)' /\ RequestInv(k)' /\ service'[k] = "gone"
      /\ \A j \in Launches \ {k} : /\ service'[j] = service[j] /\ flags'[j] = flags[j]
                                   /\ pending'[j] = pending[j] /\ sigwaiter'[j] = sigwaiter[j]
  BY ForgetsKeeps DEF dies
<1>3. /\ pipe'[k].bytes = pipe[k].bytes /\ ~pipe'[k].writable /\ k \in died'
      /\ \A j \in Launches \ {k} : pipe'[j] = pipe[j] /\ (j \in died' <=> j \in died)
  BY <1>1 DEF dies, ServiceTypes, RecordTypes, Pipes
<1>4. PipeInv(k)'
  <2>1. isDaemon(k)' => isDaemon(k) /\ shell'[k] = shell[k]
    BY <1>1 DEF isDaemon, exists, LaunchInv, ShellInv
  <2> QED
    BY <1>1, <1>2, <1>3, <2>1 DEF LaunchInv, PipeInv
<1> QED
  BY <1>2, <1>3, <1>4 DEF LaunchInv

\* A signal that is sent is a request more, and one more that waits at most.
LEMMA GetsKeeps ==
  ASSUME ServiceInv, NEW k \in Launches, NEW s \in Signals, gets(k, s),
         shell'[k] = shell[k], command'[k] = command[k],
         UNCHANGED <<service, flags, sigwaiter, pipe, ran, died>>
  PROVE  /\ LaunchInv(k)'
         /\ \A j \in Launches \ {k} : pending'[j] = pending[j] /\ wanted'[j] = wanted[j]
<1>1. ServiceTypes /\ LaunchInv(k)
  BY DEF ServiceInv
<1>2. /\ pending'[k] = pending[k] \cup {s} /\ wanted'[k] = wanted[k] + 1 /\ wanted[k] \in Nat
      /\ \A j \in Launches \ {k} : pending'[j] = pending[j] /\ wanted'[j] = wanted[j]
  BY <1>1 DEF gets, ServiceTypes, PlaceTypes
<1>3. ShellInv(k)' /\ PipeInv(k)' /\ SignalInv(k)'
  BY <1>1 DEF LaunchInv, ShellInv, PipeInv, SignalInv, isDaemon
<1>4. waiting(k)' <= waiting(k) + 1 /\ waiting(k) \in Nat /\ waiting(k)' \in Nat
  BY <1>2 DEF waiting, owing, Signals
<1>5. /\ handling(k)' = handling(k) /\ ended(k)' = ended(k) /\ handling(k) \in Nat /\ ended(k) \in Nat
  BY DEF handling, ended
<1>6. RequestInv(k)'
  BY <1>1, <1>2, <1>4, <1>5 DEF LaunchInv, RequestInv
<1> QED
  BY <1>2, <1>3, <1>6 DEF LaunchInv

LEMMA MainKill ==
  ASSUME ServiceInv, NEW l \in Launches, mainKill(l)
  PROVE  \A k \in Launches : LaunchInv(k)'
<1>1. ServiceTypes /\ LaunchInv(l)
  BY DEF ServiceInv
<1> PICK k : k = target[l]
  OBVIOUS
<1>2. /\ shell[l] = "kill" /\ shell'[l] = "success" /\ UNCHANGED <<command, ran>>
      /\ \A j \in Launches \ {l} : shell'[j] = shell[j]
  BY <1>1 DEF mainKill, exits, ServiceTypes, PlaceTypes
<1>3. service[l] = "none" /\ ~exists(l)
  BY <1>1, <1>2 DEF LaunchInv, ShellInv, exists
<1>4. ASSUME Same(l) \/ /\ service'[l] = service[l] /\ flags'[l] = flags[l] /\ sigwaiter'[l] = sigwaiter[l]
                        /\ pending'[l] = pending[l] /\ pipe'[l] = pipe[l] /\ wanted'[l] = wanted[l]
                        /\ (l \in died' <=> l \in died)
      PROVE LaunchInv(l)'
  <2>1. RequestInv(l)'
    BY <1>1, <1>4, RequestSame DEF LaunchInv, Same
  <2>2. ShellInv(l)' /\ PipeInv(l)' /\ SignalInv(l)'
    BY <1>1, <1>2, <1>3, <1>4 DEF LaunchInv, ShellInv, PipeInv, SignalInv, isDaemon, Same
  <2> QED
    BY <2>1, <2>2 DEF LaunchInv
<1>5. CASE k \in Launches /\ exists(k) /\ dies(k) /\ UNCHANGED wanted
  <2>1. k # l /\ shell'[k] = shell[k]
    BY <1>2, <1>3, <1>5
  <2>2. /\ LaunchInv(k)'
        /\ \A j \in Launches \ {k} :
             /\ service'[j] = service[j] /\ flags'[j] = flags[j]
             /\ pending'[j] = pending[j] /\ sigwaiter'[j] = sigwaiter[j]
             /\ pipe'[j] = pipe[j] /\ (j \in died' <=> j \in died)
    BY <1>2, <1>5, <2>1, DiesKeeps
  <2>3. \A j \in Launches \ {k, l} : Same(j)
    BY <1>2, <1>5, <2>2 DEF Same
  <2>4. \A j \in Launches \ {k, l} : LaunchInv(j)'
    BY <2>3, SameKeeps DEF ServiceInv
  <2> QED
    BY <1>4, <1>5, <2>1, <2>2, <2>4
<1>6. CASE k \in Launches /\ exists(k) /\ gets(k, "SIGINT") /\ UNCHANGED <<service, flags, pipe, died, sigwaiter>>
  <2>1. k # l /\ shell'[k] = shell[k] /\ "SIGINT" \in Signals
    BY <1>2, <1>3, <1>6 DEF Signals
  <2>2. /\ LaunchInv(k)'
        /\ \A j \in Launches \ {k} : pending'[j] = pending[j] /\ wanted'[j] = wanted[j]
    BY <1>2, <1>6, <2>1, GetsKeeps
  <2>3. \A j \in Launches \ {k, l} : Same(j)
    BY <1>2, <1>6, <2>2 DEF Same
  <2>4. \A j \in Launches \ {k, l} : LaunchInv(j)'
    BY <2>3, SameKeeps DEF ServiceInv
  <2> QED
    BY <1>4, <1>6, <2>1, <2>2, <2>4
<1>7. CASE UNCHANGED <<service, flags, pipe, died, sigwaiter, pending, wanted>>
  <2>1. OthersSame(l)
    BY <1>2, <1>7 DEF OthersSame, Same
  <2> QED
    BY <1>4, <1>7, <2>1, StepOfOne
<1> QED
  BY <1>5, <1>6, <1>7 DEF mainKill

\* The main thread of a service, up to waitForShutdown().
LEMMA DaemonStarts ==
  ASSUME ServiceInv, NEW l \in Launches,
         becomeDaemon(l) \/ runEnds(l) \/ report(l) \/ initialize(l) \/ openPid(l) \/ writePid(l)
  PROVE  \A k \in Launches : LaunchInv(k)'
<1>1. /\ ServiceTypes /\ LaunchInv(l)
      /\ UNCHANGED <<shell, command, flags, pending, wanted, died>>
  BY DEF becomeDaemon, runEnds, report, initialize, openPid, writePid, ghostVars, ServiceInv
<1>2. OthersSame(l)
  BY <1>1 DEF ServiceTypes, PlaceTypes, RecordTypes, OthersSame, Same, becomeDaemon, runEnds, report, initialize,
       openPid, writePid, at, ghostVars
<1>3. /\ sigwaiter'[l].pc \in {sigwaiter[l].pc, "sigwait"} /\ service[l] # "waiting"
      /\ service[l] # "gone" /\ service'[l] \notin {"none", "gone"} /\ wanted[l] \in Nat
  <2>1. CASE becomeDaemon(l)
    BY <1>1, <2>1 DEF ServiceTypes, PlaceTypes, RecordTypes, SigwaitThreads, becomeDaemon, at
  <2>2. CASE ~becomeDaemon(l)
    <3>1. UNCHANGED sigwaiter
      BY <1>1, <2>2 DEF runEnds, report, initialize, openPid, writePid
    <3>2. service[l] \notin {"waiting", "gone"} /\ service'[l] \notin {"none", "gone"}
      BY <1>1, <2>2 DEF ServiceTypes, PlaceTypes, runEnds, report, initialize, openPid, writePid, at
    <3> QED
      BY <1>1, <3>1, <3>2 DEF ServiceTypes, PlaceTypes
  <2> QED
    BY <2>1, <2>2
<1>4. SignalInv(l)'
  BY <1>1, <1>3 DEF LaunchInv, SignalInv
<1>5. RequestInv(l)'
  BY <1>1, <1>3 DEF LaunchInv, RequestInv, waiting, owing, handling, ended
<1>6. ShellInv(l)' /\ PipeInv(l)'
  <2>1. CASE becomeDaemon(l)
    <3>1. /\ service[l] \in {"child", "grandchild"} /\ service'[l] \in {"grandchild", "failed", "run"}
          /\ UNCHANGED <<pipe, ran>>
      BY <1>1, <2>1 DEF ServiceTypes, PlaceTypes, becomeDaemon, at, ghostVars
    <3> QED
      BY <1>1, <3>1 DEF LaunchInv, ShellInv, PipeInv, isDaemon
  <2>2. CASE runEnds(l)
    <3>1. /\ service[l] = "run" /\ UNCHANGED pipe
          /\ \/ shell[l] # "foreground" /\ service'[l] = "report" /\ l \in ran'
             \/ shell[l] # "foreground" /\ service'[l] = "failed" /\ ran' = ran
             \/ shell[l] = "foreground" /\ service'[l] \in {"waitForShutdown", "~Service"}
      BY <1>1, <2>2 DEF ServiceTypes, PlaceTypes, runEnds, at
    <3>2. PipeInv(l)'
      BY <1>1, <3>1 DEF LaunchInv, ShellInv, PipeInv, isDaemon
    <3>3. ShellInv(l)'
      BY <1>1, <3>1 DEF LaunchInv, ShellInv, isDaemon
    <3> QED
      BY <3>2, <3>3
  <2>3. CASE report(l)
    <3>1. /\ UNCHANGED ran
          /\ \/ service[l] = "report" /\ service'[l] = "initialize" /\ pipe'[l] = [bytes |-> <<0>>, writable |-> FALSE]
             \/ service[l] = "failed" /\ service'[l] = "~Service" /\ pipe'[l] = [bytes |-> <<1>>, writable |-> FALSE]
      BY <1>1, <2>3 DEF ServiceTypes, PlaceTypes, RecordTypes, report, reportByte, at, ghostVars
    <3>2. shell[l] # "foreground"
      BY <1>1, <3>1 DEF LaunchInv, ShellInv
    <3>3. ShellInv(l)'
      BY <1>1, <3>1, <3>2 DEF LaunchInv, ShellInv, isDaemon
    <3>4. <<0>> # <<>> /\ <<1>> # <<>> /\ <<0>> # <<1>>
      OBVIOUS
    <3>5. PipeInv(l)'
      BY <1>1, <3>1, <3>4 DEF LaunchInv, PipeInv, isDaemon
    <3> QED
      BY <3>3, <3>5
  <2>4. CASE initialize(l) \/ openPid(l) \/ writePid(l)
    <3>1. /\ service[l] \in {"initialize", "open pid", "write pid"} /\ UNCHANGED <<pipe, ran>>
          /\ service'[l] \in {"open pid", "~Service", "write pid", "waitForShutdown"}
      BY <1>1, <2>4 DEF ServiceTypes, PlaceTypes, initialize, openPid, writePid, at, ghostVars
    <3> QED
      BY <1>1, <3>1 DEF LaunchInv, ShellInv, PipeInv, isDaemon
  <2> QED
    BY <2>1, <2>2, <2>3, <2>4
<1> QED
  BY <1>2, <1>4, <1>5, <1>6, StepOfOne DEF LaunchInv

\* The main thread of a service, from waitForShutdown() on.
LEMMA ServiceEnds ==
  ASSUME ServiceInv, NEW l \in Launches,
         startWaiting(l) \/ stopWaiting(l) \/ destroy(l) \/ deleteService(l) \/ endService(l)
  PROVE  \A k \in Launches : LaunchInv(k)'
<1>1. ServiceTypes /\ LaunchInv(l) /\ UNCHANGED <<command, pipe, ran, died, wanted>>
  BY DEF startWaiting, stopWaiting, destroy, deleteService, endService, ghostVars, ServiceInv
<1>2. CASE endService(l)
  <2>1. /\ exists(l) /\ forgets(l) /\ service[l] = "join"
        /\ \A j \in Launches \ {l} : shell'[j] = shell[j]
        /\ \/ shell'[l] = shell[l]
           \/ shell[l] = "foreground" /\ shell'[l] \in {"success", "failure"}
    <3>1. flags[l].status \in {"success", "failure"}
      BY <1>1 DEF ServiceTypes, RecordTypes, Flags
    <3> QED
      BY <1>1, <1>2, <3>1 DEF endService, exits, exists, ServiceTypes, PlaceTypes
  <2>2. /\ ShellInv(l)' /\ SignalInv(l)' /\ RequestInv(l)' /\ service'[l] = "gone"
        /\ \A j \in Launches \ {l} : /\ service'[j] = service[j] /\ flags'[j] = flags[j]
                                     /\ pending'[j] = pending[j] /\ sigwaiter'[j] = sigwaiter[j]
    BY <1>1, <2>1, ForgetsKeeps
  <2>3. PipeInv(l)'
    <3>1. isDaemon(l)' => isDaemon(l) /\ shell'[l] = shell[l]
      BY <1>1, <2>1 DEF isDaemon, LaunchInv, ShellInv
    <3> QED
      BY <1>1, <2>1, <2>2, <3>1 DEF LaunchInv, PipeInv
  <2>4. OthersSame(l)
    BY <1>1, <2>1, <2>2 DEF OthersSame, Same
  <2> QED
    BY <2>2, <2>3, <2>4, StepOfOne DEF LaunchInv
<1>3. CASE ~endService(l)
  <2>1. /\ OthersSame(l) /\ UNCHANGED <<shell, sigwaiter, pending>>
        /\ service[l] \in {"waitForShutdown", "waiting", "destroy", "~Service"}
        /\ service'[l] \in {"waiting", "destroy", "~Service", "join"}
    BY <1>1, <1>3 DEF ServiceTypes, PlaceTypes, RecordTypes, OthersSame, Same, startWaiting, stopWaiting, destroy,
         deleteService, at, ghostVars
  <2>2. /\ flags'[l].destroyed = flags[l].destroyed
        /\ \/ service'[l] = "waiting" /\ service[l] = "waitForShutdown"
           \/ service[l] = "waiting" /\ flags[l].destroyed /\ ~flags'[l].callback
           \/ service[l] \in {"destroy", "~Service"} /\ flags'[l].callback = flags[l].callback
    BY <1>1, <1>3 DEF ServiceTypes, PlaceTypes, RecordTypes, Flags, startWaiting, stopWaiting, isOver, destroy,
         deleteService, at, ghostVars
  <2>3. ShellInv(l)' /\ PipeInv(l)'
    BY <1>1, <2>1 DEF LaunchInv, ShellInv, PipeInv, isDaemon
  <2>4. SignalInv(l)'
    BY <1>1, <2>1, <2>2 DEF LaunchInv, SignalInv
  <2>5. RequestInv(l)'
    BY <1>1, <2>1, <2>2, RequestSame DEF LaunchInv
  <2> QED
    BY <2>1, <2>3, <2>4, <2>5, StepOfOne DEF LaunchInv
<1> QED
  BY <1>2, <1>3

LEMMA InterruptSteps ==
  /\ \A s : firstStep(s) = "interruptCallback" /\ stepAfter(s, "shutdown") = "sigwait"
  /\ stepAfter("SIGINT", "interruptCallback") = "shutdown"
  /\ stepAfter("SIGHUP", "interruptCallback") = "sigwait"
BY DEF firstStep, stepAfter, interruptSteps

\* The signal thread.
LEMMA SignalThread ==
  ASSUME ServiceInv, NEW l \in Launches, sigwaitThread(l)
  PROVE  \A k \in Launches : LaunchInv(k)'
<1>1. ServiceTypes /\ LaunchInv(l) /\ UNCHANGED <<shell, command, ran, wanted>>
  BY DEF sigwaitThread, sigwaitReturns, getCallback, callback, interruptCallback, callbackReturns,
     shutdown, cancelled, mainElsewhere,
     ServiceInv
<1>2. /\ waiting(l) \in Nat /\ handling(l) \in Nat /\ ended(l) \in Nat /\ wanted[l] \in Nat
      /\ sigwaiter[l].pc # "none"
  BY <1>1 DEF waiting, owing, handling, ended, ServiceTypes, PlaceTypes, sigwaitThread, sigwaitReturns, getCallback,
     callback, interruptCallback, callbackReturns, shutdown, cancelled
<1>3. service[l] # "none"
  BY <1>1, <1>2 DEF LaunchInv, SignalInv
<1>4. ASSUME OthersSame(l), UNCHANGED <<service, pipe, died>>, SignalInv(l)', RequestInv(l)'
      PROVE  \A k \in Launches : LaunchInv(k)'
  <2>1. ShellInv(l)' /\ PipeInv(l)'
    BY <1>1, <1>4 DEF LaunchInv, ShellInv, PipeInv, isDaemon
  <2> QED
    BY <1>4, <2>1, StepOfOne DEF LaunchInv
<1>5. CASE sigwaitReturns(l)
  <2>1. OthersSame(l) /\ UNCHANGED <<service, pipe, died, flags>> /\ sigwaiter'[l].pc = "getCallback"
    BY <1>1, <1>5 DEF sigwaitReturns, mainElsewhere, OthersSame, Same, ServiceTypes, PlaceTypes, RecordTypes
  <2>2. /\ sigwaiter[l].pc = "sigwait"
        /\ \E s \in {"SIGINT", "SIGHUP"} : s \in pending[l] /\ pending'[l] = pending[l] \ {s}
    BY <1>1, <1>5 DEF sigwaitReturns, ServiceTypes, PlaceTypes, Signals
  <2>3. waiting(l)' = waiting(l) - 1
    BY <2>2 DEF waiting, owing
  <2>4. SignalInv(l)'
    BY <1>1, <1>3, <2>1, <2>2 DEF LaunchInv, SignalInv
  <2>5. handling(l) = 0 /\ handling(l)' = 1 /\ ended(l)' = ended(l)
    BY <2>1, <2>2 DEF handling, ended
  <2>6. RequestInv(l)'
    BY <1>1, <1>2, <2>1, <2>2, <2>3, <2>5 DEF LaunchInv, RequestInv
  <2> QED
    BY <1>4, <2>1, <2>4, <2>6
<1>6. CASE getCallback(l) \/ cancelled(l) \/ (callback(l) /\ flags[l].instance)
  <2>1. /\ OthersSame(l) /\ UNCHANGED <<service, pipe, died, flags, pending>>
        /\ \/ sigwaiter[l].pc = "getCallback" /\ flags[l].callback /\ sigwaiter'[l].pc = "callback"
           \/ sigwaiter[l].pc = "getCallback" /\ sigwaiter'[l].pc = "sigwait"
           \/ sigwaiter[l].pc = "sigwait" /\ sigwaiter'[l].pc = "ended"
           \/ sigwaiter[l].pc = "callback" /\ sigwaiter'[l].pc = "interruptCallback"
    BY <1>1, <1>6, InterruptSteps DEF getCallback, cancelled, callback, goesTo, mainElsewhere, OthersSame, Same,
         ServiceTypes, PlaceTypes, RecordTypes, SigwaitThreads
  <2>2. SignalInv(l)'
    BY <1>1, <1>3, <2>1 DEF LaunchInv, SignalInv
  <2>3. waiting(l)' = waiting(l) /\ ended(l)' = ended(l) /\ handling(l)' <= handling(l) /\ handling(l)' \in Nat
    BY <2>1 DEF waiting, owing, ended, handling
  <2>4. RequestInv(l)'
    BY <1>1, <1>2, <2>1, <2>3 DEF LaunchInv, RequestInv
  <2> QED
    BY <1>4, <2>1, <2>2, <2>4
<1>7. CASE callback(l) /\ ~flags[l].instance
  <2>1. exists(l) /\ dies(l)
    BY <1>1, <1>3, <1>7 DEF callback, exists, LaunchInv, SignalInv
  <2>2. /\ LaunchInv(l)'
        /\ \A j \in Launches \ {l} :
             /\ service'[j] = service[j] /\ flags'[j] = flags[j]
             /\ pending'[j] = pending[j] /\ sigwaiter'[j] = sigwaiter[j]
             /\ pipe'[j] = pipe[j] /\ (j \in died' <=> j \in died)
    BY <1>1, <2>1, DiesKeeps
  <2>3. OthersSame(l)
    BY <1>1, <2>2 DEF OthersSame, Same
  <2> QED
    BY <2>2, <2>3, StepOfOne
<1>8. CASE interruptCallback(l) \/ callbackReturns(l) \/ shutdown(l)
  <2>1. /\ OthersSame(l) /\ UNCHANGED <<service, pipe, died, pending>>
        /\ flags'[l].callback = flags[l].callback
        /\ \/ /\ sigwaiter[l].pc = "interruptCallback" /\ sigwaiter'[l].pc \in {"returning", "shutdown"}
           \/ /\ sigwaiter[l].pc = "interruptCallback" /\ sigwaiter'[l].pc = "sigwait"
              /\ flags'[l].destroyed = flags[l].destroyed
           \/ /\ sigwaiter[l].pc = "returning" /\ sigwaiter'[l].pc \in {"shutdown", "sigwait"}
           \/ /\ sigwaiter[l].pc = "shutdown" /\ sigwaiter'[l].pc = "sigwait"
    BY <1>1, <1>8, InterruptSteps DEF interruptCallback, callbackReturns, shutdown, goesTo, mainElsewhere, OthersSame,
         Same, ServiceTypes, PlaceTypes, RecordTypes, SigwaitThreads, Flags, Signals
  <2>2. SignalInv(l)'
    BY <1>1, <1>3, <2>1 DEF LaunchInv, SignalInv
  <2>3. waiting(l)' = waiting(l)
    BY <2>1 DEF waiting, owing
  <2>4. RequestInv(l)'
    BY <1>1, <1>2, <2>1, <2>3 DEF LaunchInv, RequestInv, handling, ended
  <2> QED
    BY <1>4, <2>1, <2>2, <2>4
<1> QED
  BY <1>5, <1>6, <1>7, <1>8 DEF sigwaitThread

\* What happens to a service from outside.
LEMMA FromOutside ==
  ASSUME ServiceInv, NEW l \in Launches, (\E s \in Signals : sendSignal(l, s)) \/ stop(l) \/ crash(l)
  PROVE  \A k \in Launches : LaunchInv(k)'
<1>1. ServiceTypes /\ LaunchInv(l)
  BY DEF ServiceInv
<1>2. ASSUME NEW s \in Signals, sendSignal(l, s) PROVE \A k \in Launches : LaunchInv(k)'
  <2>1. gets(l, s) /\ UNCHANGED <<shell, command, service, flags, sigwaiter, pipe, ran, died>>
    BY <1>2 DEF sendSignal
  <2>2. LaunchInv(l)' /\ \A j \in Launches \ {l} : pending'[j] = pending[j] /\ wanted'[j] = wanted[j]
    BY <2>1, GetsKeeps
  <2>3. OthersSame(l)
    BY <2>1, <2>2 DEF OthersSame, Same
  <2> QED
    BY <2>2, <2>3, StepOfOne
<1>3. CASE stop(l)
  <2>1. /\ UNCHANGED <<shell, command, service, sigwaiter, pending, pipe, ran, died>>
        /\ wanted'[l] = wanted[l] + 1 /\ wanted[l] \in Nat
        /\ \A j \in Launches \ {l} : wanted'[j] = wanted[j] /\ flags'[j] = flags[j]
    BY <1>1, <1>3 DEF stop, ServiceTypes, PlaceTypes, RecordTypes
  <2>2. flags'[l].destroyed /\ flags'[l].callback = flags[l].callback
    BY <1>1, <1>3 DEF stop, ServiceTypes, RecordTypes, Flags
  <2>3. ShellInv(l)' /\ PipeInv(l)' /\ SignalInv(l)'
    BY <1>1, <2>1, <2>2 DEF LaunchInv, ShellInv, PipeInv, SignalInv, isDaemon
  <2>4. waiting(l)' = waiting(l) /\ handling(l)' = handling(l) /\ waiting(l) \in Nat /\ handling(l) \in Nat
    BY <2>1 DEF waiting, owing, handling
  <2>5. RequestInv(l)'
    BY <1>1, <2>1, <2>4 DEF LaunchInv, RequestInv, ended
  <2>6. OthersSame(l)
    BY <2>1 DEF OthersSame, Same
  <2> QED
    BY <2>3, <2>5, <2>6, StepOfOne DEF LaunchInv
<1>4. CASE crash(l)
  <2>1. /\ exists(l) /\ dies(l) /\ UNCHANGED <<command, ran, wanted>>
        /\ \A j \in Launches \ {l} : shell'[j] = shell[j]
        /\ \/ shell'[l] = shell[l]
           \/ shell[l] = "foreground" /\ shell'[l] \in {"success", "failure"}
    BY <1>1, <1>4 DEF crash, exits, ServiceTypes, PlaceTypes
  <2>2. /\ LaunchInv(l)'
        /\ \A j \in Launches \ {l} :
             /\ service'[j] = service[j] /\ flags'[j] = flags[j]
             /\ pending'[j] = pending[j] /\ sigwaiter'[j] = sigwaiter[j]
             /\ pipe'[j] = pipe[j] /\ (j \in died' <=> j \in died)
    BY <2>1, DiesKeeps
  <2>3. OthersSame(l)
    BY <2>1, <2>2 DEF OthersSame, Same
  <2> QED
    BY <2>2, <2>3, StepOfOne
<1> QED
  BY <1>2, <1>3, <1>4

\* Steps that start no daemon, and let none say that it has written its pid.
LEMMA SoleKept ==
  ASSUME SoleInv, UNCHANGED <<pidFile, detached, disturbed>>,
         \A k \in Launches : active(k)' => active(k) /\ (service'[k] \in {"waitForShutdown", "waiting"}
                                                           => service[k] \in {"waitForShutdown", "waiting"})
  PROVE  SoleInv'
BY DEF SoleInv

LEMMA SoleShell ==
  ASSUME ServiceInv, NEW l \in Launches, (\E args \in CommandLines : callMain(l, args)) \/ shellStep(l)
  PROVE  SoleInv'
<1>1. SoleInv /\ ServiceTypes /\ LaunchInv(l)
  BY DEF ServiceInv
<1>2. CASE \/ \E args \in CommandLines : callMain(l, args)
           \/ mainElse(l) \/ readPipe(l)
  <2>1. /\ UNCHANGED <<service, pidFile, detached, disturbed>>
        /\ \A k \in Launches \ {l} : shell'[k] = shell[k]
        /\ shell[l] \in {"off", "main", "reading"} /\ shell'[l] # "fork"
    BY <1>1, <1>2 DEF callMain, mainElse, readPipe, told, exits, ghostVars, ServiceTypes, PlaceTypes, Commands
  <2>2. active(l)' => active(l)
    BY <2>1 DEF active, exists
  <2> QED
    BY <1>1, <2>1, <2>2, SoleKept DEF active, exists
<1>3. CASE mainStop(l)
  BY <1>3 DEF mainStop, SoleInv
<1>4. CASE mainForeground(l) \/ forkChild(l)
  <2>1. /\ UNCHANGED <<pidFile, detached, disturbed>>
        /\ \A k \in Launches \ {l} : shell'[k] = shell[k] /\ service'[k] = service[k]
        /\ \/ shell'[l] = "foreground"
           \/ shell[l] = "fork" /\ service'[l] = "child"
           \/ shell[l] = "fork" /\ service'[l] = service[l]
    BY <1>1, <1>4 DEF mainForeground, forkChild, at, exits, ghostVars, ServiceTypes, PlaceTypes
  <2>2. active(l)' => active(l) /\ (service'[l] \in {"waitForShutdown", "waiting"}
                                      => service[l] \in {"waitForShutdown", "waiting"})
    BY <1>1, <2>1 DEF active, exists
  <2>3. \A k \in Launches \ {l} : active(k)' <=> active(k)
    BY <2>1 DEF active, exists
  <2> QED
    BY <1>1, <2>1, <2>2, <2>3, SoleKept
<1>5. CASE checkPid(l)
  <2> SUFFICES ASSUME ~disturbed' PROVE SoleInv'
    BY DEF SoleInv
  <2>1. /\ UNCHANGED <<service, pidFile, detached>> /\ shell[l] = "runDaemon"
        /\ \A k \in Launches \ {l} : shell'[k] = shell[k]
        /\ shell'[l] = IF running THEN "failure" ELSE "fork"
        /\ ~disturbed /\ (running \/ \A k \in Launches \ {l} : ~unregistered(k))
    BY <1>1, <1>5 DEF checkPid, exits, ServiceTypes, PlaceTypes
  <2>2. service[l] = "none"
    BY <1>1, <2>1 DEF LaunchInv, ShellInv
  <2>3. \A k \in Launches \ {l} : active(k)' <=> active(k)
    BY <2>1 DEF active, exists
  <2>4. CASE running
    <3>1. ~active(l)'
      BY <2>1, <2>2, <2>4 DEF active, exists
    <3> QED
      BY <1>1, <2>1, <2>3, <3>1 DEF SoleInv
  <2>5. CASE ~running
    <3>1. ASSUME NEW k \in Launches \ {l}, active(k) PROVE FALSE
      <4>1. shell[k] # "foreground" /\ exists(k) /\ service[k] = "waiting"
        BY <2>1, <2>5, <3>1 DEF active, unregistered
      <4>2. pidFile = k
        BY <1>1, <2>1, <3>1, <4>1 DEF SoleInv
      <4> QED
        BY <2>5, <4>1, <4>2 DEF running
    <3> QED
      BY <1>1, <2>1, <2>2, <2>3, <3>1 DEF SoleInv
  <2> QED
    BY <2>4, <2>5
<1>6. CASE mainKill(l)
  <2>1. /\ UNCHANGED <<pidFile, detached, disturbed>>
        /\ shell[l] = "kill" /\ shell'[l] = "success" /\ \A k \in Launches \ {l} : shell'[k] = shell[k]
        /\ \A k \in Launches : service'[k] = service[k] \/ service'[k] = "gone"
    BY <1>1, <1>6 DEF mainKill, exits, dies, forgets, at, ServiceTypes, PlaceTypes
  <2>2. service[l] = "none"
    BY <1>1, <2>1 DEF LaunchInv, ShellInv
  <2> QED
    BY <1>1, <2>1, <2>2, SoleKept DEF active, exists
<1> QED
  BY <1>2, <1>3, <1>4, <1>5, <1>6 DEF shellStep

LEMMA SoleService ==
  ASSUME ServiceInv, NEW l \in Launches,
         mainThread(l) \/ sigwaitThread(l) \/ (\E s \in Signals : sendSignal(l, s)) \/ stop(l) \/ crash(l)
  PROVE  SoleInv'
<1>1. SoleInv /\ ServiceTypes /\ LaunchInv(l)
  BY DEF ServiceInv
<1>2. CASE openPid(l) \/ writePid(l)
  <2> SUFFICES ASSUME ~disturbed' PROVE SoleInv'
    BY DEF SoleInv
  <2>1. /\ UNCHANGED <<shell, detached>> /\ ~disturbed
        /\ service[l] \in {"open pid", "write pid"}
        /\ \A k \in Launches \ {l} : service'[k] = service[k]
        /\ \/ service'[l] = "write pid"
           \/ service'[l] = "waitForShutdown" /\ (l \notin detached => pidFile' = l)
    <3>1. CASE openPid(l)
      <4>1. service[l] = "open pid" /\ UNCHANGED <<shell, detached>>
        BY <3>1 DEF openPid
      <4>2. (at(l, "write pid") /\ disturbed' = disturbed) \/ disturbed' = TRUE
        BY <3>1 DEF openPid
      <4>3. at(l, "write pid") /\ disturbed' = disturbed
        BY <4>2, Zenon
      <4>4. ~disturbed
        BY <4>3, Zenon
      <4> QED
        BY <1>1, <4>1, <4>3, <4>4 DEF at, ServiceTypes, PlaceTypes
    <3>2. CASE writePid(l)
      BY <1>1, <3>2 DEF writePid, at, ghostVars, ServiceTypes, PlaceTypes
    <3> QED
      BY <1>2, <3>1, <3>2
  <2>2. active(l)
    BY <1>1, <2>1 DEF active, exists, LaunchInv, ShellInv
  <2>3. \A k \in Launches \ {l} : ~active(k)
    BY <1>1, <2>1, <2>2 DEF SoleInv
  <2>4. \A k \in Launches \ {l} : ~active(k)'
    BY <2>1, <2>3 DEF active, exists
  <2> QED
    BY <1>1, <2>1, <2>4 DEF SoleInv
<1>3. CASE endService(l) \/ crash(l)
  <2>1. /\ UNCHANGED <<pidFile, detached, disturbed>> /\ service'[l] = "gone"
        /\ shell'[l] \in {shell[l], "success", "failure"}
        /\ \A k \in Launches \ {l} : shell'[k] = shell[k] /\ service'[k] = service[k]
    <3>1. flags[l].status \in {"success", "failure"}
      BY <1>1 DEF ServiceTypes, RecordTypes, Flags
    <3> QED
      BY <1>1, <1>3, <3>1 DEF endService, crash, dies, forgets, at, exits, ghostVars, ServiceTypes, PlaceTypes
  <2>2. active(l)' => active(l) /\ service'[l] = "gone"
    BY <2>1 DEF active, exists
  <2>3. \A k \in Launches \ {l} : active(k)' <=> active(k)
    BY <2>1 DEF active, exists
  <2> QED
    BY <1>1, <2>1, <2>2, <2>3, SoleKept
<1>4. CASE mainThread(l) /\ ~(openPid(l) \/ writePid(l) \/ endService(l))
  <2>1. /\ UNCHANGED <<shell, pidFile, detached, disturbed>>
        /\ \A k \in Launches \ {l} : service'[k] = service[k]
        /\ service[l] \notin {"none", "gone"}
        /\ \/ service'[l] \notin {"waitForShutdown", "waiting"}
           \/ shell[l] = "foreground"
           \/ service[l] \in {"waitForShutdown", "waiting"}
    BY <1>1, <1>4 DEF mainThread, becomeDaemon, runEnds, report, initialize, startWaiting, stopWaiting, destroy,
         deleteService, at, ghostVars, ServiceTypes, PlaceTypes
  <2>2. active(l)' => active(l) /\ (service'[l] \in {"waitForShutdown", "waiting"}
                                      => service[l] \in {"waitForShutdown", "waiting"})
    BY <2>1 DEF active, exists
  <2>3. \A k \in Launches \ {l} : active(k)' <=> active(k)
    BY <2>1 DEF active, exists
  <2> QED
    BY <1>1, <2>1, <2>2, <2>3, SoleKept
<1>5. CASE sigwaitThread(l) \/ (\E s \in Signals : sendSignal(l, s)) \/ stop(l)
  <2>1. /\ UNCHANGED <<shell, pidFile, detached, disturbed>>
        /\ \A k \in Launches : service'[k] = service[k] \/ service'[k] = "gone"
    BY <1>1, <1>5 DEF sigwaitThread, sigwaitReturns, getCallback, callback, interruptCallback, callbackReturns,
     shutdown, cancelled,
         mainElsewhere, dies, forgets, at, sendSignal, stop, ServiceTypes, PlaceTypes
  <2> QED
    BY <1>1, <2>1, SoleKept DEF active, exists
<1> QED
  BY <1>2, <1>3, <1>4, <1>5

LEMMA ServiceStep == ServiceInv /\ [ServiceNext]_serviceVars => ServiceInv'
<1> SUFFICES ASSUME ServiceInv, [ServiceNext]_serviceVars PROVE ServiceInv'
  OBVIOUS
<1>1. ServiceTypes
  BY DEF ServiceInv
<1>2. ASSUME NEW l \in Launches, (\E args \in CommandLines : callMain(l, args)) \/ shellStep(l)
      PROVE  ServiceInv'
  <2>1. \A k \in Launches : LaunchInv(k)'
    BY <1>2, ShellAlone, ShellForks, MainKill DEF shellStep
  <2> QED
    BY <1>1, <1>2, <2>1, ShellTypes, SoleShell DEF ServiceInv
<1>3. ASSUME NEW l \in Launches, mainThread(l) PROVE ServiceInv'
  <2>1. \A k \in Launches : LaunchInv(k)'
    BY <1>3, DaemonStarts, ServiceEnds DEF mainThread
  <2> QED
    BY <1>1, <1>3, <2>1, MainThreadTypes, SoleService DEF ServiceInv
<1>4. ASSUME NEW l \in Launches,
             sigwaitThread(l) \/ (\E s \in Signals : sendSignal(l, s)) \/ stop(l) \/ crash(l)
      PROVE  ServiceInv'
  <2>1. \A k \in Launches : LaunchInv(k)'
    BY <1>4, SignalThread, FromOutside
  <2> QED
    BY <1>1, <1>4, <2>1, SignalTypes, SoleService DEF ServiceInv
<1>5. CASE UNCHANGED serviceVars
  <2>1. UNCHANGED <<shell, command, service, flags, sigwaiter, pending, pipe, pidFile, target,
                    ran, died, wanted, detached, disturbed>>
    BY <1>5 DEF serviceVars, procVars, ghostVars
  <2>2. \A k \in Launches : LaunchInv(k)'
    BY <2>1, SameKeeps DEF ServiceInv, Same
  <2>3. SoleInv'
    BY <2>1 DEF ServiceInv, SoleInv, active, exists
  <2> QED
    BY <2>1, <2>2, <2>3 DEF ServiceInv, ServiceTypes, PlaceTypes, RecordTypes
<1> QED
  BY <1>2, <1>3, <1>4, <1>5 DEF ServiceNext

LEMMA InvServes == ServiceInv => ServiceSafe
<1> SUFFICES ASSUME ServiceInv PROVE TruthIsTold /\ OneDaemon /\ CallbackFindsService
  BY DEF ServiceSafe
<1>1. ServiceTypes /\ SoleInv /\ \A l \in Launches : LaunchInv(l)
  BY DEF ServiceInv
<1>2. TruthIsTold
  BY <1>1 DEF TruthIsTold, LaunchInv, PipeInv
<1>3. OneDaemon
  <2> SUFFICES ASSUME ~disturbed
               PROVE  Cardinality({l \in Launches : isDaemon(l) /\ service[l] \in {"waitForShutdown", "waiting"}}) <= 1
    BY DEF OneDaemon
  <2> DEFINE daemons == {l \in Launches : isDaemon(l) /\ service[l] \in {"waitForShutdown", "waiting"}}
  <2>1. \A l \in daemons : active(l)
    BY <1>1 DEF active, exists, isDaemon, LaunchInv, ShellInv
  <2>2. \A k, l \in daemons : k = l
    BY <1>1, <2>1 DEF SoleInv
  <2>3. daemons = {} \/ \E l \in daemons : daemons = {l}
    BY <2>2
  <2>4. Cardinality(daemons) \in {0, 1}
    <3> HIDE DEF daemons
    <3> QED
      BY <2>3, FS_EmptySet, FS_Singleton
  <2> QED
    BY <2>4
<1>4. CallbackFindsService
  <2> SUFFICES ASSUME NEW l \in Launches
               PROVE  /\ sigwaiter[l].pc \in {"callback", "interruptCallback"}
                           => wanted[l] > 1 \/ service[l] \notin {"~Service", "join"}
                      /\ sigwaiter[l].pc \in {"interruptCallback", "returning", "shutdown"} => service[l] # "gone"
    BY DEF CallbackFindsService
  <2>1. SignalInv(l) /\ RequestInv(l) /\ wanted[l] \in Nat
    BY <1>1 DEF LaunchInv, ServiceTypes, PlaceTypes
  <2>2. waiting(l) \in Nat
    BY DEF waiting, owing
  <2>3. sigwaiter[l].pc \in {"callback", "interruptCallback"} /\ flags[l].destroyed => wanted[l] > 1
    BY <2>1, <2>2 DEF RequestInv, handling, ended
  <2> QED
    BY <2>1, <2>3 DEF SignalInv
<1> QED
  BY <1>2, <1>3, <1>4

-----------------------------------------------------------------------------

\* For any number of launches, signals and stop commands: the shell says what became of
\* the daemon, one daemon serves a pid file as long as nothing was disturbed, and the
\* signal thread finds a service that was asked once to end still whole (Service.cpp,
\* CtrlCHandler.cpp).
THEOREM ServiceIsSafe == Spec => []ServiceSafe
<1>1. Init => ServiceInv
  BY ServiceStarts DEF Init
<1>2. ServiceInv /\ [Next]_vars => ServiceInv'
  BY ServiceStep DEF Next, only, vars
<1> QED
  BY <1>1, <1>2, InvServes, PTL DEF Spec

-----------------------------------------------------------------------------
(* Profiler *)

LEMMA LeastNumber ==
  ASSUME NEW S \in SUBSET Nat, S # {}
  PROVE  \E m \in S : \A n \in S : m <= n
<1>1. PICK m \in S : \A n \in S : <<n, m>> \notin OpToRel(<, Nat)
  <2>1. IsWellFoundedOn(OpToRel(<, Nat), Nat) /\ S \subseteq Nat
    BY NatLessThanWellFounded
  <2> QED
    BY <2>1, WFMin
<1>2. \A n \in S : ~(n < m)
  BY <1>1 DEF OpToRel
<1> QED
  BY <1>2

LEMMA AllReached ==
  ASSUME NEW n \in Nat, NEW A, 0 \in A, \A k \in 1..n : k - 1 \in A => k \in A
  PROVE  n \in A
<1> DEFINE T == {k \in 0..n : k \notin A}
<1>1. SUFFICES ASSUME T # {} PROVE FALSE
  OBVIOUS
<1>2. PICK x \in T : \A y \in T : x <= y
  <2>1. T \in SUBSET Nat
    OBVIOUS
  <2> HIDE DEF T
  <2> QED
    BY <1>1, <2>1, LeastNumber
<1>3. x \in Nat /\ x # 0 /\ x \notin A /\ x \in 0..n
  OBVIOUS
<1>4. x - 1 \in Nat /\ ~(x <= x - 1) /\ x \in 1..n /\ x - 1 \in 0..n
  BY <1>3
<1>5. x - 1 \notin T
  BY <1>2, <1>4
<1> QED
  BY <1>3, <1>4, <1>5

\* A value that is worked on in n rounds.
IsWorked(f, n, base, G) == f = [k \in 0..n |-> IF k = 0 THEN base ELSE G[<<k, f[k - 1]>>]]

LEMMA WorkedExists ==
  ASSUME NEW n \in Nat, NEW S, NEW base \in S, NEW G \in [(1..n) \X S -> S]
  PROVE  \E f \in [0..n -> S] : IsWorked(f, n, base, G)
<1> DEFINE A == {k \in Nat : \E f \in [0..k -> S] : IsWorked(f, k, base, G)}
<1>1. 0 \in A
  <2> DEFINE f == [k \in 0..0 |-> base]
  <2>1. f \in [0..0 -> S] /\ f = [k \in 0..0 |-> IF k = 0 THEN base ELSE G[<<k, f[k - 1]>>]]
    OBVIOUS
  <2> QED
    BY <2>1 DEF IsWorked
<1>2. ASSUME NEW k \in 1..n, k - 1 \in A PROVE k \in A
  <2>1. PICK f \in [0..k - 1 -> S] : IsWorked(f, k - 1, base, G)
    BY <1>2
  <2> DEFINE g == [j \in 0..k |-> IF j = k THEN G[<<k, f[k - 1]>>] ELSE f[j]]
  <2>2. f[k - 1] \in S /\ G[<<k, f[k - 1]>>] \in S
    OBVIOUS
  <2>3. g \in [0..k -> S]
    BY <2>2
  <2>4. ASSUME NEW j \in 0..k PROVE g[j] = IF j = 0 THEN base ELSE G[<<j, g[j - 1]>>]
    <3>1. CASE j = k
      <4>1. j # 0 /\ j - 1 = k - 1 /\ g[j - 1] = f[k - 1] /\ g[j] = G[<<k, f[k - 1]>>]
        BY <3>1
      <4> QED
        BY <3>1, <4>1
    <3>2. CASE j # k
      <4>1. j \in 0..k - 1 /\ g[j] = f[j]
        BY <3>2
      <4>2. f[j] = IF j = 0 THEN base ELSE G[<<j, f[j - 1]>>]
        BY <2>1, <4>1 DEF IsWorked
      <4>3. j # 0 => g[j - 1] = f[j - 1]
        BY <3>2, <4>1
      <4> QED
        BY <4>1, <4>2, <4>3
    <3> QED
      BY <3>1, <3>2
  <2>5. IsWorked(g, k, base, G)
    BY <2>4 DEF IsWorked
  <2> QED
    BY <2>3, <2>5
<1>3. n \in A
  <2> HIDE DEF A
  <2> QED
    BY <1>1, <1>2, AllReached
<1> QED
  BY <1>3

\* An entry of the tree, and what holds of every two of them.
ProfilerEntries == [parent : Nat, stime : Nat, etime : Nat]
Count == Len(entries)

\* The root is first, and of the entries below one all but the last are released.
TreeGrows ==
  /\ \A e \in 1..Count : entries[e].parent < e /\ (entries[e].parent = NoEntry <=> e = 1)
  /\ \A e, f \in 1..Count : e < f /\ entries[e].parent = entries[f].parent => isReleased(e)

\* Times go on, from an entry to those in it and from one of these to the next.
TimesNest ==
  /\ \A e \in 1..Count : entries[e].stime <= time /\ entries[e].etime <= time
  /\ \A e \in 1..Count : isReleased(e) => entries[e].stime <= entries[e].etime
  /\ \A e, s \in 1..Count : entries[s].parent = e =>
       /\ entries[e].stime <= entries[s].stime
       /\ isReleased(e) => isReleased(s) /\ entries[s].etime <= entries[e].etime
  /\ \A s, t \in 1..Count : s < t /\ entries[s].parent = entries[t].parent => entries[s].etime <= entries[t].stime

ProfilerInv ==
  /\ ProfilerTypeOK /\ entries \in Seq(ProfilerEntries)
  /\ TreeGrows /\ (sets = 0 /\ ~unruly => TimesNest)

LEMMA ProfilerHas ==
  ASSUME ProfilerInv
  PROVE  /\ Count \in Nat /\ Count <= MaxEntries /\ (entries = <<>> <=> Count = 0)
         /\ \A e \in 1..Count : /\ entries[e] \in ProfilerEntries /\ entries[e].parent \in Nat
                                /\ entries[e].stime \in 1..MaxTime /\ entries[e].etime \in 0..MaxTime
                                /\ entries[e].stime \in Nat /\ entries[e].etime \in Nat
         /\ time \in 1..MaxTime /\ time \in Nat /\ time > 0 /\ sets \in Nat /\ unruly \in BOOLEAN /\ MaxEntries \in Nat
<1>1. /\ Count \in Nat /\ (entries = <<>> <=> Count = 0) /\ entries \in Seq(ProfilerEntries)
      /\ \A e \in 1..Count : entries[e] \in ProfilerEntries
  BY DEF ProfilerInv, Count
<1>2. \A e \in 1..Count : entries[e].parent \in Nat /\ entries[e].stime \in Nat /\ entries[e].etime \in Nat
  BY <1>1 DEF ProfilerEntries
<1>3. /\ Count <= MaxEntries /\ time \in 1..MaxTime /\ sets \in 0..MaxSets /\ unruly \in BOOLEAN
      /\ \A e \in 1..Count : entries[e].stime \in 1..MaxTime /\ entries[e].etime \in 0..MaxTime
  BY DEF ProfilerInv, ProfilerTypeOK, Count
<1>4. time \in Nat /\ time > 0 /\ sets \in Nat /\ MaxEntries \in Nat
  BY <1>3, ProfilerAssumption
<1> QED
  BY <1>1, <1>2, <1>3, <1>4

\* The last of the entries below x.
LEMMA LastBelow ==
  ASSUME ProfilerInv, NEW x \in 1..Count, subEntries(x) # {}
  PROVE  Max(subEntries(x)) \in subEntries(x) /\ \A s \in subEntries(x) : Max(subEntries(x)) >= s
<1> DEFINE S == subEntries(x)
           D == {Count - s : s \in S}
<1>1. S \subseteq 1..Count /\ Count \in Nat
  BY ProfilerHas DEF subEntries, Count
<1>2. D \in SUBSET Nat /\ D # {}
  BY <1>1
<1>3. PICK m \in D : \A n \in D : m <= n
  <2> HIDE DEF D
  <2> QED
    BY <1>2, LeastNumber
<1>4. PICK y \in S : m = Count - y
  BY <1>3
<1>5. \A s \in S : y >= s
  <2> SUFFICES ASSUME NEW s \in S PROVE y >= s
    OBVIOUS
  <2>1. Count - s \in D
    OBVIOUS
  <2>2. m <= Count - s
    BY <1>3, <2>1
  <2>3. s \in 1..Count /\ y \in 1..Count
    BY <1>1
  <2> QED
    BY <1>1, <1>4, <2>2, <2>3
<1> QED
  BY <1>4, <1>5 DEF Max

LEMMA NextUnderWay ==
  ASSUME ProfilerInv, NEW x \in 1..Count
  PROVE  \/ getUnreleasedEntry(x) = NoEntry /\ \A s \in subEntries(x) : isReleased(s)
         \/ /\ getUnreleasedEntry(x) \in 1..Count /\ getUnreleasedEntry(x) > x
            /\ ~isReleased(getUnreleasedEntry(x))
<1>1. CASE subEntries(x) = {}
  BY <1>1 DEF getUnreleasedEntry
<1>2. CASE subEntries(x) # {}
  <2> DEFINE m == Max(subEntries(x))
  <2>1. m \in subEntries(x) /\ \A s \in subEntries(x) : m >= s
    BY <1>2, LastBelow
  <2>2. m \in 1..Count /\ entries[m].parent = x /\ \A s \in subEntries(x) : s \in 1..Count /\ entries[s].parent = x
    BY <2>1 DEF subEntries, Count
  <2>3. m > x
    BY <2>2, ProfilerHas DEF ProfilerInv, TreeGrows
  <2>4. \A s \in subEntries(x) : s # m => isReleased(s)
    <3> SUFFICES ASSUME NEW s \in subEntries(x), s # m PROVE isReleased(s)
      OBVIOUS
    <3>1. s < m
      BY <2>1, <2>2, ProfilerHas
    <3> QED
      BY <2>2, <3>1 DEF ProfilerInv, TreeGrows
  <2>5. CASE isReleased(m)
    BY <1>2, <2>4, <2>5 DEF getUnreleasedEntry
  <2>6. CASE ~isReleased(m)
    BY <1>2, <2>2, <2>3, <2>6 DEF getUnreleasedEntry
  <2> QED
    BY <2>5, <2>6
<1> QED
  BY <1>1, <1>2

LEMMA CurrentIs ==
  ASSUME ProfilerInv, entries # <<>>
  PROVE  /\ getCurrentEntry \in 1..Count /\ (getCurrentEntry = 1 \/ ~isReleased(getCurrentEntry))
         /\ \A s \in subEntries(getCurrentEntry) : isReleased(s)
<1> DEFINE next(x) == IF x = NoEntry \/ getUnreleasedEntry(x) = NoEntry THEN x ELSE getUnreleasedEntry(x)
           G == [y \in (1..MaxEntries) \X (0..Count) |-> next(y[2])]
           chain == CHOOSE f : f = [n \in 0..MaxEntries |->
                      IF n = 0 THEN 1
                      ELSE IF f[n - 1] = NoEntry \/ getUnreleasedEntry(f[n - 1]) = NoEntry THEN f[n - 1]
                      ELSE getUnreleasedEntry(f[n - 1])]
<1>1. Count \in Nat /\ Count # 0 /\ 1 \in 1..Count /\ MaxEntries \in Nat /\ Count <= MaxEntries
  BY ProfilerHas
<1>2. \A x \in 0..Count : next(x) \in 0..Count
  <2> SUFFICES ASSUME NEW x \in 0..Count PROVE next(x) \in 0..Count
    OBVIOUS
  <2>1. CASE x = NoEntry
    BY <2>1
  <2>2. CASE x # NoEntry
    <3>1. x \in 1..Count
      BY <1>1, <2>2 DEF NoEntry
    <3> QED
      BY <3>1, NextUnderWay
  <2> QED
    BY <2>1, <2>2
<1> HIDE DEF next
<1>3. G \in [(1..MaxEntries) \X (0..Count) -> 0..Count]
  BY <1>2
<1>4. PICK f \in [0..MaxEntries -> 0..Count] : IsWorked(f, MaxEntries, 1, G)
  <2>1. 1 \in 0..Count
    BY <1>1
  <2> HIDE DEF G
  <2> QED
    BY <1>1, <1>3, <2>1, WorkedExists
<1>5. f = [n \in 0..MaxEntries |-> IF n = 0 THEN 1 ELSE next(f[n - 1])]
  <2>1. \A n \in 0..MaxEntries : n # 0 => G[<<n, f[n - 1]>>] = next(f[n - 1])
    <3> SUFFICES ASSUME NEW n \in 0..MaxEntries, n # 0 PROVE G[<<n, f[n - 1]>>] = next(f[n - 1])
      OBVIOUS
    <3>1. n \in 1..MaxEntries /\ f[n - 1] \in 0..Count
      BY <1>1
    <3> QED
      BY <3>1
  <2> HIDE DEF G
  <2> QED
    BY <1>4, <2>1 DEF IsWorked
<1>6. chain = [n \in 0..MaxEntries |-> IF n = 0 THEN 1 ELSE next(chain[n - 1])]
  BY <1>5 DEF next
<1>7. getCurrentEntry = chain[MaxEntries]
  BY DEF getCurrentEntry
<1> HIDE DEF chain, G
<1> DEFINE A == {n \in 0..MaxEntries :
                   /\ chain[n] \in 1..Count /\ (chain[n] = 1 \/ ~isReleased(chain[n]))
                   /\ (getUnreleasedEntry(chain[n]) = NoEntry \/ chain[n] > n)}
<1>8. 0 \in A
  <2>1. chain[0] = 1 /\ 0 \in 0..MaxEntries
    BY <1>1, <1>6
  <2> QED
    BY <1>1, <2>1
<1>9. ASSUME NEW n \in 1..MaxEntries, n - 1 \in A PROVE n \in A
  <2> DEFINE x == chain[n - 1]
  <2>1. x \in 1..Count /\ (x = 1 \/ ~isReleased(x)) /\ (getUnreleasedEntry(x) = NoEntry \/ x > n - 1)
    BY <1>9
  <2>2. n \in 0..MaxEntries /\ n # 0 /\ n \in Nat
    BY <1>1
  <2>3. chain[n] = next(x)
    BY <1>6, <2>2
  <2> HIDE DEF x
  <2>4. x # NoEntry /\ x \in Nat
    BY <2>1, <1>1 DEF NoEntry
  <2>5. CASE getUnreleasedEntry(x) = NoEntry
    BY <2>1, <2>2, <2>3, <2>5 DEF next
  <2>6. CASE getUnreleasedEntry(x) # NoEntry
    <3>1. chain[n] = getUnreleasedEntry(x)
      BY <2>3, <2>4, <2>6 DEF next
    <3>2. chain[n] \in 1..Count /\ chain[n] > x /\ ~isReleased(chain[n])
      BY <2>1, <2>6, <3>1, NextUnderWay
    <3>3. x > n - 1
      BY <2>1, <2>6
    <3>4. chain[n] > n
      BY <1>1, <2>2, <2>4, <3>2, <3>3
    <3> QED
      BY <2>2, <3>2, <3>4
  <2> QED
    BY <2>5, <2>6
<1>10. MaxEntries \in A
  <2> HIDE DEF A
  <2> QED
    BY <1>1, <1>8, <1>9, AllReached
<1>11. getUnreleasedEntry(chain[MaxEntries]) = NoEntry
  <2>1. chain[MaxEntries] \in 1..Count /\ (getUnreleasedEntry(chain[MaxEntries]) = NoEntry \/ chain[MaxEntries] > MaxEntries)
    BY <1>10
  <2> QED
    BY <1>1, <2>1
<1>12. \A s \in subEntries(chain[MaxEntries]) : isReleased(s)
  <2>1. chain[MaxEntries] \in 1..Count
    BY <1>10
  <2> QED
    BY <1>1, <1>11, <2>1, NextUnderWay DEF NoEntry
<1> QED
  BY <1>7, <1>10, <1>12

LEMMA ProfilerStarts == ProfilerInit => ProfilerInv
<1> SUFFICES ASSUME ProfilerInit PROVE ProfilerInv
  OBVIOUS
<1>1. entries = <<>> /\ time = 1 /\ sets = 0 /\ unruly = FALSE /\ Count = 0
  BY DEF ProfilerInit, Count
<1>2. TreeGrows /\ TimesNest
  BY <1>1 DEF TreeGrows, TimesNest
<1>3. ProfilerTypeOK
  <2>1. 0 <= MaxEntries /\ 1 \in 1..MaxTime /\ 0 \in 0..MaxSets
    BY ProfilerAssumption
  <2>2. Len(entries) = 0 /\ \A e \in 1..Len(entries) : FALSE
    BY <1>1
  <2> QED
    BY <1>1, <2>1, <2>2 DEF ProfilerTypeOK
<1> QED
  BY <1>1, <1>2, <1>3 DEF ProfilerInv

\* A tree is told by its entries one by one.
LEMMA StartKeeps == ProfilerInv /\ start => ProfilerInv'
<1> SUFFICES ASSUME ProfilerInv, start PROVE ProfilerInv'
  OBVIOUS
<1> DEFINE e == newEntry(NoEntry)
<1>1. /\ entries' = <<e>> /\ unruly' = FALSE /\ time' = time /\ sets' = sets
      /\ e = [parent |-> 0, stime |-> time, etime |-> 0]
  BY DEF start, newEntry, NoEntry
<1>2. e \in ProfilerEntries /\ time \in 1..MaxTime /\ time \in Nat
  BY <1>1, ProfilerHas DEF ProfilerEntries
<1> HIDE DEF e
<1>3. /\ entries' \in Seq(ProfilerEntries) /\ Count' = 1 /\ Len(entries') = 1
      /\ \A i \in 1..Count' : i = 1 /\ entries'[i] = [parent |-> 0, stime |-> time, etime |-> 0]
  BY <1>1, <1>2 DEF Count
<1>4. ProfilerTypeOK'
  <2>1. 1 <= MaxEntries /\ 0 \in 0..MaxTime
    BY ProfilerAssumption
  <2>2. \A i \in 1..Len(entries') : i = 1 /\ entries'[i].parent = 0 /\ entries'[i].stime = time /\ entries'[i].etime = 0
    BY <1>3
  <2>3. \A i \in 1..Len(entries') : entries'[i].parent \in 0..i - 1
    BY <2>2
  <2>4. time' \in 1..MaxTime /\ sets' \in 0..MaxSets /\ unruly' \in BOOLEAN
    BY <1>1 DEF ProfilerInv, ProfilerTypeOK
  <2> QED
    BY <1>2, <1>3, <2>1, <2>2, <2>3, <2>4 DEF ProfilerTypeOK
<1>5. TreeGrows' /\ TimesNest'
  BY <1>1, <1>2, <1>3 DEF TreeGrows, TimesNest, isReleased, NoEntry
<1> QED
  BY <1>3, <1>4, <1>5 DEF ProfilerInv

LEMMA ResetKeeps == ProfilerInv /\ reset => ProfilerInv'
<1> SUFFICES ASSUME ProfilerInv, reset PROVE ProfilerInv'
  OBVIOUS
<1>1. entries' = <<>> /\ unruly' = FALSE /\ time' = time /\ sets' = sets /\ Count' = 0
  BY DEF reset, Count
<1>2. ProfilerTypeOK'
  <2>1. 0 <= MaxEntries
    BY ProfilerAssumption
  <2>2. Len(entries') = 0 /\ \A e \in 1..Len(entries') : FALSE
    BY <1>1
  <2>3. time' \in 1..MaxTime /\ sets' \in 0..MaxSets /\ unruly' \in BOOLEAN
    BY <1>1 DEF ProfilerInv, ProfilerTypeOK
  <2> QED
    BY <2>1, <2>2, <2>3 DEF ProfilerTypeOK
<1>3. TreeGrows' /\ TimesNest'
  BY <1>1 DEF TreeGrows, TimesNest
<1> QED
  BY <1>1, <1>2, <1>3 DEF ProfilerInv

LEMMA BeginKeeps == ProfilerInv /\ begin => ProfilerInv'
<1> SUFFICES ASSUME ProfilerInv, begin PROVE ProfilerInv'
  OBVIOUS
<1> DEFINE c == getCurrentEntry
           n == Count + 1
           e == [parent |-> c, stime |-> time, etime |-> 0]
<1>1. /\ entries' = Append(entries, e) /\ unruly' = (unruly \/ rootEnded) /\ time' = time /\ sets' = sets
      /\ Count < MaxEntries /\ c # NoEntry
  BY DEF begin, newEntry, Count
<1>2. entries # <<>>
  BY <1>1 DEF getCurrentEntry
<1>3. /\ c \in 1..Count /\ (c = 1 \/ ~isReleased(c)) /\ \A s \in subEntries(c) : isReleased(s)
  BY <1>2, CurrentIs
<1>4. /\ Count \in Nat /\ n \in Nat /\ time \in 1..MaxTime /\ time \in Nat /\ n <= MaxEntries /\ c \in Nat /\ c < n
      /\ unruly \in BOOLEAN /\ sets \in Nat
  BY <1>1, <1>3, ProfilerHas
<1> HIDE DEF c
<1>5. e \in ProfilerEntries
  BY <1>4 DEF ProfilerEntries
<1>6. /\ entries' \in Seq(ProfilerEntries) /\ Count' = n /\ Len(entries') = n /\ entries'[n] = e
      /\ \A i \in 1..Count : entries'[i] = entries[i]
      /\ \A i \in 1..n : i \in 1..Count \/ i = n
  <2>1. entries \in Seq(ProfilerEntries)
    BY DEF ProfilerInv
  <2> HIDE DEF e
  <2> QED
    BY <1>1, <1>4, <1>5, <2>1, AppendProperties DEF Count
<1>7. entries'[n].parent = c /\ entries'[n].stime = time /\ entries'[n].etime = 0
  BY <1>6
<1> HIDE DEF e, n
<1>8. /\ n = Count + 1 /\ n \notin 1..Count
      /\ \A i \in 1..Count : i < n /\ i # n /\ i \in Nat /\ i \in 1..n /\ (isReleased(i)' <=> isReleased(i))
      /\ \A i \in 1..n : i = n => ~isReleased(i)'
  <2>1. n = Count + 1
    BY DEF n
  <2>2. n \notin 1..Count /\ \A i \in 1..Count : i < n /\ i # n /\ i \in Nat /\ i \in 1..n
    BY <1>4, <2>1
  <2>3. \A i \in 1..Count : isReleased(i)' <=> isReleased(i)
    BY <1>6 DEF isReleased
  <2>4. \A i \in 1..n : i = n => ~isReleased(i)'
    BY <1>7 DEF isReleased
  <2> QED
    BY <2>1, <2>2, <2>3, <2>4
<1>9. ProfilerTypeOK'
  <2>1. \A i \in 1..n : entries'[i].parent \in 0..i - 1 /\ entries'[i].stime \in 1..MaxTime /\ entries'[i].etime \in 0..MaxTime
    <3> SUFFICES ASSUME NEW i \in 1..n
                 PROVE  entries'[i].parent \in 0..i - 1 /\ entries'[i].stime \in 1..MaxTime /\ entries'[i].etime \in 0..MaxTime
      OBVIOUS
    <3>1. CASE i \in 1..Count
      BY <1>6, <3>1 DEF ProfilerInv, ProfilerTypeOK, Count
    <3>2. CASE i = n
      BY <1>3, <1>4, <1>7, <1>8, <3>2, ProfilerAssumption
    <3> QED
      BY <1>6, <3>1, <3>2
  <2>2. time' \in 1..MaxTime /\ sets' \in 0..MaxSets /\ unruly' \in BOOLEAN
    BY <1>1 DEF ProfilerInv, ProfilerTypeOK
  <2> QED
    BY <1>4, <1>6, <2>1, <2>2 DEF ProfilerTypeOK
<1>10. TreeGrows'
  <2>1. \A i \in 1..Count : entries[i].parent < i /\ (entries[i].parent = NoEntry <=> i = 1)
    BY DEF ProfilerInv, TreeGrows
  <2>2. \A i \in 1..n : entries'[i].parent < i /\ (entries'[i].parent = NoEntry <=> i = 1)
    <3> SUFFICES ASSUME NEW i \in 1..n PROVE entries'[i].parent < i /\ (entries'[i].parent = NoEntry <=> i = 1)
      OBVIOUS
    <3>1. CASE i \in 1..Count
      BY <1>6, <2>1, <3>1
    <3>2. CASE i = n
      <4>1. n # 1 /\ c # NoEntry
        BY <1>1, <1>3, <1>4, <1>8 DEF NoEntry
      <4> QED
        BY <1>4, <1>7, <3>2, <4>1
    <3> QED
      BY <1>6, <3>1, <3>2
  <2>3. ASSUME NEW i \in 1..n, NEW f \in 1..n, i < f, entries'[i].parent = entries'[f].parent PROVE isReleased(i)'
    <3>1. i \in 1..Count
      BY <1>4, <1>6, <1>8, <2>3
    <3>2. CASE f \in 1..Count
      BY <1>6, <1>8, <2>3, <3>1, <3>2 DEF ProfilerInv, TreeGrows
    <3>3. CASE f = n
      <4>1. entries[i].parent = c
        BY <1>6, <1>7, <2>3, <3>1, <3>3
      <4> QED
        BY <1>3, <1>8, <3>1, <4>1 DEF subEntries, Count
    <3> QED
      BY <1>6, <3>2, <3>3
  <2> QED
    BY <1>6, <2>2, <2>3 DEF TreeGrows
<1>11. ASSUME sets' = 0, ~unruly' PROVE TimesNest'
  <2>1. TimesNest /\ ~rootEnded
    BY <1>1, <1>4, <1>11 DEF ProfilerInv
  <2>2. ~isReleased(c)
    BY <1>2, <1>3, <2>1 DEF rootEnded
  <2>3. \A i \in 1..n : /\ entries'[i].stime <= time' /\ entries'[i].etime <= time'
                        /\ isReleased(i)' => entries'[i].stime <= entries'[i].etime
    <3> SUFFICES ASSUME NEW i \in 1..n
                 PROVE  /\ entries'[i].stime <= time' /\ entries'[i].etime <= time'
                        /\ isReleased(i)' => entries'[i].stime <= entries'[i].etime
      OBVIOUS
    <3>1. CASE i \in 1..Count
      <4>1. entries[i].stime <= time /\ entries[i].etime <= time /\ (isReleased(i) => entries[i].stime <= entries[i].etime)
        BY <2>1, <3>1 DEF TimesNest
      <4> QED
        BY <1>1, <1>6, <1>8, <3>1, <4>1
    <3>2. CASE i = n
      <4>1. ~isReleased(i)'
        BY <1>8, <3>2
      <4>2. entries'[i].stime = time /\ entries'[i].etime = 0 /\ time' = time
        BY <1>1, <1>7, <3>2
      <4> QED
        BY <1>4, <4>1, <4>2
    <3> QED
      BY <1>6, <3>1, <3>2
  <2>4. ASSUME NEW i \in 1..n, NEW s \in 1..n, entries'[s].parent = i
        PROVE  /\ entries'[i].stime <= entries'[s].stime
               /\ isReleased(i)' => isReleased(s)' /\ entries'[s].etime <= entries'[i].etime
    <3>1. i \in 1..Count
      <4>1. entries'[s].parent < s
        BY <1>6, <1>10 DEF TreeGrows
      <4> QED
        BY <1>4, <1>6, <1>8, <2>4, <4>1
    <3>2. CASE s \in 1..Count
      BY <1>6, <1>8, <2>1, <2>4, <3>1, <3>2 DEF TimesNest
    <3>3. CASE s = n
      <4>1. i = c /\ ~isReleased(i)'
        BY <1>7, <1>8, <2>2, <2>4, <3>1, <3>3
      <4>2. entries[i].stime <= time
        BY <2>1, <3>1 DEF TimesNest
      <4> QED
        BY <1>6, <1>7, <3>1, <3>3, <4>1, <4>2
    <3> QED
      BY <1>6, <3>2, <3>3
  <2>5. ASSUME NEW s \in 1..n, NEW t \in 1..n, s < t, entries'[s].parent = entries'[t].parent
        PROVE  entries'[s].etime <= entries'[t].stime
    <3>1. s \in 1..Count
      BY <1>4, <1>6, <1>8, <2>5
    <3>2. CASE t \in 1..Count
      BY <1>6, <2>1, <2>5, <3>1, <3>2 DEF TimesNest
    <3>3. CASE t = n
      BY <1>6, <1>7, <2>1, <3>1, <3>3 DEF TimesNest
    <3> QED
      BY <1>6, <3>2, <3>3
  <2> QED
    BY <1>6, <2>3, <2>4, <2>5 DEF TimesNest
<1> QED
  BY <1>6, <1>9, <1>10, <1>11 DEF ProfilerInv

LEMMA EndKeeps == ProfilerInv /\ endEntry => ProfilerInv'
<1> SUFFICES ASSUME ProfilerInv, endEntry PROVE ProfilerInv'
  OBVIOUS
<1> DEFINE c == getCurrentEntry
<1>1. /\ entries' = [entries EXCEPT ![c].etime = time] /\ unruly' = (unruly \/ rootEnded)
      /\ time' = time /\ sets' = sets /\ c # NoEntry
  BY DEF endEntry
<1>2. entries # <<>>
  BY <1>1 DEF getCurrentEntry
<1>3. /\ c \in 1..Count /\ (c = 1 \/ ~isReleased(c)) /\ \A s \in subEntries(c) : isReleased(s)
  BY <1>2, CurrentIs
<1>4. /\ Count \in Nat /\ time \in 1..MaxTime /\ time \in Nat /\ time > 0 /\ c \in Nat /\ unruly \in BOOLEAN /\ sets \in Nat
      /\ \A e \in 1..Count : /\ entries[e] \in ProfilerEntries /\ entries[e].parent \in Nat
                             /\ entries[e].stime \in Nat /\ entries[e].etime \in Nat
  BY <1>1, <1>3, ProfilerHas
<1> HIDE DEF c
<1>5. /\ entries' \in Seq(ProfilerEntries) /\ Count' = Count /\ Len(entries') = Count
      /\ \A i \in 1..Count : entries'[i].parent = entries[i].parent /\ entries'[i].stime = entries[i].stime
      /\ \A i \in 1..Count : entries'[i].etime = IF i = c THEN time ELSE entries[i].etime
  <2> DEFINE x == [entries[c] EXCEPT !.etime = time]
  <2>1. x \in ProfilerEntries /\ x.parent = entries[c].parent /\ x.stime = entries[c].stime /\ x.etime = time
    <3>1. entries[c] \in ProfilerEntries
      BY <1>3, <1>4
    <3> QED
      BY <1>4, <3>1 DEF ProfilerEntries
  <2>2. entries' = [entries EXCEPT ![c] = x]
    BY <1>1
  <2> HIDE DEF x
  <2>3. entries \in Seq(ProfilerEntries) /\ Count = Len(entries)
    BY DEF ProfilerInv, Count
  <2>4. /\ entries' \in Seq(ProfilerEntries) /\ Len(entries') = Len(entries)
        /\ \A i \in 1..Count : entries'[i] = IF i = c THEN x ELSE entries[i]
    BY <1>3, <2>1, <2>2, <2>3, ExceptSeq
  <2> QED
    BY <1>3, <2>1, <2>3, <2>4 DEF Count
<1>6. /\ \A i \in 1..Count : i = c => isReleased(i)'
      /\ \A i \in 1..Count : i # c => (isReleased(i)' <=> isReleased(i))
      /\ \A i \in 1..Count : isReleased(i) => isReleased(i)'
  <2>1. \A i \in 1..Count : i = c => isReleased(i)'
    BY <1>3, <1>4, <1>5 DEF isReleased
  <2>2. \A i \in 1..Count : i # c => (isReleased(i)' <=> isReleased(i))
    BY <1>5 DEF isReleased
  <2> QED
    BY <2>1, <2>2
<1>7. ProfilerTypeOK'
  <2>1. \A i \in 1..Count : entries[i].parent \in 0..i - 1 /\ entries[i].stime \in 1..MaxTime /\ entries[i].etime \in 0..MaxTime
    BY DEF ProfilerInv, ProfilerTypeOK, Count
  <2>2. \A i \in 1..Count : entries'[i].parent \in 0..i - 1 /\ entries'[i].stime \in 1..MaxTime /\ entries'[i].etime \in 0..MaxTime
    <3>1. time \in 0..MaxTime
      BY <1>4, ProfilerAssumption
    <3> QED
      BY <1>5, <2>1, <3>1
  <2>3. Count <= MaxEntries
    BY ProfilerHas
  <2>4. time' \in 1..MaxTime /\ sets' \in 0..MaxSets /\ unruly' \in BOOLEAN
    BY <1>1 DEF ProfilerInv, ProfilerTypeOK
  <2> QED
    BY <1>5, <2>2, <2>3, <2>4 DEF ProfilerTypeOK
<1>8. TreeGrows'
  BY <1>5, <1>6 DEF ProfilerInv, TreeGrows
<1>9. ASSUME sets' = 0, ~unruly' PROVE TimesNest'
  <2>1. TimesNest /\ ~rootEnded
    BY <1>1, <1>4, <1>9 DEF ProfilerInv
  <2>2. ~isReleased(c)
    BY <1>2, <1>3, <2>1 DEF rootEnded
  <2>3. \A i \in 1..Count : /\ entries'[i].stime <= time' /\ entries'[i].etime <= time'
                            /\ isReleased(i)' => entries'[i].stime <= entries'[i].etime
    <3> SUFFICES ASSUME NEW i \in 1..Count
                 PROVE  /\ entries'[i].stime <= time' /\ entries'[i].etime <= time'
                        /\ isReleased(i)' => entries'[i].stime <= entries'[i].etime
      OBVIOUS
    <3>1. entries[i].stime <= time /\ entries[i].etime <= time /\ (isReleased(i) => entries[i].stime <= entries[i].etime)
      BY <2>1 DEF TimesNest
    <3> QED
      BY <1>1, <1>4, <1>5, <1>6, <3>1
  <2>4. ASSUME NEW i \in 1..Count, NEW s \in 1..Count, entries'[s].parent = i
        PROVE  /\ entries'[i].stime <= entries'[s].stime
               /\ isReleased(i)' => isReleased(s)' /\ entries'[s].etime <= entries'[i].etime
    <3>1. /\ entries[s].parent = i /\ entries[i].stime <= entries[s].stime
          /\ isReleased(i) => isReleased(s) /\ entries[s].etime <= entries[i].etime
      BY <1>5, <2>1, <2>4 DEF TimesNest
    <3>2. CASE i = c
      <4>1. s \in subEntries(c) /\ s # c
        BY <3>1, <3>2 DEF subEntries, Count, ProfilerInv, TreeGrows
      <4>2. isReleased(s) /\ entries[s].etime <= time
        BY <1>3, <2>1, <4>1 DEF TimesNest
      <4> QED
        BY <1>5, <1>6, <3>1, <3>2, <4>1, <4>2
    <3>3. CASE i # c
      <4>1. isReleased(i) => s # c
        BY <2>2, <3>1
      <4> QED
        BY <1>5, <1>6, <3>1, <3>3, <4>1
    <3> QED
      BY <3>2, <3>3
  <2>5. ASSUME NEW s \in 1..Count, NEW t \in 1..Count, s < t, entries'[s].parent = entries'[t].parent
        PROVE  entries'[s].etime <= entries'[t].stime
    <3>1. entries[s].parent = entries[t].parent
      BY <1>5, <2>5
    <3>2. s # c
      BY <2>2, <2>5, <3>1 DEF ProfilerInv, TreeGrows
    <3>3. entries[s].etime <= entries[t].stime
      BY <2>1, <2>5, <3>1 DEF TimesNest
    <3> QED
      BY <1>5, <3>2, <3>3
  <2> QED
    BY <1>5, <2>3, <2>4, <2>5 DEF TimesNest
<1> QED
  BY <1>5, <1>7, <1>8, <1>9 DEF ProfilerInv

LEMMA ProfilerStep == ProfilerInv /\ [ProfilerNext]_profilerVars => ProfilerInv'
<1> SUFFICES ASSUME ProfilerInv, [ProfilerNext]_profilerVars PROVE ProfilerInv'
  OBVIOUS
<1>1. CASE UNCHANGED entries /\ UNCHANGED unruly /\ time' \in 1..MaxTime /\ sets' \in 0..MaxSets
           /\ (sets' # 0 \/ (sets' = sets /\ time' >= time))
  <2>1. ProfilerTypeOK' /\ TreeGrows' /\ entries' \in Seq(ProfilerEntries)
    BY <1>1 DEF ProfilerInv, ProfilerTypeOK, TreeGrows, Count, isReleased
  <2>2. ASSUME sets' = 0, ~unruly' PROVE TimesNest'
    <3>1. TimesNest /\ time' >= time /\ time' \in Nat /\ time \in Nat
      BY <1>1, <2>2, ProfilerHas, ProfilerAssumption DEF ProfilerInv
    <3>2. \A e \in 1..Count : /\ entries[e].stime \in Nat /\ entries[e].etime \in Nat
                              /\ entries[e].stime <= time /\ entries[e].etime <= time
      BY <3>1, ProfilerHas DEF TimesNest
    <3>3. \A e \in 1..Count : entries[e].stime <= time' /\ entries[e].etime <= time'
      BY <3>1, <3>2
    <3>4. Count' = Count /\ \A e \in 1..Count : entries'[e] = entries[e] /\ (isReleased(e)' <=> isReleased(e))
      BY <1>1 DEF Count, isReleased
    <3> QED
      BY <3>1, <3>3, <3>4 DEF TimesNest
  <2> QED
    BY <2>1, <2>2 DEF ProfilerInv
<1>2. CASE tickProfiler
  <2>1. time \in 1..MaxTime /\ time < MaxTime /\ time' = time + 1 /\ UNCHANGED <<entries, sets, unruly>> /\ sets \in 0..MaxSets
    BY <1>2 DEF tickProfiler, ProfilerInv, ProfilerTypeOK
  <2>2. time' \in 1..MaxTime /\ time' >= time
    BY <2>1, ProfilerAssumption
  <2> QED
    BY <1>1, <2>1, <2>2
<1>3. CASE setBack
  <2>1. /\ time \in 1..MaxTime /\ time > 1 /\ time' = time - 1 /\ UNCHANGED <<entries, unruly>>
        /\ sets \in 0..MaxSets /\ sets < MaxSets /\ sets' = sets + 1
    BY <1>3 DEF setBack, ProfilerInv, ProfilerTypeOK
  <2>2. time' \in 1..MaxTime /\ sets' \in 0..MaxSets /\ sets' # 0
    BY <2>1, ProfilerAssumption
  <2> QED
    BY <1>1, <2>1, <2>2
<1>4. CASE UNCHANGED profilerVars
  <2>1. UNCHANGED <<entries, time, sets, unruly>> /\ time \in 1..MaxTime /\ sets \in 0..MaxSets /\ time >= time
    BY <1>4, ProfilerHas DEF profilerVars, ProfilerInv, ProfilerTypeOK
  <2> QED
    BY <1>1, <2>1
<1> QED
  BY <1>2, <1>3, <1>4, StartKeeps, ResetKeeps, BeginKeeps, EndKeeps DEF ProfilerNext

\* The durations of what is below an entry follow one another within it.
LEMMA DurationsFit ==
  ASSUME ProfilerInv, TimesNest, NEW e \in 1..Count, isReleased(e)
  PROVE  subDurations(e) \in Int /\ subDurations(e) <= getDuration(e) /\ getDuration(e) \in Nat
<1> DEFINE step(s, x) == x + IF entries[s].parent = e THEN getDuration(s) ELSE 0
           G == [y \in (1..Count) \X Int |-> step(y[1], y[2])]
           total == CHOOSE f : f = [s \in 0..Count |-> IF s = 0 THEN 0 ELSE step(s, f[s - 1])]
<1>1. /\ Count \in Nat /\ e \in Nat
      /\ \A s \in 1..Count : entries[s].stime \in Nat /\ entries[s].etime \in Nat
  BY ProfilerHas
<1>2. \A s \in 1..Count : getDuration(s) \in Int
  BY <1>1 DEF getDuration
<1>3. G \in [(1..Count) \X Int -> Int]
  BY <1>2
<1>4. PICK f \in [0..Count -> Int] : IsWorked(f, Count, 0, G)
  <2>1. 0 \in Int
    OBVIOUS
  <2> HIDE DEF G
  <2> QED
    BY <1>1, <1>3, <2>1, WorkedExists
<1>5. f = [s \in 0..Count |-> IF s = 0 THEN 0 ELSE step(s, f[s - 1])]
  <2>1. \A s \in 0..Count : s # 0 => G[<<s, f[s - 1]>>] = step(s, f[s - 1])
    <3> SUFFICES ASSUME NEW s \in 0..Count, s # 0 PROVE G[<<s, f[s - 1]>>] = step(s, f[s - 1])
      OBVIOUS
    <3>1. s \in 1..Count /\ f[s - 1] \in Int
      BY <1>1
    <3> QED
      BY <3>1
  <2> HIDE DEF G
  <2> QED
    BY <1>4, <2>1 DEF IsWorked
<1>6. total = [s \in 0..Count |-> IF s = 0 THEN 0 ELSE step(s, total[s - 1])]
  <2> HIDE DEF step
  <2> QED
    BY <1>5
<1>7. subDurations(e) = total[Count]
  BY DEF subDurations, Count
<1> HIDE DEF total, G
\* An end that no entry below e up to the k-th is behind.
<1> DEFINE Ends(b, k) == b \in Nat /\ entries[e].stime <= b /\ \A s \in 1..k : entries[s].parent = e => entries[s].etime <= b
           A == {k \in 0..Count : total[k] \in Int /\ \A b \in Nat : Ends(b, k) => total[k] <= b - entries[e].stime}
<1>8. 0 \in A
  <2>1. total[0] = 0 /\ 0 \in 0..Count
    BY <1>1, <1>6
  <2> QED
    BY <1>1, <2>1
<1>9. ASSUME NEW k \in 1..Count, k - 1 \in A PROVE k \in A
  <2>1. total[k - 1] \in Int /\ \A b \in Nat : Ends(b, k - 1) => total[k - 1] <= b - entries[e].stime
    BY <1>9
  <2>2. k \in 0..Count /\ k # 0 /\ k \in Nat
    BY <1>1
  <2>3. total[k] = total[k - 1] + IF entries[k].parent = e THEN getDuration(k) ELSE 0
    BY <1>6, <2>2
  <2>4. CASE entries[k].parent # e
    <3>1. total[k] = total[k - 1]
      BY <2>1, <2>3, <2>4
    <3>2. \A b \in Nat : Ends(b, k) => Ends(b, k - 1)
      BY <2>2
    <3> HIDE DEF Ends
    <3> QED
      BY <2>1, <2>2, <3>1, <3>2
  <2>5. CASE entries[k].parent = e
    <3>1. /\ isReleased(k) /\ entries[k].stime <= entries[k].etime /\ entries[e].stime <= entries[k].stime
      BY <2>5 DEF TimesNest
    <3>2. getDuration(k) = entries[k].etime - entries[k].stime
      BY <1>1, <3>1 DEF getDuration
    <3>3. Ends(entries[k].stime, k - 1)
      <4>1. \A s \in 1..k - 1 : s \in 1..Count /\ s < k
        BY <1>1, <2>2
      <4>2. \A s \in 1..k - 1 : entries[s].parent = e => entries[s].etime <= entries[k].stime
        BY <2>5, <4>1 DEF TimesNest
      <4> QED
        BY <1>1, <3>1, <4>2
    <3>4. \A b \in Nat : Ends(b, k) => entries[k].etime <= b
      BY <2>2, <2>5
    <3> HIDE DEF Ends
    <3>5. total[k - 1] <= entries[k].stime - entries[e].stime
      BY <1>1, <2>1, <3>3
    <3>6. total[k] = total[k - 1] + (entries[k].etime - entries[k].stime)
      BY <2>3, <2>5, <3>2
    <3>7. total[k] \in Int /\ total[k] <= entries[k].etime - entries[e].stime
      <4> DEFINE a == total[k - 1]
                 b == entries[k].stime
                 x == entries[k].etime
                 y == entries[e].stime
      <4>1. a \in Int /\ b \in Nat /\ x \in Nat /\ y \in Nat /\ a <= b - y /\ total[k] = a + (x - b)
        BY <1>1, <2>1, <3>5, <3>6
      <4> HIDE DEF a, b, x, y
      <4>2. a + (x - b) \in Int /\ a + (x - b) <= x - y
        BY ONLY <4>1
      <4> QED
        BY <4>1, <4>2 DEF x, y
    <3>8. \A b \in Nat : Ends(b, k) => total[k] <= b - entries[e].stime
      BY <1>1, <3>4, <3>7
    <3> QED
      BY <2>2, <3>7, <3>8
  <2> QED
    BY <2>4, <2>5
<1>10. Count \in A
  <2> HIDE DEF A
  <2> QED
    BY <1>1, <1>8, <1>9, AllReached
<1>11. entries[e].stime <= entries[e].etime /\ getDuration(e) = entries[e].etime - entries[e].stime
  BY <1>1 DEF TimesNest, getDuration
<1>12. Ends(entries[e].etime, Count)
  BY <1>1, <1>11 DEF TimesNest
<1> HIDE DEF Ends
<1>13. total[Count] \in Int /\ total[Count] <= entries[e].etime - entries[e].stime
  BY <1>1, <1>10, <1>12
<1> QED
  BY <1>1, <1>7, <1>11, <1>13

LEMMA ProfilerEnds == ProfilerInv => ProfilerSafe
<1> SUFFICES ASSUME ProfilerInv PROVE ProfilerSafe
  OBVIOUS
<1>1. TimesAddUp
  <2> SUFFICES ASSUME sets = 0, ~unruly, NEW e \in 1..Count, isReleased(e)
               PROVE  /\ \A s \in subEntries(e) : isReleased(s) /\ entries[s].etime <= entries[e].etime
                      /\ getMyDuration(e) >= 0
    BY ProfilerHas DEF TimesAddUp, Count
  <2>1. TimesNest
    BY DEF ProfilerInv
  <2>2. \A s \in subEntries(e) : isReleased(s) /\ entries[s].etime <= entries[e].etime
    BY <2>1 DEF TimesNest, subEntries, Count
  <2>3. subDurations(e) \in Int /\ subDurations(e) <= getDuration(e) /\ getDuration(e) \in Nat
    BY <2>1, DurationsFit
  <2>4. getMyDuration(e) >= 0
    BY <2>3 DEF getMyDuration
  <2> QED
    BY <2>2, <2>4
<1>2. OnePathUnderWay
  <2> SUFFICES ASSUME NEW e \in 1..Count, NEW f \in 1..Count, ~isReleased(e), ~isReleased(f),
                      entries[e].parent = entries[f].parent, e # f
               PROVE  FALSE
    BY DEF OnePathUnderWay, Count
  <2>1. e < f \/ f < e
    BY ProfilerHas
  <2> QED
    BY <2>1 DEF ProfilerInv, TreeGrows
<1> QED
  BY <1>1, <1>2 DEF ProfilerSafe

\* However a program enters, leaves and discards entries, and as long as the clock is not set
\* back and nothing is entered after the end of the root: an entry that was left has left all
\* that were entered below it and lasts as long as they do together at least, and at any time
\* one path of entries is under way (src/tbsys/src/profiler.h:103-129, :172-181,
\* profiler.cpp:47-75).
THEOREM ProfilerIsSafe == Spec => []ProfilerSafe
<1>1. Init => ProfilerInv
  BY ProfilerStarts DEF Init
<1>2. [Next]_vars => [ProfilerNext]_profilerVars
  BY DEF Next, only, vars
<1>3. ProfilerInv /\ [Next]_vars => ProfilerInv'
  BY <1>2, ProfilerStep
<1> QED
  BY <1>1, <1>3, ProfilerEnds, PTL DEF Spec

\* For any threads and depths, a monitor keeps its lock balanced and forgets no notification,
\* and with any guards what a scope has locked is its own as long as every guard got its lock
\* (src/tbsys/src/Monitor.h, tblockguard.h).
THEOREM LocksAreSafe == Spec => []LocksSafe
  BY MonitorIsSafe, ScopeIsProtected, PTL DEF LocksSafe
=============================================================================
