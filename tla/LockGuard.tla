------------------------------ MODULE LockGuard ------------------------------
(***************************************************************************)
(* The locks of tbsys and the objects that hold them for a scope:          *)
(* CLockGuard over the two sides of a CRWLock, CRWSimpleLock by plain      *)
(* calls, CThreadGuard over a CThreadMutex. A guard unlocks when it is     *)
(* destroyed whether it has the lock or not; what an unlock of a lock that *)
(* the thread does not hold does is left open, as POSIX leaves it.         *)
(***************************************************************************)
EXTENDS Integers, Sequences, FiniteSets, SequencesExt

CONSTANTS
  RwThreads,
  MaxGuards    \* bound of the guards that one thread nests

Kinds == {"CRWLock", "CRWSimpleLock", "CThreadMutex"}
ELockMode == {"NO_PRIORITY", "WRITE_PRIORITY", "READ_PRIORITY"}
Nobody == "nobody"

ASSUME GuardAssumption == Nobody \notin RwThreads /\ MaxGuards \in Nat \ {0}

VARIABLES
  lockKind,    \* which of the three classes the lock is
  lockMode,
  rwlock,      \* the pthread lock: how often each thread reads, and who writes
  guards,      \* the guards of a thread, the innermost last
  blockedFor,  \* the side that a thread waits for, or "none"
  stray        \* some unlock was by a guard without the lock

guardVars == <<lockKind, lockMode, rwlock, guards, blockedFor, stray>>

Guard == [side : {"read", "write"}, acquired : BOOLEAN]

GuardTypeOK ==
  /\ lockKind \in Kinds /\ lockMode \in ELockMode /\ stray \in BOOLEAN
  /\ rwlock \in [readers : [RwThreads -> 0..MaxGuards], writer : RwThreads \cup {Nobody}]
  /\ guards \in [RwThreads -> Seq(Guard)] /\ \A t \in RwThreads : Len(guards[t]) <= MaxGuards
  /\ blockedFor \in [RwThreads -> {"none", "read", "write"}]

\* The constructors; of CRWSimpleLock and CRWLock they differ in who owns the sides.
rwlockInit == [readers |-> [t \in RwThreads |-> 0], writer |-> Nobody]

GuardInit ==
  /\ lockKind \in Kinds
  /\ lockMode \in IF lockKind = "CThreadMutex" THEN {"NO_PRIORITY"} ELSE ELockMode
  /\ rwlock = rwlockInit /\ stray = FALSE
  /\ guards = [t \in RwThreads |-> <<>>] /\ blockedFor = [t \in RwThreads |-> "none"]

-----------------------------------------------------------------------------
(* pthread_rwlock; a CThreadMutex is a lock that everyone takes to write *)

\* Readers give way to a waiting writer only when writers are preferred.
mayRead == rwlock.writer = Nobody
             /\ (lockMode = "WRITE_PRIORITY" => \A u \in RwThreads : blockedFor[u] # "write")
\* Seeded fault: a writer does not wait for the readers.
mayWriteEarly == rwlock.writer = Nobody
mayWrite == rwlock.writer = Nobody /\ \A u \in RwThreads : rwlock.readers[u] = 0
mayLockSide(side) == IF side = "read" THEN mayRead ELSE mayWrite

\* rdlock and wrlock answer EDEADLK to the thread that writes.
refuses(t) == rwlock.writer = t /\ lockKind # "CThreadMutex"

taken(t, side) ==
  IF side = "read" THEN [rwlock EXCEPT !.readers[t] = @ + 1] ELSE [rwlock EXCEPT !.writer = t]

\* pthread_rwlock_unlock and pthread_mutex_unlock by t: all the results there can be.
unlockResults(t) ==
  IF rwlock.writer = t THEN {[rwlock EXCEPT !.writer = Nobody]}
  ELSE IF rwlock.readers[t] > 0 THEN {[rwlock EXCEPT !.readers[t] = @ - 1]}
  ELSE {rwlock, [rwlock EXCEPT !.writer = Nobody]}
         \cup {[rwlock EXCEPT !.readers[u] = @ - 1] : u \in {v \in RwThreads : rwlock.readers[v] > 0}}

-----------------------------------------------------------------------------
(* The guards *)

sides == IF lockKind = "CThreadMutex" THEN {"write"} ELSE {"read", "write"}
mayConstruct(t) ==
  blockedFor[t] = "none" /\ Len(guards[t]) < IF lockKind = "CThreadMutex" THEN 1 ELSE MaxGuards
constructed(t, side, got) ==
  guards' = [guards EXCEPT ![t] = Append(@, [side |-> side, acquired |-> got])]

\* CLockGuard with block, CThreadGuard of a mutex, or a plain rdlock()/wrlock().
lockGuard(t, side) ==
  /\ mayConstruct(t)
  /\ \/ /\ ~refuses(t) /\ mayLockSide(side)
        /\ rwlock' = taken(t, side) /\ constructed(t, side, TRUE) /\ UNCHANGED blockedFor
     \/ /\ refuses(t) /\ constructed(t, side, FALSE) /\ UNCHANGED <<rwlock, blockedFor>>
     \/ /\ ~refuses(t) /\ ~mayLockSide(side)
        /\ blockedFor' = [blockedFor EXCEPT ![t] = side] /\ UNCHANGED <<rwlock, guards>>
  /\ UNCHANGED <<lockKind, lockMode, stray>>

\* The blocked call returns with the lock.
lockReturns(t) ==
  LET side == blockedFor[t]
  IN /\ side # "none" /\ rwlock.writer = Nobody /\ mayLockSide(side)
     /\ rwlock' = taken(t, side) /\ constructed(t, side, TRUE)
     /\ blockedFor' = [blockedFor EXCEPT ![t] = "none"]
     /\ UNCHANGED <<lockKind, lockMode, stray>>

\* CLockGuard without block, or tryrdlock()/trywrlock().
tryGuard(t, side) ==
  /\ lockKind # "CThreadMutex" /\ mayConstruct(t)
  /\ constructed(t, side, mayLockSide(side))
  /\ rwlock' = IF mayLockSide(side) THEN taken(t, side) ELSE rwlock
  /\ UNCHANGED <<lockKind, lockMode, blockedFor, stray>>

\* ~CLockGuard and ~CThreadGuard; who calls a CRWSimpleLock knows what it answered.
destroyGuard(t) ==
  /\ guards[t] # <<>> /\ blockedFor[t] = "none"
  /\ guards' = [guards EXCEPT ![t] = Front(@)]
  /\ LET got == Last(guards[t]).acquired
     IN IF lockKind = "CRWSimpleLock" /\ ~got
        THEN UNCHANGED <<rwlock, stray>>
        ELSE rwlock' \in unlockResults(t) /\ stray' = (stray \/ ~got)
  /\ UNCHANGED <<lockKind, lockMode, blockedFor>>

GuardNext ==
  \E t \in RwThreads :
    \/ \E side \in sides : lockGuard(t, side) \/ tryGuard(t, side)
    \/ lockReturns(t)
    \/ destroyGuard(t)

-----------------------------------------------------------------------------
(* Properties *)

acquiredIn(s, side) == Cardinality({i \in 1..Len(s) : s[i].acquired /\ s[i].side = side})
acquiredBy(t, side) == acquiredIn(guards[t], side)

\* As long as every guard got its lock, the lock counts exactly the guards that
\* have it, and no thread is in a guard beside another that writes (tbrwlock.h
\* and tblockguard.h: acquired() means the scope is protected).
GuardProtects ==
  stray \/ \A t, u \in RwThreads :
             /\ acquiredBy(t, "read") = rwlock.readers[t]
             /\ (acquiredBy(t, "write") = 1) <=> (rwlock.writer = t)
             /\ t # u /\ acquiredBy(t, "write") > 0 => \A s \in {"read", "write"} : acquiredBy(u, s) = 0
=============================================================================
