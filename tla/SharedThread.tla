----------------------------- MODULE SharedThread -----------------------------
(***************************************************************************)
(* A tbutil::Thread, which is a Shared object: it lives as long as a       *)
(* Handle points to it. Its users hold handles, start() keeps one while it *)
(* runs and gives one to the new thread, which holds it to its end. The    *)
(* object may also start itself in its constructor, before anybody has a   *)
(* handle, as Timer does.                                                  *)
(***************************************************************************)
EXTENDS Naturals, FiniteSets

CONSTANT Users

NoOne == "nobody"
TheThread == "thread"

ASSUME SharedThreadAssumption ==
  IsFiniteSet(Users) /\ Users # {} /\ Users \cap {NoOne, TheThread} = {}

Maker == CHOOSE u \in Users : TRUE

VARIABLES
  ref, noDelete,        \* _ref and _noDelete of Shared
  objectState,          \* "live", "deleting": somebody's __decRef is about to; "deleted"
  handles,              \* the users that hold a handle
  userPc,               \* where a user is
  keeps,                \* the users whose start() has its keepMe
  threadPc,             \* where the new thread is
  isRunningFlag, started, detachable,   \* _running, _started, _detachable
  threadMutex,          \* who holds _mutex of Thread
  selfStarted,          \* the constructor calls start()
  startFailed           \* pthread_create has failed

sharedVars == <<ref, noDelete, objectState, handles, userPc, keeps, threadPc, isRunningFlag,
                started, detachable, threadMutex, selfStarted, startFailed>>

UserPcs == {"idle", "keep", "lock", "test", "create", "set", "unlock", "unkeep"}
ThreadPcs == {"none", "hook", "hookDec", "run", "done", "unset", "leave", "ended", "joined"}

SharedTypeOK ==
  /\ ref \in 0..2 * Cardinality(Users) + 2 /\ noDelete \in BOOLEAN
  /\ objectState \in {"live", "deleting", "deleted"}
  /\ handles \subseteq Users /\ keeps \subseteq Users
  /\ userPc \in [Users -> UserPcs] /\ threadPc \in ThreadPcs
  /\ {isRunningFlag, started, detachable, selfStarted, startFailed} \subseteq BOOLEAN
  /\ threadMutex \in Users \cup {TheThread, NoOne}

SharedInit ==
  /\ noDelete = FALSE /\ objectState = "live" /\ keeps = {} /\ threadPc = "none"
  /\ isRunningFlag = FALSE /\ started = FALSE /\ detachable \in BOOLEAN
  /\ threadMutex = NoOne /\ selfStarted \in BOOLEAN /\ startFailed = FALSE
  /\ ref = IF selfStarted THEN 0 ELSE 1
  /\ handles = IF selfStarted THEN {} ELSE {Maker}
  /\ userPc = [u \in Users |-> IF selfStarted /\ u = Maker THEN "keep" ELSE "idle"]

-----------------------------------------------------------------------------
(* Shared *)

incRef == ref' = ref + 1 /\ UNCHANGED <<noDelete, objectState>>

\* The last reference deletes, once; the deletion itself is a step of its own.
decRef ==
  /\ ref' = ref - 1
  /\ objectState' = IF ref = 1 /\ ~noDelete THEN "deleting" ELSE objectState
  /\ noDelete' = (noDelete \/ ref = 1)

noRef == UNCHANGED <<ref, noDelete, objectState>>

deleteThis ==
  /\ objectState = "deleting" /\ objectState' = "deleted"
  /\ UNCHANGED <<ref, noDelete, handles, userPc, keeps, threadPc, isRunningFlag, started,
                 detachable, threadMutex, selfStarted, startFailed>>

-----------------------------------------------------------------------------
(* Handles of the users *)

\* A handle is copied from another, or made from a pointer when the constructor is
\* over. The pointer of a constructor that started its own thread and lost it, because
\* start() failed or the thread has ended, leads to a deleted object; its use is left out.
copyHandle(u) ==
  /\ userPc[u] = "idle" /\ u \notin handles
  /\ handles # {} \/ (selfStarted /\ u = Maker /\ objectState = "live" /\ ref > 0)
  /\ handles' = handles \cup {u} /\ incRef
  /\ UNCHANGED <<userPc, keeps, threadPc, isRunningFlag, started, detachable, threadMutex,
                 selfStarted, startFailed>>

dropHandle(u) ==
  /\ userPc[u] = "idle" /\ u \in handles
  /\ handles' = handles \ {u} /\ decRef
  /\ UNCHANGED <<userPc, keeps, threadPc, isRunningFlag, started, detachable, threadMutex,
                 selfStarted, startFailed>>

-----------------------------------------------------------------------------
(* start() *)

goes(u, from, to) == userPc[u] = from /\ userPc' = [userPc EXCEPT ![u] = to]

callStart(u) ==
  /\ u \in handles /\ goes(u, "idle", "keep")
  /\ noRef
  /\ UNCHANGED <<handles, keeps, threadPc, isRunningFlag, started, detachable, threadMutex,
                 selfStarted, startFailed>>

keepMe(u) ==
  /\ goes(u, "keep", "lock") /\ incRef /\ keeps' = keeps \cup {u}
  /\ UNCHANGED <<handles, threadPc, isRunningFlag, started, detachable, threadMutex,
                 selfStarted, startFailed>>

lockStart(u) ==
  /\ goes(u, "lock", "test") /\ threadMutex = NoOne /\ threadMutex' = u
  /\ noRef
  /\ UNCHANGED <<handles, keeps, threadPc, isRunningFlag, started, detachable, selfStarted,
                 startFailed>>

testStarted(u) ==
  /\ goes(u, "test", IF started THEN "unlock" ELSE "create")
  /\ IF started THEN noRef ELSE incRef
  /\ UNCHANGED <<handles, keeps, threadPc, isRunningFlag, started, detachable, threadMutex,
                 selfStarted, startFailed>>

createThread(u) ==
  \/ /\ goes(u, "create", "set") /\ noRef /\ threadPc' = "hook"
     /\ UNCHANGED <<handles, keeps, isRunningFlag, started, detachable, threadMutex,
                    selfStarted, startFailed>>
  \/ /\ goes(u, "create", "unlock") /\ decRef /\ startFailed' = TRUE
     /\ UNCHANGED <<handles, keeps, threadPc, isRunningFlag, started, detachable,
                    threadMutex, selfStarted>>

\* A detachable thread is detached, and the flags are set.
setRunning(u) ==
  /\ goes(u, "set", "unlock") /\ noRef
  /\ started' = TRUE /\ isRunningFlag' = TRUE
  /\ UNCHANGED <<handles, keeps, threadPc, detachable, threadMutex, selfStarted, startFailed>>

unlockStart(u) ==
  /\ goes(u, "unlock", "unkeep") /\ threadMutex' = NoOne /\ noRef
  /\ UNCHANGED <<handles, keeps, threadPc, isRunningFlag, started, detachable, selfStarted,
                 startFailed>>

dropKeepMe(u) ==
  /\ goes(u, "unkeep", "idle") /\ decRef /\ keeps' = keeps \ {u}
  /\ UNCHANGED <<handles, threadPc, isRunningFlag, started, detachable, threadMutex,
                 selfStarted, startFailed>>

-----------------------------------------------------------------------------
(* The new thread: startHook *)

threadGoes(from, to) ==
  /\ threadPc = from /\ threadPc' = to
  /\ UNCHANGED <<handles, userPc, keeps, started, detachable, selfStarted, startFailed>>

\* Its handle first, then the reference that start() has taken for it.
\* Seeded fault: the other way round.
hookOrderSwapped == <<"dec", "inc">>
hookOrder == <<"inc", "dec">>
hookRef(k) == IF hookOrder[k] = "inc" THEN incRef ELSE decRef

startHook ==
  /\ \/ threadGoes("hook", "hookDec") /\ hookRef(1)
     \/ threadGoes("hookDec", "run") /\ hookRef(2)
  /\ UNCHANGED <<isRunningFlag, threadMutex>>

runReturns ==
  /\ threadGoes("run", "done") /\ noRef /\ UNCHANGED <<isRunningFlag, threadMutex>>

\* Whether _done() gets the mutex.
\* Seeded fault: it does not take it.
doneMayEnterAlways == TRUE
doneMayEnter == threadMutex = NoOne

setDone ==
  /\ threadGoes("done", "unset") /\ noRef
  /\ doneMayEnter /\ threadMutex' = (IF threadMutex = NoOne THEN TheThread ELSE threadMutex)
  /\ isRunningFlag' = FALSE

unlockDone ==
  /\ threadGoes("unset", "leave") /\ noRef /\ UNCHANGED isRunningFlag
  /\ threadMutex' = IF threadMutex = TheThread THEN NoOne ELSE threadMutex

threadEnds ==
  /\ threadGoes("leave", "ended") /\ decRef /\ UNCHANGED <<isRunningFlag, threadMutex>>

\* A user may join, once, a thread that is not detachable.
joinThread(u) ==
  /\ u \in handles /\ userPc[u] = "idle" /\ started /\ ~detachable
  /\ threadGoes("ended", "joined") /\ noRef /\ UNCHANGED <<isRunningFlag, threadMutex>>

threadHookStep ==
  startHook \/ runReturns \/ setDone \/ unlockDone \/ threadEnds

userStep(u) ==
  \/ keepMe(u) \/ lockStart(u) \/ testStarted(u) \/ createThread(u) \/ setRunning(u)
  \/ unlockStart(u) \/ dropKeepMe(u)

SharedNext ==
  \/ deleteThis \/ threadHookStep
  \/ \E u \in Users :
       \/ copyHandle(u) \/ dropHandle(u) \/ callStart(u) \/ userStep(u) \/ joinThread(u)

-----------------------------------------------------------------------------

insideStart == {u \in Users : userPc[u] # "idle"}
threadInside == threadPc \in {"hook", "hookDec", "run", "done", "unset", "leave"}
quiet == insideStart = {} /\ ~threadInside

\* Nobody has a handle on, or is inside of, an object that is deleted or about to
\* be, and its mutex is free by then; nothing points to it and it is still there
\* only if nobody ever had a handle.
DeletedIsUnused ==
  /\ objectState # "live" => handles = {} /\ quiet /\ threadMutex = NoOne
  /\ objectState = "live" /\ quiet => ref = Cardinality(handles) /\ ref > 0

\* isAlive() tells, when start() is over, whether the thread is before _done():
\* the thread cannot be faster than start() in setting _running.
AliveIsTrue ==
  insideStart = {} => isRunningFlag = (threadPc \in {"hook", "hookDec", "run", "done"})
=============================================================================
