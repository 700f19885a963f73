------------------------------- MODULE Tbutil -------------------------------
(***************************************************************************)
(* The components of tbutil that do not interact, side by side: a          *)
(* behaviour is one of the thread pool or one of the timer, as part says,  *)
(* and leaves the other in its initial state.                              *)
(***************************************************************************)
EXTENDS ThreadPool, Timer

VARIABLE part

vars == <<poolVars, timerVars, part>>

TypeOK == part \in {"pool", "timer"} /\ PoolTypeOK /\ TimerTypeOK

Init == part \in {"pool", "timer"} /\ PoolInit /\ TimerInit

Next ==
  \/ part = "pool" /\ PoolNext /\ UNCHANGED <<timerVars, part>>
  \/ part = "timer" /\ TimerNext /\ UNCHANGED <<poolVars, part>>

Spec == Init /\ [][Next]_vars

\* The threads of the pool and the callers inside execute and destroy go on; a
\* handler may run for ever, and nobody has to call anything.
PoolFairness ==
  /\ \A t \in PoolThreads : WF_poolVars(part = "pool" /\ threadStep(t))
  /\ \A i \in Items : WF_poolVars(part = "pool" /\ executePush(i))
  /\ WF_poolVars(part = "pool" /\ destroyNotify)

\* The timer thread goes on, its tasks return, and time passes.
TimerFairness ==
  /\ WF_timerVars(part = "timer" /\ timerStep)
  /\ WF_timerVars(part = "timer" /\ tick)

LiveSpec == Spec /\ PoolFairness /\ TimerFairness

\* After destroy() the threads of the pool end, but for handlers that do not
\* return, and the thread of the timer.
DestroyEnds == PoolEnds /\ TimerEnds

\* The counters of the pool and its items agree with what its threads do.
PoolSafe == InUseCounts /\ ItemsOnce

\* The timer sleeps no longer than to its first token, and each task has one.
TimerSafe == NoOversleep /\ OneToken

\* Items are taken, due tasks are run, and destroy() ends the threads.
WorkIsDone == ItemIsTaken /\ DueIsRun /\ DestroyEnds

=============================================================================
