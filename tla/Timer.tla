-------------------------------- MODULE Timer --------------------------------
(***************************************************************************)
(* tbutil::Timer: a thread that runs tasks at their times. _tokens is the  *)
(* set of scheduled runs, ordered by time; _tasks maps a task to the time  *)
(* it is scheduled for. The timer thread takes the first token under       *)
(* _monitor and runs its task outside, while other threads schedule and    *)
(* cancel.                                                                 *)
(*                                                                         *)
(* An action is a critical section of _monitor, or the part of one between *)
(* two waits; in "scan" the timer thread holds the mutex.                  *)
(***************************************************************************)
EXTENDS Naturals, FiniteSets

CONSTANTS
  Tasks,          \* TimerTasks, as distinct numbers: their addresses
  Delays,         \* the delays that callers use; 0 is Time()
  MaxClock,       \* bound of the monotonic clock
  MaxSchedules,   \* bound of the calls of schedule and scheduleRepeated
  NoTask,         \* the null TimerTaskPtr
  ReuseRunning    \* whether a repeated task is scheduled again while it runs

ASSUME TimerAssumption ==
  /\ MaxClock \in Nat \ {0} /\ MaxSchedules \in Nat
  /\ Delays \subseteq Nat /\ \E d \in Delays : \A e \in Delays : d >= e
  /\ Tasks \subseteq Nat /\ NoTask \notin Tasks /\ ReuseRunning \in BOOLEAN

NoTime == 0   \* Time(); the clock starts at 1

Times == 1..MaxClock + (CHOOSE d \in Delays : \A e \in Delays : d >= e)
Tokens == [time : Times, delay : Delays \cup {NoTime}, task : Tasks]
NoToken == [time |-> NoTime, delay |-> NoTime, task |-> NoTask]

VARIABLES
  timerDestroyed,   \* _destroyed
  tokens, tasks,    \* _tokens, _tasks
  wakeUpTime,       \* _wakeUpTime
  clock,            \* Time::now(Time::Monotonic)
  timerPc, token,   \* the timer thread and its local token
  cancelled,        \* tasks that were cancelled and not scheduled since
  schedules         \* calls of schedule and scheduleRepeated

timerQueue == <<tokens, tasks>>
timerThread == <<timerPc, token>>
timerVars == <<timerDestroyed, timerQueue, wakeUpTime, clock, timerThread, cancelled,
               schedules>>

TimerTypeOK ==
  /\ timerDestroyed \in BOOLEAN
  /\ tokens \subseteq Tokens
  /\ DOMAIN tasks \subseteq Tasks /\ \A t \in DOMAIN tasks : tasks[t] \in Times
  /\ wakeUpTime \in Times \cup {NoTime}
  /\ clock \in 1..MaxClock
  /\ timerPc \in {"begin", "scan", "wait", "timedWait", "woken", "run", "done"}
  /\ token \in Tokens \cup {NoToken}
  /\ cancelled \subseteq Tasks /\ schedules \in 0..MaxSchedules

TimerInit ==
  /\ timerDestroyed = FALSE /\ tokens = {} /\ tasks = <<>>
  /\ wakeUpTime = NoTime /\ clock = 1
  /\ timerPc = "begin" /\ token = NoToken
  /\ cancelled = {} /\ schedules = 0

-----------------------------------------------------------------------------

\* Token::operator<
precedes(k, l) == k.time < l.time \/ (k.time = l.time /\ k.task < l.task)

\* std::set::insert: a token that is equal in that order stays.
insert(k) ==
  IF \E l \in tokens : ~precedes(k, l) /\ ~precedes(l, k) THEN tokens
  ELSE tokens \cup {k}

\* The map _tasks with t set to time, and without t.
mapped(t, time) ==
  [x \in DOMAIN tasks \cup {t} |-> IF x = t THEN time ELSE tasks[x]]
unmapped(t) == [x \in DOMAIN tasks \ {t} |-> tasks[x]]

\* _monitor is not held by the timer thread.
monitorFree == timerPc # "scan"

\* Whether a notification wakes the timer thread up.
\* Seeded fault: it is lost in the timed wait.
asleepOnce == timerPc = "wait"
asleep == timerPc \in {"wait", "timedWait"}
notified == timerPc' = IF asleep THEN "woken" ELSE timerPc

-----------------------------------------------------------------------------
(* The callers *)

\* Whether a token for this time must wake the timer thread up.
\* Seeded fault: only from the wait without a time.
isEarlierNot(time) == wakeUpTime = NoTime
isEarlier(time) == wakeUpTime = NoTime \/ time < wakeUpTime

enqueue(t, time, delay) ==
  /\ monitorFree /\ ~timerDestroyed /\ t \notin DOMAIN tasks
  /\ ReuseRunning \/ token.task # t \/ token.delay = NoTime
  /\ schedules < MaxSchedules /\ schedules' = schedules + 1
  /\ tasks' = mapped(t, time)
  /\ tokens' = insert([time |-> time, delay |-> delay, task |-> t])
  /\ IF isEarlier(time) THEN notified ELSE UNCHANGED timerPc
  /\ cancelled' = cancelled \ {t}
  /\ UNCHANGED <<timerDestroyed, wakeUpTime, clock, token>>

schedule(t) == \E d \in Delays : enqueue(t, clock + d, NoTime)
scheduleRepeated(t) == \E d \in Delays : enqueue(t, clock + d, d)

\* _tokens without the token that t is scheduled by.
\* Seeded fault: the token is looked up by the current time.
eraseNow(t) == {k \in tokens : k.task # t \/ k.time # clock}
erase(t) == {k \in tokens : k.task # t \/ k.time # tasks[t]}

cancel(t) ==
  /\ monitorFree /\ ~timerDestroyed /\ t \in DOMAIN tasks
  /\ tokens' = erase(t)
  /\ tasks' = unmapped(t)
  /\ cancelled' = cancelled \cup {t}
  /\ UNCHANGED <<timerDestroyed, wakeUpTime, clock, timerThread, schedules>>

destroyTimer ==
  /\ monitorFree /\ ~timerDestroyed
  /\ timerDestroyed' = TRUE /\ notified
  /\ tasks' = <<>> /\ tokens' = {}
  /\ UNCHANGED <<wakeUpTime, clock, token, cancelled, schedules>>

tick ==
  /\ clock < MaxClock /\ clock' = clock + 1
  /\ UNCHANGED <<timerDestroyed, timerQueue, wakeUpTime, timerThread, cancelled,
                 schedules>>

-----------------------------------------------------------------------------
(* The timer thread: Timer::run *)

\* Whether the task that was run is scheduled again.
\* Seeded fault: the test is inverted.
repeatsNot == token.delay # NoTime /\ token.task \notin DOMAIN tasks
repeats == token.delay # NoTime /\ token.task \in DOMAIN tasks

\* _tokens and _tasks after a task was run.
requeue ==
  IF repeats
  THEN LET time == clock + token.delay
       IN /\ tokens' = insert([token EXCEPT !.time = time])
          /\ tasks' = mapped(token.task, time)
  ELSE UNCHANGED timerQueue

timerBegin ==
  /\ timerPc = "begin" /\ ~timerDestroyed
  /\ requeue
  /\ token' = NoToken
  /\ IF tokens' = {} THEN timerPc' = "wait" /\ wakeUpTime' = NoTime
                     ELSE timerPc' = "scan" /\ UNCHANGED wakeUpTime
  /\ UNCHANGED <<timerDestroyed, clock, cancelled, schedules>>

timerEnd ==
  /\ timerPc \in {"begin", "woken"} /\ timerDestroyed
  /\ timerPc' = "done"
  /\ UNCHANGED <<timerDestroyed, timerQueue, wakeUpTime, clock, token, cancelled,
                 schedules>>

first == CHOOSE k \in tokens : \A l \in tokens \ {k} : precedes(k, l)

scans == timerPc \in {"scan", "woken"} /\ ~timerDestroyed

\* Woken up for tokens that are gone: there is no task to run.
scanEmpty ==
  /\ scans /\ tokens = {}
  /\ timerPc' = "begin"
  /\ UNCHANGED <<timerDestroyed, timerQueue, wakeUpTime, clock, token, cancelled,
                 schedules>>

isDue(k) == k.time <= clock

\* The task is run from here on, outside the monitor.
scanDue ==
  /\ scans /\ tokens # {} /\ isDue(first)
  /\ token' = first /\ tokens' = tokens \ {first}
  /\ tasks' = IF first.delay = NoTime THEN unmapped(first.task) ELSE tasks
  /\ timerPc' = "run"
  /\ UNCHANGED <<timerDestroyed, wakeUpTime, clock, cancelled, schedules>>

scanSleep ==
  /\ scans /\ tokens # {} /\ ~isDue(first)
  /\ wakeUpTime' = first.time
  /\ timerPc' = "timedWait"
  /\ UNCHANGED <<timerDestroyed, timerQueue, clock, token, cancelled, schedules>>

waitTimedOut ==
  /\ timerPc = "timedWait" /\ clock >= wakeUpTime
  /\ timerPc' = "woken"
  /\ UNCHANGED <<timerDestroyed, timerQueue, wakeUpTime, clock, token, cancelled,
                 schedules>>

\* runTimerTask returns or throws.
taskReturns ==
  /\ timerPc = "run" /\ timerPc' = "begin"
  /\ UNCHANGED <<timerDestroyed, timerQueue, wakeUpTime, clock, token, cancelled,
                 schedules>>

-----------------------------------------------------------------------------

timerStep ==
  \/ timerBegin \/ timerEnd \/ scanEmpty \/ scanDue \/ scanSleep \/ waitTimedOut
  \/ taskReturns

TimerNext ==
  \/ \E t \in Tasks : schedule(t) \/ scheduleRepeated(t) \/ cancel(t)
  \/ destroyTimer \/ tick \/ timerStep

TimerSpec == TimerInit /\ [][TimerNext]_timerVars

-----------------------------------------------------------------------------

\* While the timer thread sleeps no token is due before it wakes up: schedule()
\* notifies it when, and only when, the new token comes first (lines 75, 108).
NoOversleep ==
  /\ timerPc = "wait" => tokens = {}
  /\ timerPc = "timedWait" => \A k \in tokens : k.time >= wakeUpTime

\* A task in _tasks has one token, with the time in _tasks, or is repeated and at
\* hand in the timer thread; a task that is not in _tasks has none.
OneToken ==
  \A t \in Tasks :
    LET its == {k \in tokens : k.task = t}
        atHand == token.task = t /\ token.delay # NoTime
    IN ~timerDestroyed =>
         /\ Cardinality(its) = IF t \in DOMAIN tasks /\ ~atHand THEN 1 ELSE 0
         /\ \A k \in its : k.time = tasks[t]

\* A task that cancel() took off does not start until it is scheduled again.
CancelledNotStarted ==
  [][timerPc # "run" /\ timerPc' = "run" => token'.task \notin cancelled]_timerVars

\* What is scheduled is run, put off by its own run, cancelled, or the timer is
\* destroyed; nothing is left behind.
DueIsRun ==
  \A t \in Tasks, time \in 1..MaxClock :
    LET scheduled == t \in DOMAIN tasks /\ tasks[t] = time
    IN scheduled ~> ~scheduled

\* After destroy() the timer thread ends, so that its join comes back.
TimerEnds == timerDestroyed ~> timerPc = "done"

=============================================================================
