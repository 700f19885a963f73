------------------------------ MODULE Profiler ------------------------------
(***************************************************************************)
(* The profiler of one thread: a tree of entries with their times, of which *)
(* begin() and end() find the current one by following the last entry that  *)
(* is not released. The time is that of gettimeofday(), which may be set.   *)
(***************************************************************************)
EXTENDS Integers, Sequences, FiniteSets, FiniteSetsExt

CONSTANTS
  MaxEntries,  \* bound of the entries
  MaxTime,     \* bound of the time
  MaxSets      \* how often the clock is set back

ASSUME ProfilerAssumption == MaxEntries \in Nat \ {0} /\ MaxTime \in Nat \ {0} /\ MaxSets \in Nat

VARIABLES
  entries,   \* the tree below entry.get() in the order of creation; the root comes first
  time,      \* gettimeofday()
  sets,      \* ghost: how often the clock was set back
  unruly     \* ghost: a begin() or end() came after the end() of the root

profilerVars == <<entries, time, sets, unruly>>

NoEntry == 0

ProfilerTypeOK ==
  /\ Len(entries) <= MaxEntries
  /\ \A e \in 1..Len(entries) : /\ entries[e].parent \in 0..e - 1
                                /\ entries[e].stime \in 1..MaxTime /\ entries[e].etime \in 0..MaxTime
  /\ time \in 1..MaxTime /\ sets \in 0..MaxSets /\ unruly \in BOOLEAN

ProfilerInit == entries = <<>> /\ time = 1 /\ sets = 0 /\ unruly = FALSE

newEntry(parent) == [parent |-> parent, stime |-> time, etime |-> 0]
isReleased(e) == entries[e].etime > 0
subEntries(e) == {s \in 1..Len(entries) : entries[s].parent = e}
\* Seeded fault: a released entry is still current.
unreleasedAny(e) == IF subEntries(e) = {} THEN NoEntry ELSE Max(subEntries(e))
getUnreleasedEntry(e) ==
  IF subEntries(e) = {} \/ isReleased(Max(subEntries(e))) THEN NoEntry ELSE Max(subEntries(e))

\* getCurrentEntry(): the end of the chain of last unreleased entries below the root.
getCurrentEntry ==
  LET chain[n \in 0..MaxEntries] ==
        IF n = 0 THEN 1
        ELSE IF chain[n - 1] = NoEntry \/ getUnreleasedEntry(chain[n - 1]) = NoEntry THEN chain[n - 1]
        ELSE getUnreleasedEntry(chain[n - 1])
  IN IF entries = <<>> THEN NoEntry ELSE chain[MaxEntries]

getDuration(e) == IF entries[e].etime >= entries[e].stime THEN entries[e].etime - entries[e].stime ELSE -1
\* The durations of the entries below e, one after another.
subDurations(e) ==
  LET total[s \in 0..Len(entries)] ==
        IF s = 0 THEN 0 ELSE total[s - 1] + IF entries[s].parent = e THEN getDuration(s) ELSE 0
  IN total[Len(entries)]
getMyDuration(e) ==
  LET td == getDuration(e) - subDurations(e)
  IN IF getDuration(e) < 0 \/ td < 0 THEN -1 ELSE td

rootEnded == entries # <<>> /\ isReleased(1)

start == entries' = <<newEntry(NoEntry)>> /\ unruly' = FALSE /\ UNCHANGED <<time, sets>>
reset == entries # <<>> /\ entries' = <<>> /\ unruly' = FALSE /\ UNCHANGED <<time, sets>>
begin ==
  /\ getCurrentEntry # NoEntry /\ Len(entries) < MaxEntries
  /\ entries' = Append(entries, newEntry(getCurrentEntry)) /\ unruly' = (unruly \/ rootEnded)
  /\ UNCHANGED <<time, sets>>
\* end(), stop(), and what dump() does before it writes.
endEntry ==
  /\ getCurrentEntry # NoEntry /\ entries' = [entries EXCEPT ![getCurrentEntry].etime = time]
  /\ unruly' = (unruly \/ rootEnded) /\ UNCHANGED <<time, sets>>

tickProfiler == time < MaxTime /\ time' = time + 1 /\ UNCHANGED <<entries, sets, unruly>>
setBack == time > 1 /\ sets < MaxSets /\ time' = time - 1 /\ sets' = sets + 1 /\ UNCHANGED <<entries, unruly>>

ProfilerNext == start \/ reset \/ begin \/ endEntry \/ tickProfiler \/ setBack

-----------------------------------------------------------------------------
(* Properties *)

\* Entries are released from the inside out, and the times of a released entry and of
\* those in it add up, as long as the clock is not set back and nothing comes after the
\* end() of the root (profiler.h:103-129, :172-181, profiler.cpp:47-75).
TimesAddUp ==
  sets > 0 \/ unruly
    \/ \A e \in 1..Len(entries) : isReleased(e) =>
         /\ \A s \in subEntries(e) : isReleased(s) /\ entries[s].etime <= entries[e].etime
         /\ getMyDuration(e) >= 0

\* However begin() and end() are called, at most the entries on one path from the root
\* are under way, each the last of its parent, but for a root that has ended.
OnePathUnderWay ==
  \A e, f \in {g \in 1..Len(entries) : ~isReleased(g)} :
    entries[e].parent = entries[f].parent => e = f

ProfilerSafe == TimesAddUp /\ OnePathUnderWay
=============================================================================
