---------------------------- MODULE TbutilProofs ----------------------------
(***************************************************************************)
(* Proofs, for any number of threads and items, that the leadership of the *)
(* thread pool is neither lost nor doubled, that its counters are right    *)
(* and no item is lost; and for any tasks and times, that the timer does   *)
(* not oversleep and has one token for each task.                          *)
(***************************************************************************)
EXTENDS Tbutil, FiniteSetTheorems, SequenceTheorems, WellFoundedInduction, TLAPS

Labels == {"none", "follow", "asleep", "lead", "waitWork", "promote", "run", "execute",
           "giveBack", "leave", "done"}
Leading == {"lead", "waitWork", "promote", "leave"}

\* The part of the type invariant that the hand-over depends on.
PoolShape == promote \in BOOLEAN /\ poolPc \in [PoolThreads -> Labels]

LeaderInv == PoolShape /\ OneLeader

-----------------------------------------------------------------------------

\* The program counters after some threads were sent on to label.
LEMMA SentShape ==
  ASSUME NEW pc \in [PoolThreads -> Labels], NEW W, NEW label \in Labels
  PROVE  sent(pc, W, label) \in [PoolThreads -> Labels]
BY DEF sent

\* A wake-up outside the leadership changes nothing in it.
LEMMA SentKeepsLeader ==
  ASSUME PoolShape, NEW W \in SUBSET inPool({"asleep", "none"})
  PROVE  \A t \in PoolThreads :
           sent(poolPc, W, "follow")[t] \in Leading <=> poolPc[t] \in Leading
BY DEF sent, inPool, PoolShape, Leading

\* Who is notified is one who waits.
LEMMA NotifiedWait ==
  ASSUME NEW waiting, NEW W \in notify(waiting)
  PROVE  W \subseteq waiting
BY DEF notify

\* The step of one thread that passes the leadership on.
LEMMA HandOver ==
  ASSUME LeaderInv, NEW t \in PoolThreads, poolPc[t] \in Leading, promote' = TRUE,
         poolPc' \in [PoolThreads -> Labels], poolPc'[t] \notin Leading,
         \A u \in PoolThreads \ {t} : poolPc'[u] \in Leading => poolPc[u] \in Leading
  PROVE  LeaderInv'
BY DEF LeaderInv, PoolShape, OneLeader, inPool, Leading

\* A step in which every thread keeps its part in the leadership.
LEMMA KeepLeader ==
  ASSUME LeaderInv, UNCHANGED promote, poolPc' \in [PoolThreads -> Labels],
         \A u \in PoolThreads : poolPc'[u] \in Leading <=> poolPc[u] \in Leading
  PROVE  LeaderInv'
<1>1. promote' \in BOOLEAN
  BY DEF LeaderInv, PoolShape
<1>2. inPool(Leading)' = inPool(Leading)
  BY DEF inPool
<1> QED
  BY <1>1, <1>2 DEF LeaderInv, PoolShape, OneLeader, Leading

LEMMA InitLeader == PoolInit => LeaderInv
BY PoolAssumption DEF PoolInit, LeaderInv, PoolShape, OneLeader, inPool, Labels

\* The leadership and the steps of one thread in run().
LEMMA ThreadSteps ==
  ASSUME LeaderInv, NEW t \in PoolThreads, threadStep(t) \/ executeReturns(t)
  PROVE  LeaderInv'
<1> USE DEF LeaderInv
<1>1. CASE follow(t)
  <2>1. CASE promote
    BY <1>1, <2>1 DEF follow, PoolShape, OneLeader, inPool, Labels
  <2>2. CASE ~promote
    <3>1. UNCHANGED promote /\ poolPc' \in [PoolThreads -> Labels]
      BY <1>1, <2>2 DEF follow, PoolShape, Labels
    <3>2. \A u \in PoolThreads : poolPc'[u] \in Leading <=> poolPc[u] \in Leading
      BY <1>1, <2>2 DEF follow, PoolShape, Leading
    <3> QED
      BY <3>1, <3>2, KeepLeader
  <2> QED
    BY <2>1, <2>2
<1>2. CASE leadNothing(t) \/ leadTake(t) \/ runItem(t) \/ dropItem(t) \/ giveBack(t)
           \/ executeReturns(t)
  <2>1. UNCHANGED promote /\ poolPc' \in [PoolThreads -> Labels]
    BY <1>2 DEF leadNothing, leadTake, runItem, dropItem, giveBack, executeReturns,
       PoolShape, Labels
  <2>2. \A u \in PoolThreads : poolPc'[u] \in Leading <=> poolPc[u] \in Leading
    BY <1>2 DEF leadNothing, leadTake, runItem, dropItem, giveBack, executeReturns,
       PoolShape, Leading
  <2> QED
    BY <2>1, <2>2, KeepLeader
<1>3. CASE promoteFollower(t)
  <2>1. PICK W \in notify(inPool({"asleep"})), new \in SUBSET inPool({"none"}) :
          poolPc' = [sent(poolPc, W \cup new, "follow") EXCEPT ![t] = "run"]
    BY <1>3 DEF promoteFollower
  <2>2. W \cup new \subseteq inPool({"asleep", "none"})
    BY <2>1, NotifiedWait DEF inPool
  <2>3. \A u \in PoolThreads :
          sent(poolPc, W \cup new, "follow")[u] \in Leading <=> poolPc[u] \in Leading
    BY <2>2, SentKeepsLeader
  <2>4. sent(poolPc, W \cup new, "follow") \in [PoolThreads -> Labels]
    BY SentShape DEF PoolShape, Labels
  <2>5. poolPc[t] \in Leading /\ promote' = TRUE
    BY <1>3 DEF promoteFollower, Leading
  <2>6. poolPc' \in [PoolThreads -> Labels] /\ poolPc'[t] \notin Leading
    BY <2>1, <2>4 DEF Labels, Leading
  <2>7. \A u \in PoolThreads \ {t} : poolPc'[u] \in Leading => poolPc[u] \in Leading
    BY <2>1, <2>3, <2>4
  <2> QED
    BY <2>5, <2>6, <2>7, HandOver
<1>4. CASE leave(t)
  <2>1. PICK W \in notify(inPool({"asleep"})) :
          poolPc' = [sent(poolPc, W, "follow") EXCEPT ![t] = "done"]
    BY <1>4 DEF leave
  <2>2. W \subseteq inPool({"asleep", "none"})
    BY NotifiedWait DEF inPool
  <2>3. \A u \in PoolThreads :
          sent(poolPc, W, "follow")[u] \in Leading <=> poolPc[u] \in Leading
    BY <2>2, SentKeepsLeader
  <2>4. sent(poolPc, W, "follow") \in [PoolThreads -> Labels]
    BY SentShape DEF PoolShape, Labels
  <2>5. poolPc[t] \in Leading /\ promote' = TRUE
    BY <1>4 DEF leave, Leading
  <2>6. poolPc' \in [PoolThreads -> Labels] /\ poolPc'[t] \notin Leading
    BY <2>1, <2>4 DEF Labels, Leading
  <2>7. \A u \in PoolThreads \ {t} : poolPc'[u] \in Leading => poolPc[u] \in Leading
    BY <2>1, <2>3, <2>4
  <2> QED
    BY <2>5, <2>6, <2>7, HandOver
<1> QED
  BY <1>1, <1>2, <1>3, <1>4 DEF threadStep

\* The leadership and the steps of the callers and the owner.
LEMMA CallerSteps ==
  ASSUME LeaderInv,
         \/ \E i \in Items : executeCheck(i) \/ executePush(i)
         \/ destroy \/ destroyNotify \/ destruct
  PROVE  LeaderInv'
<1> USE DEF LeaderInv
<1>1. ASSUME NEW i \in Items, executePush(i)
      PROVE  LeaderInv'
  <2>1. PICK W \in notify(inPool({"waitWork"})) : poolPc' = sent(poolPc, W, "lead")
    BY <1>1 DEF executePush
  <2>2. W \subseteq inPool({"waitWork"}) /\ UNCHANGED promote
    BY <1>1, NotifiedWait DEF executePush
  <2>3. poolPc' \in [PoolThreads -> Labels]
    BY <2>1, SentShape DEF PoolShape, Labels
  <2>4. \A u \in PoolThreads : poolPc'[u] \in Leading <=> poolPc[u] \in Leading
    BY <2>1, <2>2 DEF sent, inPool, Leading
  <2> QED
    BY <2>2, <2>3, <2>4, KeepLeader
<1>2. CASE destroy
  <2>1. poolPc' = sent(poolPc, inPool({"asleep"}), "follow") /\ UNCHANGED promote
    BY <1>2 DEF destroy, notifyAll
  <2>2. inPool({"asleep"}) \subseteq inPool({"asleep", "none"})
    BY DEF inPool
  <2>3. poolPc' \in [PoolThreads -> Labels]
    BY <2>1, SentShape DEF PoolShape, Labels
  <2>4. \A u \in PoolThreads : poolPc'[u] \in Leading <=> poolPc[u] \in Leading
    BY <2>1, <2>2, SentKeepsLeader
  <2> QED
    BY <2>1, <2>3, <2>4, KeepLeader
<1>3. CASE destroyNotify
  <2>1. poolPc' = sent(poolPc, inPool({"waitWork"}), "lead") /\ UNCHANGED promote
    BY <1>3 DEF destroyNotify, notifyAll
  <2>2. poolPc' \in [PoolThreads -> Labels]
    BY <2>1, SentShape DEF PoolShape, Labels
  <2>3. \A u \in PoolThreads : poolPc'[u] \in Leading <=> poolPc[u] \in Leading
    BY <2>1 DEF sent, inPool, Leading
  <2> QED
    BY <2>1, <2>2, <2>3, KeepLeader
<1>4. ASSUME NEW i \in Items, executeCheck(i)
      PROVE  LeaderInv'
  BY <1>4 DEF executeCheck, PoolShape, OneLeader, inPool
<1>5. CASE destruct
  BY <1>5 DEF destruct, PoolShape, OneLeader, inPool
<1> QED
  BY <1>1, <1>2, <1>3, <1>4, <1>5

LEMMA StutterLeader == LeaderInv /\ UNCHANGED poolVars => LeaderInv'
BY DEF LeaderInv, PoolShape, OneLeader, inPool, poolVars

-----------------------------------------------------------------------------
(* The counters of the pool *)

working == inPool({"run", "execute", "giveBack"})
absent  == inPool({"none"})

CountInv == PoolShape /\ inUse \in 0..sizeMax /\ running \in 0..sizeMax /\ poolDestroyed \in BOOLEAN /\ InUseCounts

\* How many threads there are of any kind.
LEMMA ThreadsCounted ==
  ASSUME NEW S \in SUBSET PoolThreads
  PROVE  IsFiniteSet(S) /\ Cardinality(S) \in Nat /\ sizeMax \in Nat /\ Cardinality(S) \in 0..sizeMax
<1>1. IsFiniteSet(PoolThreads) /\ S \subseteq PoolThreads
  BY PoolAssumption
<1>2. IsFiniteSet(S) /\ Cardinality(S) <= Cardinality(PoolThreads)
  BY <1>1, FS_Subset
<1>3. Cardinality(S) \in Nat /\ Cardinality(PoolThreads) \in Nat
  BY <1>1, <1>2, FS_CardinalityType
<1> QED
  BY <1>2, <1>3 DEF sizeMax

LEMMA InitCounts == PoolInit => CountInv
<1> SUFFICES ASSUME PoolInit PROVE CountInv
  OBVIOUS
<1>1. PoolShape
  BY InitLeader DEF LeaderInv
<1>2. absent = PoolThreads \ Created /\ working = {}
  BY PoolAssumption DEF PoolInit, absent, working, inPool
<1>3. Cardinality(PoolThreads \ Created) = sizeMax - Cardinality(Created) /\ Cardinality({}) = 0
  <2>1. IsFiniteSet(PoolThreads) /\ Created = PoolThreads \cap Created
    BY PoolAssumption
  <2>2. Cardinality(PoolThreads \ Created) = Cardinality(PoolThreads) - Cardinality(PoolThreads \cap Created)
    BY <2>1, FS_Difference
  <2> QED
    BY <2>1, <2>2, FS_EmptySet DEF sizeMax
<1>4. Cardinality(Created) \in 0..sizeMax /\ sizeMax \in Nat
  BY PoolAssumption, ThreadsCounted
<1>5. poolDestroyed = FALSE /\ inUse = 0 /\ running = Cardinality(Created)
  BY DEF PoolInit
<1>6. InUseCounts
  <2>1. running = sizeMax - Cardinality(absent)
    BY <1>2, <1>3, <1>4, <1>5
  <2>2. inUse = Cardinality(working)
    BY <1>2, <1>3, <1>5
  <2> QED
    BY <2>1, <2>2 DEF InUseCounts, absent, working
<1>7. inUse = 0 /\ running = Cardinality(Created)
  BY <1>5
<1>8. inUse \in 0..sizeMax /\ running \in 0..sizeMax
  BY <1>4, <1>7
<1>9. poolDestroyed \in BOOLEAN
  BY <1>5
<1> QED
  BY <1>1, <1>6, <1>8, <1>9 DEF CountInv

\* No thread begins or ends its work, and none is started.
sameKinds ==
  \A u \in PoolThreads :
    /\ poolPc'[u] \in {"run", "execute", "giveBack"} <=> poolPc[u] \in {"run", "execute", "giveBack"}
    /\ poolPc'[u] = "none" <=> poolPc[u] = "none"

LEMMA CountsStay ==
  ASSUME CountInv, PoolShape', UNCHANGED <<inUse, running>>, poolDestroyed' \in {poolDestroyed, TRUE}, sameKinds
  PROVE  CountInv'
<1>1. working' = working /\ absent' = absent
  BY DEF working, absent, inPool, sameKinds
<1>2. sizeMax' = sizeMax
  BY DEF sizeMax
<1> HIDE DEF sizeMax
<1> QED
  BY <1>1, <1>2 DEF CountInv, InUseCounts, working, absent

LEMMA ThreadCounts ==
  ASSUME CountInv, NEW t \in PoolThreads, threadStep(t) \/ executeReturns(t), PoolShape'
  PROVE  CountInv'
<1> USE DEF CountInv
<1>0. sizeMax' = sizeMax
  BY DEF sizeMax
<1>1. CASE follow(t) \/ leadNothing(t) \/ leadTake(t) \/ runItem(t) \/ dropItem(t) \/ executeReturns(t)
  <2>1. UNCHANGED <<inUse, running, poolDestroyed>>
    BY <1>1 DEF follow, leadNothing, leadTake, runItem, dropItem, executeReturns, poolCounts, poolOwner
  <2>2. sameKinds
    BY <1>1 DEF follow, leadNothing, leadTake, runItem, dropItem, executeReturns, PoolShape, sameKinds
  <2> QED
    BY <2>1, <2>2, CountsStay
<1>2. CASE leave(t)
  <2>1. PICK W \in notify(inPool({"asleep"})) : poolPc' = [sent(poolPc, W, "follow") EXCEPT ![t] = "done"]
    BY <1>2 DEF leave
  <2>2. W \subseteq inPool({"asleep"}) /\ poolPc[t] = "leave"
    BY <1>2, NotifiedWait DEF leave
  <2>3. \A u \in PoolThreads : poolPc'[u] = IF u = t THEN "done" ELSE IF u \in W THEN "follow" ELSE poolPc[u]
    BY <2>1 DEF sent
  <2>4. sameKinds
    BY <2>2, <2>3 DEF inPool, sameKinds
  <2> QED
    BY <1>2, <2>4, CountsStay DEF leave, poolCounts, poolOwner
<1>3. CASE giveBack(t)
  <2>1. /\ poolPc[t] = "giveBack" /\ inUse' = countUse(inUse - 1) /\ UNCHANGED <<running, poolDestroyed>>
        /\ \A u \in PoolThreads : poolPc'[u] = IF u = t THEN "follow" ELSE poolPc[u]
    BY <1>3 DEF giveBack, poolOwner, PoolShape
  <2>2. working' = working \ {t} /\ t \in working /\ absent' = absent
    BY <2>1 DEF working, absent, inPool
  <2>3. working \in SUBSET PoolThreads /\ absent \in SUBSET PoolThreads
    BY DEF working, absent, inPool
  <2>4. Cardinality(working') = Cardinality(working) - 1 /\ Cardinality(working) \in 1..sizeMax
    <3>1. IsFiniteSet(working) /\ Cardinality(working) \in 0..sizeMax /\ sizeMax \in Nat
      BY <2>3, ThreadsCounted
    <3>2. Cardinality(working \ {t}) = Cardinality(working) - 1 /\ Cardinality(working \ {t}) \in Nat
      <4>1. Cardinality(working \ {t}) \in Nat
        BY <2>3, ThreadsCounted
      <4> QED
        BY <2>2, <3>1, <4>1, FS_RemoveElement
    <3> HIDE DEF sizeMax
    <3> QED
      BY <2>2, <3>1, <3>2
  <2> HIDE DEF sizeMax
  <2>5. inUse' \in 0..sizeMax /\ (~poolDestroyed => inUse' = Cardinality(working'))
    BY <2>1, <2>4, ThreadsCounted DEF countUse, InUseCounts, working
  <2>6. running = sizeMax - Cardinality(absent)
    BY DEF InUseCounts, absent
  <2> QED
    BY <1>0, <2>1, <2>2, <2>5, <2>6 DEF InUseCounts, working, absent
<1>4. CASE promoteFollower(t)
  <2>1. PICK W \in notify(inPool({"asleep"})),
             new \in (IF ~poolDestroyed /\ grows(inUse') THEN {{n} : n \in inPool({"none"})} ELSE {{}}) :
          /\ running' = running + Cardinality(new)
          /\ poolPc' = [sent(poolPc, W \cup new, "follow") EXCEPT ![t] = "run"]
    BY <1>4 DEF promoteFollower
  <2>2. W \subseteq inPool({"asleep"}) /\ new \subseteq absent
    BY <2>1, NotifiedWait DEF absent
  <2>3. /\ poolPc[t] = "promote" /\ inUse' = countUse(inUse + 1) /\ UNCHANGED poolDestroyed
        /\ \A u \in PoolThreads : poolPc'[u] = IF u = t THEN "run" ELSE IF u \in W \cup new THEN "follow" ELSE poolPc[u]
    BY <1>4, <2>1 DEF promoteFollower, poolOwner, sent
  <2>4. working' = working \cup {t} /\ t \notin working /\ absent' = absent \ new
    BY <2>2, <2>3 DEF working, absent, inPool
  <2>5. /\ working \in SUBSET PoolThreads /\ absent \in SUBSET PoolThreads /\ new \in SUBSET PoolThreads
        /\ working \cup {t} \in SUBSET PoolThreads /\ absent \ new \in SUBSET PoolThreads
    BY <2>2 DEF working, absent, inPool
  <2>6. Cardinality(working') = Cardinality(working) + 1 /\ Cardinality(working') \in 0..sizeMax
    BY <2>4, <2>5, ThreadsCounted, FS_AddElement
  <2>7. Cardinality(absent') = Cardinality(absent) - Cardinality(new) /\ Cardinality(absent') \in 0..sizeMax
    <3>1. Cardinality(absent \ new) = Cardinality(absent) - Cardinality(absent \cap new) /\ absent \cap new = new
      BY <2>2, <2>5, ThreadsCounted, FS_Difference
    <3> QED
      BY <2>4, <2>5, <3>1, ThreadsCounted
  <2>8. Cardinality(new) \in Nat /\ Cardinality(absent) \in 0..sizeMax /\ Cardinality(working) \in Nat /\ sizeMax \in Nat
    BY <2>5, ThreadsCounted
  <2> HIDE DEF sizeMax
  <2>9. inUse' \in 0..sizeMax /\ (~poolDestroyed => inUse' = Cardinality(working'))
    BY <2>3, <2>6, <2>8 DEF countUse, InUseCounts, working
  <2>10. running' = sizeMax - Cardinality(absent') /\ running' \in 0..sizeMax
    <3>1. running = sizeMax - Cardinality(absent)
      BY DEF InUseCounts, absent
    <3> QED
      BY <2>1, <2>7, <2>8, <3>1
  <2> QED
    BY <1>0, <2>3, <2>9, <2>10 DEF InUseCounts, working, absent
<1> QED
  BY <1>1, <1>2, <1>3, <1>4 DEF threadStep

LEMMA CallerCounts ==
  ASSUME CountInv, PoolShape',
         \/ \E i \in Items : executeCheck(i) \/ executePush(i)
         \/ destroy \/ destroyNotify \/ destruct \/ UNCHANGED poolVars
  PROVE  CountInv'
<1>1. UNCHANGED <<inUse, running>> /\ poolDestroyed' \in {poolDestroyed, TRUE}
  BY DEF executeCheck, executePush, destroy, destroyNotify, destruct, poolVars, poolCounts, poolOwner
<1>2. \/ UNCHANGED poolPc
      \/ \E W \in SUBSET inPool({"waitWork"}) : poolPc' = sent(poolPc, W, "lead")
      \/ \E W \in SUBSET inPool({"asleep"}) : poolPc' = sent(poolPc, W, "follow")
  <2>1. ASSUME NEW i \in Items, executePush(i)
        PROVE  \E W \in SUBSET inPool({"waitWork"}) : poolPc' = sent(poolPc, W, "lead")
    BY <2>1, NotifiedWait DEF executePush
  <2>2. CASE destroy
    BY <2>2 DEF destroy, notifyAll
  <2>3. CASE destroyNotify
    BY <2>3 DEF destroyNotify, notifyAll
  <2>4. (\E i \in Items : executeCheck(i)) \/ destruct \/ UNCHANGED poolVars => UNCHANGED poolPc
    BY DEF executeCheck, destruct, poolVars
  <2> QED
    BY <2>1, <2>2, <2>3, <2>4
<1>3. sameKinds
  <2>1. CASE UNCHANGED poolPc
    BY <2>1 DEF sameKinds
  <2>2. ASSUME NEW W \in SUBSET inPool({"waitWork", "asleep"}), NEW label \in {"lead", "follow"},
               poolPc' = sent(poolPc, W, label)
        PROVE  sameKinds
    BY <2>2 DEF sent, inPool, sameKinds
  <2> QED
    BY <1>2, <2>1, <2>2 DEF inPool
<1> QED
  BY <1>1, <1>3, CountsStay

-----------------------------------------------------------------------------
(* The items of the pool *)

ItemTypes ==
  /\ workItems \in Seq(Items) /\ item \in [PoolThreads -> Items \cup {NoItem}]
  /\ execPc \in [Items -> {"idle", "push", "refused", "accepted"}]
  /\ executed \in [Items -> 0..1] /\ dropped \in [Items -> 0..1]
  /\ destroyPc \in {"none", "notify", "join", "freed"}

holds(t, i) == poolPc[t] \in {"promote", "run"} /\ item[t] = i
isHeld(i)   == \E t \in PoolThreads : holds(t, i)
isQueued(i) == \E n \in 1..Len(workItems) : workItems[n] = i

ItemInv ==
  /\ ItemTypes
  /\ \A m, n \in 1..Len(workItems) : workItems[m] = workItems[n] => m = n
  /\ \A t \in PoolThreads : poolPc[t] \in {"promote", "run"} => item[t] \in Items
  /\ \A i \in Items, t, u \in PoolThreads : holds(t, i) /\ holds(u, i) => t = u
  /\ \A i \in Items :
       /\ ~(isQueued(i) /\ isHeld(i))
       /\ isQueued(i) \/ isHeld(i) => execPc[i] = "accepted"
       /\ executed[i] + dropped[i] = IF execPc[i] = "accepted" /\ ~isQueued(i) /\ ~isHeld(i) THEN 1 ELSE 0

PoolInv == LeaderInv /\ CountInv /\ ItemInv

\* A step that moves no item.
LEMMA ItemsStay ==
  ASSUME ItemInv, UNCHANGED <<workItems, executed, dropped>>, ItemTypes',
         \A i \in Items : execPc'[i] = "accepted" <=> execPc[i] = "accepted",
         \A t \in PoolThreads : /\ poolPc'[t] \in {"promote", "run"} <=> poolPc[t] \in {"promote", "run"}
                                /\ poolPc[t] \in {"promote", "run"} => item'[t] = item[t]
  PROVE  ItemInv'
<1>1. \A i \in Items : (isHeld(i)' <=> isHeld(i)) /\ (isQueued(i)' <=> isQueued(i))
  BY DEF isHeld, holds, isQueued
<1>2. \A t \in PoolThreads, i \in Items : holds(t, i)' <=> holds(t, i)
  BY DEF holds
<1> QED
  BY <1>1, <1>2 DEF ItemInv

LEMMA ThreadItems ==
  ASSUME PoolInv, NEW t \in PoolThreads, threadStep(t) \/ executeReturns(t)
  PROVE  ItemInv'
<1> USE DEF PoolInv, ItemInv, CountInv
<1>1. CASE follow(t) \/ leadNothing(t) \/ giveBack(t) \/ executeReturns(t)
  <2>1. UNCHANGED <<workItems, executed, dropped, execPc, destroyPc>>
    BY <1>1 DEF follow, leadNothing, giveBack, executeReturns, poolFates, poolOwner
  <2>2. \A u \in PoolThreads : /\ poolPc'[u] \in {"promote", "run"} <=> poolPc[u] \in {"promote", "run"}
                               /\ poolPc[u] \in {"promote", "run"} => item'[u] = item[u]
    BY <1>1 DEF follow, leadNothing, giveBack, executeReturns, PoolShape, ItemTypes
  <2>3. item' \in [PoolThreads -> Items \cup {NoItem}]
    BY <1>1 DEF follow, leadNothing, giveBack, executeReturns, ItemTypes
  <2>4. ItemTypes'
    BY <2>1, <2>3 DEF ItemTypes
  <2> QED
    BY <2>1, <2>2, <2>4, ItemsStay
<1>2. CASE leave(t)
  <2>1. PICK W \in notify(inPool({"asleep"})) : poolPc' = [sent(poolPc, W, "follow") EXCEPT ![t] = "done"]
    BY <1>2 DEF leave
  <2>2. W \subseteq inPool({"asleep"}) /\ poolPc[t] = "leave"
    BY <1>2, NotifiedWait DEF leave
  <2>3. \A u \in PoolThreads : poolPc'[u] = IF u = t THEN "done" ELSE IF u \in W THEN "follow" ELSE poolPc[u]
    BY <2>1 DEF sent
  <2>4. UNCHANGED <<workItems, executed, dropped, execPc, destroyPc, item>>
    BY <1>2 DEF leave, poolFates, poolOwner
  <2>5. \A u \in PoolThreads : poolPc'[u] \in {"promote", "run"} <=> poolPc[u] \in {"promote", "run"}
    BY <2>2, <2>3 DEF inPool
  <2>6. ItemTypes'
    BY <2>4 DEF ItemTypes
  <2> QED
    BY <2>4, <2>5, <2>6, ItemsStay
<1>3. CASE promoteFollower(t)
  <2>1. PICK W \in notify(inPool({"asleep"})), new \in SUBSET inPool({"none"}) :
          poolPc' = [sent(poolPc, W \cup new, "follow") EXCEPT ![t] = "run"]
    <3> DEFINE added == IF ~poolDestroyed /\ grows(inUse') THEN {{n} : n \in inPool({"none"})} ELSE {{}}
    <3>1. \E W \in notify(inPool({"asleep"})) : \E new \in added :
            poolPc' = [sent(poolPc, W \cup new, "follow") EXCEPT ![t] = "run"]
      BY <1>3, Zenon DEF promoteFollower
    <3>2. added \subseteq SUBSET inPool({"none"})
      OBVIOUS
    <3> HIDE DEF added
    <3> QED
      BY <3>1, <3>2
  <2>2. W \subseteq inPool({"asleep"}) /\ poolPc[t] = "promote"
    BY <1>3, NotifiedWait DEF promoteFollower
  <2>3. \A u \in PoolThreads : poolPc'[u] = IF u = t THEN "run" ELSE IF u \in W \cup new THEN "follow" ELSE poolPc[u]
    BY <2>1 DEF sent
  <2>4. UNCHANGED <<workItems, executed, dropped, execPc, destroyPc, item>>
    BY <1>3 DEF promoteFollower, poolFates, poolOwner
  <2>5. \A u \in PoolThreads : poolPc'[u] \in {"promote", "run"} <=> poolPc[u] \in {"promote", "run"}
    <3>1. \A u \in W \cup new : poolPc[u] \in {"asleep", "none"}
      BY <2>1, <2>2 DEF inPool
    <3> HIDE DEF PoolInv, ItemInv, CountInv
    <3> QED
      BY <2>2, <2>3, <3>1
  <2>6. ItemTypes'
    BY <2>4 DEF ItemTypes
  <2> QED
    BY <2>4, <2>5, <2>6, ItemsStay
<1>4. CASE leadTake(t)
  <2>1. /\ workItems # <<>> /\ workItems' = Tail(workItems) /\ item' = [item EXCEPT ![t] = Head(workItems)]
        /\ poolPc[t] = "lead" /\ poolPc' = [poolPc EXCEPT ![t] = "promote"]
        /\ UNCHANGED <<executed, dropped, execPc, destroyPc>>
    BY <1>4 DEF leadTake, pop, poolFates, poolOwner
  <2>2. /\ Len(workItems) \in Nat /\ Len(workItems) > 0 /\ Head(workItems) = workItems[1] /\ Head(workItems) \in Items
        /\ workItems' \in Seq(Items) /\ Len(workItems') = Len(workItems) - 1
        /\ \A n \in 1..Len(workItems) - 1 : workItems'[n] = workItems[n + 1]
    BY <2>1, EmptySeq, LenProperties, HeadTailProperties DEF ItemTypes
  <2>3. \A i : isQueued(i)' <=> isQueued(i) /\ i # Head(workItems)
    <3>1. \A n \in 2..Len(workItems) : workItems[n] # workItems[1]
      BY <2>2
    <3>2. \A n \in 2..Len(workItems) : n - 1 \in 1..Len(workItems) - 1 /\ workItems'[n - 1] = workItems[n]
      BY <2>2
    <3>3. \A n \in 1..Len(workItems) - 1 : n + 1 \in 2..Len(workItems)
      BY <2>2
    <3>4. \A n \in 1..Len(workItems) : n = 1 \/ n \in 2..Len(workItems)
      BY <2>2
    <3>5. \A n \in 2..Len(workItems) : n \in 1..Len(workItems)
      BY <2>2
    <3> QED
      BY <2>2, <3>1, <3>2, <3>3, <3>4, <3>5 DEF isQueued
  <2>4. isQueued(Head(workItems))
    BY <2>2 DEF isQueued
  <2>5. \A i : \A u \in PoolThreads : holds(u, i)' <=> holds(u, i) \/ (u = t /\ i = Head(workItems))
    BY <2>1 DEF holds, PoolShape, ItemTypes
  <2>6. \A i : isHeld(i)' <=> isHeld(i) \/ i = Head(workItems)
    BY <2>5 DEF isHeld
  <2>7. \A m, n \in 1..Len(workItems') : workItems'[m] = workItems'[n] => m = n
    BY <2>2
  <2>8. ItemTypes'
    BY <2>1, <2>2 DEF ItemTypes
  <2>9. \A u \in PoolThreads : poolPc'[u] \in {"promote", "run"} => item'[u] \in Items
    BY <2>1, <2>2 DEF ItemTypes, PoolShape
  <2>10. \A i \in Items, u, v \in PoolThreads : holds(u, i)' /\ holds(v, i)' => u = v
    BY <2>4, <2>5 DEF isHeld
  <2>11. \A i \in Items :
           /\ ~(isQueued(i)' /\ isHeld(i)')
           /\ isQueued(i)' \/ isHeld(i)' => execPc'[i] = "accepted"
           /\ executed'[i] + dropped'[i] = IF execPc'[i] = "accepted" /\ ~isQueued(i)' /\ ~isHeld(i)' THEN 1 ELSE 0
    BY <2>1, <2>3, <2>4, <2>6
  <2> QED
    BY <2>7, <2>8, <2>9, <2>10, <2>11
<1>5. CASE runItem(t) \/ dropItem(t)
  <2> DEFINE i == item[t]
  <2>1. /\ poolPc[t] = "run" /\ UNCHANGED <<workItems, execPc, destroyPc>>
        /\ \E label \in {"execute", "giveBack"} : poolPc' = [poolPc EXCEPT ![t] = label]
        /\ item' \in {item, [item EXCEPT ![t] = NoItem]}
        /\ \/ executed' = [executed EXCEPT ![i] = @ + 1] /\ UNCHANGED dropped
           \/ dropped' = [dropped EXCEPT ![i] = @ + 1] /\ UNCHANGED executed
    BY <1>5 DEF runItem, dropItem, poolOwner
  <2>2. i \in Items /\ holds(t, i) /\ isHeld(i) /\ ~isQueued(i) /\ execPc[i] = "accepted"
    BY <2>1 DEF holds, isHeld
  <2> HIDE DEF i
  <2>3. \A j : \A u \in PoolThreads : holds(u, j)' <=> holds(u, j) /\ u # t
    BY <2>1 DEF holds, PoolShape, ItemTypes
  <2>4. \A j \in Items : (isHeld(j)' <=> isHeld(j) /\ j # i) /\ (isQueued(j)' <=> isQueued(j))
    <3>1. \A j \in Items : isHeld(j)' <=> isHeld(j) /\ j # i
      <4>1. \A j : holds(t, j) => j = i
        BY DEF holds, i
      <4> QED
        BY <2>2, <2>3, <4>1 DEF isHeld
    <3> QED
      BY <2>1, <3>1 DEF isQueued
  <2>5. executed[i] = 0 /\ dropped[i] = 0
    <3>1. executed[i] + dropped[i] = 0 /\ executed[i] \in 0..1 /\ dropped[i] \in 0..1
      BY <2>2 DEF ItemTypes
    <3> QED
      BY <3>1
  <2>6. /\ executed' \in [Items -> 0..1] /\ dropped' \in [Items -> 0..1]
        /\ \A j \in Items : executed'[j] + dropped'[j] = IF j = i THEN 1 ELSE executed[j] + dropped[j]
    <3>1. executed \in [Items -> 0..1] /\ dropped \in [Items -> 0..1]
      BY DEF ItemTypes
    <3>2. CASE executed' = [executed EXCEPT ![i] = @ + 1] /\ UNCHANGED dropped
      BY <2>2, <2>5, <3>1, <3>2
    <3>3. CASE dropped' = [dropped EXCEPT ![i] = @ + 1] /\ UNCHANGED executed
      BY <2>2, <2>5, <3>1, <3>3
    <3> QED
      BY <2>1, <3>2, <3>3
  <2>7. ItemTypes'
    BY <2>1, <2>6 DEF ItemTypes
  <2>8. \A u \in PoolThreads : poolPc'[u] \in {"promote", "run"} => item'[u] \in Items
    BY <2>1 DEF ItemTypes, PoolShape
  <2>9. \A j \in Items, u, v \in PoolThreads : holds(u, j)' /\ holds(v, j)' => u = v
    BY <2>3
  <2>10. \A j \in Items :
           /\ ~(isQueued(j)' /\ isHeld(j)')
           /\ isQueued(j)' \/ isHeld(j)' => execPc'[j] = "accepted"
           /\ executed'[j] + dropped'[j] = IF execPc'[j] = "accepted" /\ ~isQueued(j)' /\ ~isHeld(j)' THEN 1 ELSE 0
    BY <2>1, <2>2, <2>4, <2>6
  <2>11. \A m, n \in 1..Len(workItems') : workItems'[m] = workItems'[n] => m = n
    BY <2>1
  <2> QED
    BY <2>7, <2>8, <2>9, <2>10, <2>11
<1> QED
  BY <1>1, <1>2, <1>3, <1>4, <1>5 DEF threadStep

LEMMA CallerItems ==
  ASSUME PoolInv,
         \/ \E i \in Items : executeCheck(i) \/ executePush(i)
         \/ destroy \/ destroyNotify \/ destruct \/ UNCHANGED poolVars
  PROVE  ItemInv'
<1> USE DEF PoolInv, ItemInv, CountInv
<1>1. ASSUME NEW i \in Items, executePush(i)
      PROVE  ItemInv'
  <2>1. PICK W \in notify(inPool({"waitWork"})) : poolPc' = sent(poolPc, W, "lead")
    BY <1>1 DEF executePush
  <2>2. /\ workItems' = Append(workItems, i) /\ execPc[i] = "push" /\ execPc' = [execPc EXCEPT ![i] = "accepted"]
        /\ UNCHANGED <<destroyPc, item, executed, dropped>>
    BY <1>1 DEF executePush, poolOwner, poolFates
  <2>3. ~isQueued(i) /\ ~isHeld(i)
    BY <2>2
  <2>4. /\ workItems' \in Seq(Items) /\ Len(workItems') = Len(workItems) + 1 /\ Len(workItems) \in Nat
        /\ \A n \in 1..Len(workItems) : workItems'[n] = workItems[n]
        /\ workItems'[Len(workItems) + 1] = i
    BY <2>2, AppendProperties, LenProperties DEF ItemTypes
  <2>5. \A j : isQueued(j)' <=> isQueued(j) \/ j = i
    BY <2>4 DEF isQueued
  <2>6. \A m, n \in 1..Len(workItems') : workItems'[m] = workItems'[n] => m = n
    <3>1. \A n \in 1..Len(workItems) : workItems[n] # i
      BY <2>3 DEF isQueued
    <3> QED
      BY <2>4, <3>1
  <2>7. \A j : \A u \in PoolThreads : holds(u, j)' <=> holds(u, j)
    <3>1. W \subseteq inPool({"waitWork"})
      BY NotifiedWait
    <3> QED
      BY <2>1, <2>2, <3>1 DEF holds, sent, inPool
  <2>8. \A j : isHeld(j)' <=> isHeld(j)
    BY <2>7 DEF isHeld
  <2>9. ItemTypes' /\ \A j \in Items : execPc'[j] = IF j = i THEN "accepted" ELSE execPc[j]
    BY <2>2, <2>4 DEF ItemTypes
  <2>10. \A u \in PoolThreads : poolPc'[u] \in {"promote", "run"} => item'[u] \in Items
    BY <2>1, <2>2 DEF sent
  <2>11. \A j \in Items, u, v \in PoolThreads : holds(u, j)' /\ holds(v, j)' => u = v
    BY <2>7
  <2>12. \A j \in Items :
           /\ ~(isQueued(j)' /\ isHeld(j)')
           /\ isQueued(j)' \/ isHeld(j)' => execPc'[j] = "accepted"
           /\ executed'[j] + dropped'[j] = IF execPc'[j] = "accepted" /\ ~isQueued(j)' /\ ~isHeld(j)' THEN 1 ELSE 0
    BY <2>2, <2>3, <2>5, <2>8, <2>9
  <2> QED
    BY <2>6, <2>9, <2>10, <2>11, <2>12
<1>2. CASE destroy \/ destroyNotify
  <2>1. UNCHANGED <<workItems, executed, dropped, execPc, item>> /\ destroyPc' \in {"notify", "join"}
    BY <1>2 DEF destroy, destroyNotify, poolFates
  <2>2. \E W \in SUBSET inPool({"asleep", "waitWork"}), label \in {"follow", "lead"} : poolPc' = sent(poolPc, W, label)
    <3>1. inPool({"asleep"}) \subseteq inPool({"asleep", "waitWork"}) /\ inPool({"waitWork"}) \subseteq inPool({"asleep", "waitWork"})
      BY DEF inPool
    <3> QED
      BY <1>2, <3>1 DEF destroy, destroyNotify, notifyAll
  <2>3. \A t \in PoolThreads : poolPc'[t] \in {"promote", "run"} <=> poolPc[t] \in {"promote", "run"}
    BY <2>2 DEF sent, inPool
  <2>4. ItemTypes'
    BY <2>1 DEF ItemTypes
  <2> QED
    BY <2>1, <2>3, <2>4, ItemsStay
<1>3. ASSUME NEW i \in Items, executeCheck(i)
      PROVE  ItemInv'
  <2>1. /\ UNCHANGED <<workItems, executed, dropped, poolPc, item, destroyPc>> /\ execPc[i] = "idle"
        /\ \E l \in {"refused", "push"} : execPc' = [execPc EXCEPT ![i] = l]
    BY <1>3 DEF executeCheck, poolFates, poolOwner
  <2>2. ItemTypes' /\ \A j \in Items : execPc'[j] = "accepted" <=> execPc[j] = "accepted"
    BY <2>1 DEF ItemTypes
  <2> QED
    BY <2>1, <2>2, ItemsStay
<1>4. CASE destruct
  <2>1. /\ UNCHANGED <<poolPc, item, execPc, executed>> /\ workItems' = <<>> /\ destroyPc' = "freed"
        /\ inPool({"none", "done"}) = PoolThreads
        /\ dropped' = [i \in Items |-> IF isQueued(i) THEN dropped[i] + 1 ELSE dropped[i]]
    BY <1>4 DEF destruct, Contains, isQueued
  <2>2. \A i : \A t \in PoolThreads : ~holds(t, i) /\ ~holds(t, i)'
    BY <2>1 DEF holds, inPool
  <2>3. \A i \in Items : ~isHeld(i) /\ ~isHeld(i)' /\ ~isQueued(i)'
    <3>1. Len(<<>>) = 0
      OBVIOUS
    <3> QED
      BY <2>1, <2>2, <3>1 DEF isHeld, isQueued
  <2>4. ASSUME NEW i \in Items
        PROVE  /\ dropped'[i] \in 0..1
               /\ executed'[i] + dropped'[i] = IF execPc'[i] = "accepted" /\ ~isQueued(i)' /\ ~isHeld(i)' THEN 1 ELSE 0
    <3>1. executed[i] \in 0..1 /\ dropped[i] \in 0..1
      BY DEF ItemTypes
    <3> QED
      BY <2>1, <2>3, <3>1
  <2>5. ItemTypes'
    <3>1. workItems' \in Seq(Items)
      BY <2>1
    <3>2. dropped' \in [Items -> 0..1]
      BY <2>1, <2>4
    <3> QED
      BY <2>1, <3>1, <3>2 DEF ItemTypes
  <2>6. \A m, n \in 1..Len(workItems') : workItems'[m] = workItems'[n] => m = n
    BY <2>1
  <2>7. \A u \in PoolThreads : poolPc'[u] \in {"promote", "run"} => item'[u] \in Items
    BY <2>1
  <2> QED
    BY <2>2, <2>3, <2>4, <2>5, <2>6, <2>7
<1>5. CASE UNCHANGED poolVars
  <2>1. UNCHANGED <<workItems, executed, dropped, poolPc, item, execPc, destroyPc>>
    BY <1>5 DEF poolVars, poolFates, poolOwner
  <2> QED
    BY <2>1, ItemsStay DEF ItemTypes
<1> QED
  BY <1>1, <1>2, <1>3, <1>4, <1>5

LEMMA InitItems == PoolInit => ItemInv
<1> SUFFICES ASSUME PoolInit PROVE ItemInv
  OBVIOUS
<1>1. \A i : ~isQueued(i) /\ ~isHeld(i)
  <2>1. Len(<<>>) = 0
    OBVIOUS
  <2> QED
    BY <2>1 DEF PoolInit, isQueued, isHeld, holds
<1>2. ItemTypes
  BY DEF PoolInit, ItemTypes
<1>3. \A t \in PoolThreads : poolPc[t] \notin {"promote", "run"}
  BY DEF PoolInit
<1> QED
  BY <1>1, <1>2, <1>3 DEF PoolInit, ItemInv, holds

LEMMA PoolStep ==
  ASSUME PoolInv, [PoolNext]_poolVars
  PROVE  PoolInv'
<1>1. LeaderInv'
  BY ThreadSteps, CallerSteps, StutterLeader DEF PoolInv, PoolNext
<1>2. CountInv'
  BY <1>1, ThreadCounts, CallerCounts DEF PoolInv, LeaderInv, PoolNext
<1>3. ItemInv'
  BY ThreadItems, CallerItems DEF PoolNext
<1> QED
  BY <1>1, <1>2, <1>3 DEF PoolInv

\* The sets by which ItemsOnce counts have one element or none.
LEMMA ItemsCounted == ItemInv => ItemsOnce
<1> SUFFICES ASSUME ItemInv, NEW i \in Items
             PROVE  LET held == {t \in inPool({"promote", "run"}) : item[t] = i}
                        queued == {n \in DOMAIN workItems : workItems[n] = i}
                    IN executed[i] + dropped[i] + Cardinality(held) + Cardinality(queued)
                         = IF execPc[i] = "accepted" THEN 1 ELSE 0
  BY DEF ItemsOnce
<1> DEFINE held == {t \in inPool({"promote", "run"}) : item[t] = i}
           queued == {n \in DOMAIN workItems : workItems[n] = i}
<1>1. Cardinality(held) = IF isHeld(i) THEN 1 ELSE 0
  <2>1. CASE isHeld(i)
    <3>1. PICK t \in PoolThreads : holds(t, i)
      BY <2>1 DEF isHeld
    <3>2. held = {t}
      BY <3>1 DEF ItemInv, holds, inPool
    <3> QED
      BY <2>1, <3>2, FS_Singleton
  <2>2. CASE ~isHeld(i)
    <3>1. held = {}
      BY <2>2 DEF isHeld, holds, inPool
    <3> QED
      BY <2>2, <3>1, FS_EmptySet
  <2> QED
    BY <2>1, <2>2
<1>2. Cardinality(queued) = IF isQueued(i) THEN 1 ELSE 0
  <2>0. DOMAIN workItems = 1..Len(workItems)
    BY DEF ItemInv, ItemTypes
  <2>1. CASE isQueued(i)
    <3>1. PICK n \in 1..Len(workItems) : workItems[n] = i
      BY <2>1 DEF isQueued
    <3>2. queued = {n}
      BY <2>0, <3>1 DEF ItemInv
    <3> QED
      BY <2>1, <3>2, FS_Singleton
  <2>2. CASE ~isQueued(i)
    <3>1. queued = {}
      BY <2>0, <2>2 DEF isQueued
    <3> QED
      BY <2>2, <3>1, FS_EmptySet
  <2> QED
    BY <2>1, <2>2
<1> HIDE DEF held, queued
<1>3. executed[i] \in 0..1 /\ dropped[i] \in 0..1
  BY DEF ItemInv, ItemTypes
<1>4. executed[i] + dropped[i] + Cardinality(held) + Cardinality(queued) = IF execPc[i] = "accepted" THEN 1 ELSE 0
  BY <1>1, <1>2, <1>3 DEF ItemInv
<1> QED
  BY <1>4 DEF held, queued

-----------------------------------------------------------------------------
(* The first token of the timer *)

LEMMA Least ==
  ASSUME NEW S \in SUBSET Nat, S # {}
  PROVE  \E m \in S : \A n \in S : m <= n
<1>1. PICK m \in S : \A n \in S : <<n, m>> \notin OpToRel(<, Nat)
  <2>1. IsWellFoundedOn(OpToRel(<, Nat), Nat) /\ S \subseteq Nat
    BY NatLessThanWellFounded
  <2> QED
    BY <2>1, WFMin
<1>2. \A n \in S : ~(n < m)
  BY <1>1 DEF OpToRel
<1> QED
  BY <1>2

LEMMA ClockTimes ==
  ASSUME clock \in 1..MaxClock, NEW d \in Delays
  PROVE  clock + d \in Times
<1> DEFINE latest == CHOOSE e \in Delays : \A f \in Delays : e >= f
<1>1. latest \in Delays /\ \A f \in Delays : latest >= f
  BY TimerAssumption
<1>2. Times = 1..(MaxClock + latest)
  BY DEF Times
<1> HIDE DEF latest
<1>3. d \in Nat /\ latest \in Nat /\ MaxClock \in Nat /\ d <= latest
  BY <1>1, TimerAssumption
<1> QED
  BY <1>2, <1>3

LEMMA TimesAreNumbers == Times \subseteq Nat \ {0} /\ NoTime \notin Times /\ Tasks \subseteq Nat /\ NoTask \notin Tasks
<1>1. Times \subseteq Nat \ {0}
  <2> DEFINE latest == CHOOSE e \in Delays : \A f \in Delays : e >= f
  <2>1. latest \in Delays
    BY TimerAssumption
  <2>2. Times = 1..(MaxClock + latest)
    BY DEF Times
  <2> HIDE DEF latest
  <2>3. latest \in Nat /\ MaxClock \in Nat
    BY <2>1, TimerAssumption
  <2> QED
    BY <2>2, <2>3
<1> QED
  BY <1>1, TimerAssumption DEF NoTime

\* Tokens that are equal in the order of Token::operator< are one.
Distinct == \A k, l \in tokens : k.time = l.time /\ k.task = l.task => k = l

LEMMA FirstToken ==
  ASSUME tokens \subseteq Tokens, Distinct, tokens # {}
  PROVE  first \in tokens /\ \A l \in tokens : l.time >= first.time
<1> DEFINE times == {k.time : k \in tokens}
<1>1. \A k \in tokens : k.time \in Nat /\ k.task \in Nat
  BY TimesAreNumbers DEF Tokens
<1>2. PICK k1 \in tokens : \A l \in tokens : k1.time <= l.time
  <2>1. times \in SUBSET Nat /\ times # {}
    BY <1>1
  <2>2. \E m \in times : \A n \in times : m <= n
    BY <2>1, Least
  <2> QED
    BY <2>2
<1> DEFINE atOnce == {l \in tokens : l.time = k1.time}
           ids == {l.task : l \in atOnce}
<1>3. PICK k \in atOnce : \A l \in atOnce : k.task <= l.task
  <2>1. ids \in SUBSET Nat /\ ids # {}
    BY <1>1
  <2>2. \E m \in ids : \A n \in ids : m <= n
    BY <2>1, Least
  <2> QED
    BY <2>2
<1>4. k \in tokens /\ \A l \in tokens \ {k} : precedes(k, l)
  <2> SUFFICES ASSUME NEW l \in tokens \ {k} PROVE precedes(k, l)
    BY <1>3
  <2>1. k.time = k1.time /\ k.time <= l.time
    BY <1>2, <1>3
  <2>2. CASE l.time = k.time
    <3>1. k.task <= l.task /\ k.task # l.task
      BY <1>3, <2>1, <2>2 DEF Distinct
    <3> QED
      BY <1>1, <1>3, <2>2, <3>1 DEF precedes
  <2>3. CASE l.time # k.time
    BY <1>1, <1>3, <2>1, <2>3 DEF precedes
  <2> QED
    BY <2>2, <2>3
<1>5. first \in tokens /\ \A l \in tokens \ {first} : precedes(first, l)
  BY <1>4 DEF first
<1>6. ASSUME NEW l \in tokens PROVE l.time >= first.time
  BY <1>1, <1>5 DEF precedes
<1> QED
  BY <1>5, <1>6

-----------------------------------------------------------------------------
(* The sleep of the timer thread *)

SleepInv ==
  /\ TimerTypeOK /\ Distinct /\ NoOversleep
  /\ timerPc = "wait" => wakeUpTime = NoTime
  /\ timerPc = "timedWait" => wakeUpTime \in Times
  /\ timerDestroyed => tokens = {}

\* Inserting a token adds it, or changes nothing.
LEMMA Inserted ==
  ASSUME tokens \subseteq Tokens, Distinct, NEW k \in Tokens, tokens' = insert(k)
  PROVE  /\ tokens' \subseteq Tokens /\ Distinct' /\ tokens' \subseteq tokens \cup {k}
         /\ tokens \subseteq tokens'
         /\ (\A l \in tokens : l.task # k.task) => tokens' = tokens \cup {k}
<1>1. \A l \in tokens \cup {k} : l.time \in Nat /\ l.task \in Nat
  BY TimesAreNumbers DEF Tokens
<1>2. CASE \E l \in tokens : ~precedes(k, l) /\ ~precedes(l, k)
  <2>1. \E l \in tokens : l.task = k.task
    BY <1>1, <1>2 DEF precedes
  <2> QED
    BY <1>2, <2>1 DEF insert, Distinct
<1>3. CASE ~\E l \in tokens : ~precedes(k, l) /\ ~precedes(l, k)
  <2>1. tokens' = tokens \cup {k}
    BY <1>3 DEF insert
  <2>2. \A l \in tokens : ~(l.time = k.time /\ l.task = k.task)
    BY <1>1, <1>3 DEF precedes
  <2> QED
    BY <2>1, <2>2 DEF Distinct
<1> QED
  BY <1>2, <1>3

LEMMA EnqueueSleeps ==
  ASSUME SleepInv, NEW t \in Tasks, NEW d \in Delays, NEW e \in Delays \cup {NoTime}, enqueue(t, clock + d, e)
  PROVE  SleepInv'
<1> USE DEF SleepInv
<1> DEFINE k == [time |-> clock + d, delay |-> e, task |-> t]
<1>1. clock + d \in Times /\ k \in Tokens
  BY ClockTimes DEF TimerTypeOK, Tokens
<1>2. /\ ~timerDestroyed /\ monitorFree /\ tokens' = insert(k) /\ tasks' = mapped(t, clock + d)
      /\ schedules < MaxSchedules /\ schedules' = schedules + 1 /\ cancelled' = cancelled \ {t}
      /\ IF isEarlier(clock + d) THEN timerPc' = (IF asleep THEN "woken" ELSE timerPc) ELSE timerPc' = timerPc
      /\ UNCHANGED <<timerDestroyed, wakeUpTime, clock, token>>
  BY DEF enqueue, notified
<1>3. tokens' \subseteq Tokens /\ Distinct' /\ tokens' \subseteq tokens \cup {k}
  BY <1>1, <1>2, Inserted DEF TimerTypeOK
<1>4. TimerTypeOK'
  <2>1. schedules' \in 0..MaxSchedules
    BY <1>2, TimerAssumption DEF TimerTypeOK
  <2>2. DOMAIN tasks' \subseteq Tasks /\ \A x \in DOMAIN tasks' : tasks'[x] \in Times
    BY <1>1, <1>2 DEF TimerTypeOK, mapped
  <2>3. timerPc' \in {"begin", "scan", "wait", "timedWait", "woken", "run", "done"}
    BY <1>2 DEF TimerTypeOK
  <2> QED
    BY <1>2, <1>3, <2>1, <2>2, <2>3 DEF TimerTypeOK
<1>5. CASE isEarlier(clock + d)
  <2>1. timerPc' \notin {"wait", "timedWait"}
    BY <1>2, <1>5 DEF asleep
  <2> QED
    BY <1>2, <1>3, <1>4, <2>1 DEF NoOversleep
<1>6. CASE ~isEarlier(clock + d)
  <2>1. wakeUpTime # NoTime /\ clock + d >= wakeUpTime /\ k.time = clock + d
    <3>1. wakeUpTime # NoTime /\ ~(clock + d < wakeUpTime)
      BY <1>6 DEF isEarlier
    <3>2. wakeUpTime \in Times \cup {NoTime}
      BY DEF TimerTypeOK
    <3>3. clock + d \in Times /\ Times \subseteq Nat /\ NoTime \in Nat
      BY <1>1, TimesAreNumbers DEF NoTime
    <3>4. wakeUpTime \in Nat /\ clock + d \in Nat
      BY <3>2, <3>3
    <3> HIDE DEF SleepInv
    <3> QED
      BY <3>1, <3>4
  <2>2. timerPc' = timerPc /\ timerPc # "wait"
    BY <1>2, <1>6, <2>1
  <2>3. NoOversleep'
    BY <1>2, <1>3, <2>1, <2>2 DEF NoOversleep
  <2> QED
    BY <1>2, <1>3, <1>4, <2>2, <2>3
<1> QED
  BY <1>5, <1>6

LEMMA SleepStep ==
  ASSUME SleepInv, [TimerNext]_timerVars
  PROVE  SleepInv'
<1> USE DEF SleepInv
<1>1. ASSUME NEW t \in Tasks, schedule(t) \/ scheduleRepeated(t)
      PROVE  SleepInv'
  BY <1>1, EnqueueSleeps DEF schedule, scheduleRepeated
<1>2. ASSUME NEW t \in Tasks, cancel(t)
      PROVE  SleepInv'
  <2>1. /\ tokens' \subseteq tokens /\ tasks' = unmapped(t) /\ cancelled' = cancelled \cup {t}
        /\ UNCHANGED <<timerDestroyed, wakeUpTime, clock, timerPc, token, schedules>>
    BY <1>2 DEF cancel, erase, timerThread
  <2>2. DOMAIN tasks' \subseteq Tasks /\ \A x \in DOMAIN tasks' : tasks'[x] \in Times
    BY <2>1 DEF TimerTypeOK, unmapped
  <2>3. TimerTypeOK'
    BY <2>1, <2>2 DEF TimerTypeOK
  <2> QED
    BY <2>1, <2>3 DEF Distinct, NoOversleep
<1>3. CASE destroyTimer
  <2>1. /\ timerDestroyed' = TRUE /\ tasks' = <<>> /\ tokens' = {}
        /\ timerPc' = (IF asleep THEN "woken" ELSE timerPc)
        /\ UNCHANGED <<wakeUpTime, clock, token, cancelled, schedules>>
    BY <1>3 DEF destroyTimer, notified
  <2>2. DOMAIN tasks' = {}
    BY <2>1
  <2>3. TimerTypeOK'
    <3>1. timerPc' \in {"begin", "scan", "wait", "timedWait", "woken", "run", "done"}
      BY <2>1 DEF TimerTypeOK
    <3>2. timerDestroyed' \in BOOLEAN
      BY <2>1
    <3> QED
      BY <2>1, <2>2, <3>1, <3>2 DEF TimerTypeOK
  <2>4. timerPc' \notin {"wait", "timedWait"}
    BY <2>1 DEF asleep
  <2> QED
    BY <2>1, <2>3, <2>4 DEF Distinct, NoOversleep
<1>4. CASE tick
  <2>1. /\ clock' \in 1..MaxClock
        /\ UNCHANGED <<timerDestroyed, tokens, tasks, wakeUpTime, timerPc, token, cancelled, schedules>>
    BY <1>4, TimerAssumption DEF tick, TimerTypeOK, timerQueue, timerThread
  <2> QED
    BY <2>1 DEF TimerTypeOK, Distinct, NoOversleep
<1>5. CASE timerBegin
  <2>1. /\ timerPc = "begin" /\ ~timerDestroyed /\ token' = NoToken
        /\ \/ tokens' = {} /\ timerPc' = "wait" /\ wakeUpTime' = NoTime
           \/ timerPc' = "scan" /\ UNCHANGED wakeUpTime
        /\ UNCHANGED <<timerDestroyed, clock, cancelled, schedules>>
    BY <1>5 DEF timerBegin
  <2>2. /\ tokens' \subseteq Tokens /\ Distinct'
        /\ DOMAIN tasks' \subseteq Tasks /\ \A x \in DOMAIN tasks' : tasks'[x] \in Times
    <3>1. CASE ~repeats
      <4>1. tokens' = tokens /\ tasks' = tasks
        BY <1>5, <3>1 DEF timerBegin, requeue, timerQueue
      <4> QED
        BY <4>1 DEF TimerTypeOK, Distinct
    <3>2. CASE repeats
      <4> DEFINE k == [token EXCEPT !.time = clock + token.delay]
      <4>1. tokens' = insert(k) /\ tasks' = mapped(token.task, clock + token.delay)
        BY <1>5, <3>2 DEF timerBegin, requeue
      <4>2. token \in Tokens /\ token.delay \in Delays /\ token.task \in Tasks
        BY <3>2 DEF repeats, TimerTypeOK, Tokens, NoToken
      <4>3. clock + token.delay \in Times
        BY <4>2, ClockTimes DEF TimerTypeOK
      <4>4. k \in Tokens
        BY <4>2, <4>3 DEF Tokens
      <4>5. tokens' \subseteq Tokens /\ Distinct'
        BY <4>1, <4>4, Inserted DEF TimerTypeOK
      <4>6. DOMAIN tasks' \subseteq Tasks /\ \A x \in DOMAIN tasks' : tasks'[x] \in Times
        BY <4>1, <4>2, <4>3 DEF TimerTypeOK, mapped
      <4> QED
        BY <4>5, <4>6
    <3> QED
      BY <3>1, <3>2
  <2>3. TimerTypeOK'
    BY <2>1, <2>2 DEF TimerTypeOK
  <2> QED
    BY <2>1, <2>2, <2>3 DEF NoOversleep
<1>6. CASE timerEnd \/ scanEmpty \/ waitTimedOut \/ taskReturns
  <2>1. /\ timerPc' \in {"done", "begin", "woken"}
        /\ UNCHANGED <<timerDestroyed, tokens, tasks, wakeUpTime, clock, token, cancelled, schedules>>
    BY <1>6 DEF timerEnd, scanEmpty, waitTimedOut, taskReturns, timerQueue
  <2> QED
    BY <2>1 DEF TimerTypeOK, Distinct, NoOversleep
<1>7. CASE scanDue
  <2>1. /\ token' = first /\ tokens' = tokens \ {first} /\ timerPc' = "run" /\ tasks' \in {tasks, unmapped(first.task)}
        /\ first \in tokens /\ UNCHANGED <<timerDestroyed, wakeUpTime, clock, cancelled, schedules>>
    BY <1>7, FirstToken DEF scanDue, TimerTypeOK
  <2>2. DOMAIN tasks' \subseteq Tasks /\ \A x \in DOMAIN tasks' : tasks'[x] \in Times
    BY <2>1 DEF TimerTypeOK, unmapped
  <2>3. TimerTypeOK'
    BY <2>1, <2>2 DEF TimerTypeOK
  <2> QED
    BY <2>1, <2>3 DEF Distinct, NoOversleep
<1>8. CASE scanSleep
  <2>1. /\ wakeUpTime' = first.time /\ timerPc' = "timedWait"
        /\ first \in tokens /\ (\A l \in tokens : l.time >= first.time)
        /\ UNCHANGED <<timerDestroyed, tokens, tasks, clock, token, cancelled, schedules>>
    BY <1>8, FirstToken DEF scanSleep, TimerTypeOK, timerQueue
  <2>2. wakeUpTime' \in Times
    BY <2>1 DEF TimerTypeOK, Tokens
  <2> QED
    BY <2>1, <2>2 DEF TimerTypeOK, Distinct, NoOversleep
<1>9. CASE UNCHANGED timerVars
  BY <1>9 DEF timerVars, timerQueue, timerThread, TimerTypeOK, Distinct, NoOversleep
<1> QED
  BY <1>1, <1>2, <1>3, <1>4, <1>5, <1>6, <1>7, <1>8, <1>9 DEF TimerNext, timerStep

LEMMA InitSleeps == TimerInit => SleepInv
<1> SUFFICES ASSUME TimerInit PROVE SleepInv
  OBVIOUS
<1>1. DOMAIN tasks = {} /\ clock \in 1..MaxClock /\ schedules \in 0..MaxSchedules
  BY TimerAssumption DEF TimerInit
<1>2. TimerTypeOK
  BY <1>1 DEF TimerInit, TimerTypeOK
<1> QED
  BY <1>2 DEF TimerInit, SleepInv, Distinct, NoOversleep

-----------------------------------------------------------------------------
(* The tokens of a task *)

atHand(t) == token.task = t /\ token.delay # NoTime

OneInv ==
  /\ cancelled \cap DOMAIN tasks = {}
  /\ timerPc \notin {"begin", "run"} /\ ~timerDestroyed => token = NoToken
  /\ ~timerDestroyed =>
       /\ \A t \in Tasks : (\E k \in tokens : k.task = t) <=> t \in DOMAIN tasks /\ ~atHand(t)
       /\ \A k \in tokens : k.time = tasks[k.task]
       /\ \A k, l \in tokens : k.task = l.task => k = l

\* schedule() and scheduleRepeated() of a task that is not running.
LEMMA EnqueueOne ==
  ASSUME ~ReuseRunning, SleepInv, OneInv, NEW t \in Tasks, NEW d \in Delays, NEW e \in Delays \cup {NoTime},
         enqueue(t, clock + d, e)
  PROVE  OneInv'
<1> DEFINE k == [time |-> clock + d, delay |-> e, task |-> t]
<1>1. clock + d \in Times /\ k \in Tokens /\ k.task = t /\ k.time = clock + d
  BY ClockTimes DEF SleepInv, TimerTypeOK, Tokens
<1>2. /\ ~timerDestroyed /\ timerPc # "scan" /\ t \notin DOMAIN tasks /\ ~atHand(t)
      /\ tokens' = insert(k) /\ cancelled' = cancelled \ {t}
      /\ (timerPc' = timerPc \/ (asleep /\ timerPc' = "woken"))
      /\ UNCHANGED <<timerDestroyed, token>>
  BY DEF enqueue, notified, monitorFree, atHand
<1>3. DOMAIN tasks' = DOMAIN tasks \cup {t} /\ \A x \in DOMAIN tasks' : tasks'[x] = IF x = t THEN clock + d ELSE tasks[x]
  BY DEF enqueue, mapped
<1>4. \A l \in tokens : l.task \in Tasks /\ l.task # t /\ l.task \in DOMAIN tasks
  BY <1>2 DEF OneInv, SleepInv, TimerTypeOK, Tokens
<1> HIDE DEF k
<1>5. tokens' = tokens \cup {k}
  BY <1>1, <1>2, <1>4, Inserted DEF SleepInv, TimerTypeOK
<1>6. timerPc' \notin {"begin", "run"} => token = NoToken
  BY <1>2 DEF OneInv, asleep
<1>7. \A x \in Tasks : atHand(x)' <=> atHand(x)
  BY <1>2 DEF atHand
<1>8. \A x \in Tasks : (\E l \in tokens' : l.task = x) <=> x \in DOMAIN tasks' /\ ~atHand(x)'
  BY <1>1, <1>2, <1>3, <1>5, <1>7 DEF OneInv
<1>9. \A l \in tokens' : l.time = tasks'[l.task]
  BY <1>1, <1>2, <1>3, <1>4, <1>5 DEF OneInv
<1>10. \A l, m \in tokens' : l.task = m.task => l = m
  BY <1>1, <1>2, <1>4, <1>5 DEF OneInv
<1>11. cancelled' \cap DOMAIN tasks' = {}
  BY <1>2, <1>3 DEF OneInv
<1> QED
  BY <1>2, <1>6, <1>8, <1>9, <1>10, <1>11 DEF OneInv

LEMMA OneStep ==
  ASSUME ~ReuseRunning, SleepInv, OneInv, [TimerNext]_timerVars
  PROVE  OneInv'
<1>0. tokens \subseteq Tokens /\ Distinct /\ \A l \in tokens : l.task \in Tasks
  BY DEF SleepInv, TimerTypeOK, Tokens
<1>1. ASSUME NEW t \in Tasks, schedule(t) \/ scheduleRepeated(t)
      PROVE  OneInv'
  BY <1>1, EnqueueOne DEF schedule, scheduleRepeated
<1>2. ASSUME NEW t \in Tasks, cancel(t)
      PROVE  OneInv'
  <2>1. /\ ~timerDestroyed /\ tokens' = {k \in tokens : k.task # t \/ k.time # tasks[t]} /\ t \in DOMAIN tasks
        /\ cancelled' = cancelled \cup {t} /\ UNCHANGED <<timerDestroyed, timerPc, token>>
    BY <1>2 DEF cancel, erase, timerThread
  <2>2. DOMAIN tasks' = DOMAIN tasks \ {t} /\ \A x \in DOMAIN tasks' : tasks'[x] = tasks[x]
    BY <1>2 DEF cancel, unmapped
  <2>3. \A k : k \in tokens' <=> k \in tokens /\ k.task # t
    BY <2>1 DEF OneInv
  <2>4. \A x \in Tasks : atHand(x)' <=> atHand(x)
    BY <2>1 DEF atHand
  <2>5. \A x \in Tasks : (\E l \in tokens' : l.task = x) <=> x \in DOMAIN tasks' /\ ~atHand(x)'
    BY <2>1, <2>2, <2>3, <2>4 DEF OneInv
  <2>6. \A l \in tokens' : l.time = tasks'[l.task]
    <3>1. \A l \in tokens : l.task \in DOMAIN tasks
      BY <1>0, <2>1 DEF OneInv
    <3> QED
      BY <2>1, <2>2, <2>3, <3>1 DEF OneInv
  <2>7. \A l, m \in tokens' : l.task = m.task => l = m
    BY <2>1, <2>3 DEF OneInv
  <2>8. cancelled' \cap DOMAIN tasks' = {}
    BY <2>1, <2>2 DEF OneInv
  <2>9. timerPc' \notin {"begin", "run"} => token' = NoToken
    BY <2>1 DEF OneInv
  <2> QED
    BY <2>5, <2>6, <2>7, <2>8, <2>9 DEF OneInv
<1>3. CASE destroyTimer
  <2>1. timerDestroyed' = TRUE /\ tasks' = <<>> /\ DOMAIN <<>> = {}
    BY <1>3 DEF destroyTimer
  <2> QED
    BY <2>1 DEF OneInv
<1>4. CASE tick
  BY <1>4 DEF tick, timerQueue, timerThread, OneInv, atHand
<1>5. CASE timerBegin
  <2>1. /\ timerPc = "begin" /\ ~timerDestroyed /\ token' = NoToken /\ UNCHANGED <<timerDestroyed, cancelled>>
    BY <1>5 DEF timerBegin
  <2>2. \A x \in Tasks : ~atHand(x)'
    BY <2>1 DEF atHand, NoToken
  <2>3. CASE ~repeats
    <3>1. tokens' = tokens /\ tasks' = tasks
      BY <1>5, <2>3 DEF timerBegin, requeue, timerQueue
    <3>2. \A x \in Tasks : x \in DOMAIN tasks => ~atHand(x)
      BY <2>3 DEF repeats, atHand
    <3>3. \A x \in Tasks : (\E l \in tokens' : l.task = x) <=> x \in DOMAIN tasks' /\ ~atHand(x)'
      BY <2>1, <2>2, <3>1, <3>2 DEF OneInv
    <3> QED
      BY <2>1, <3>1, <3>3 DEF OneInv
  <2>4. CASE repeats
    <3> DEFINE k == [token EXCEPT !.time = clock + token.delay]
    <3>1. tokens' = insert(k) /\ tasks' = mapped(token.task, clock + token.delay)
      BY <1>5, <2>4 DEF timerBegin, requeue
    <3>2. token \in Tokens /\ token.delay \in Delays /\ token.task \in Tasks /\ token.task \in DOMAIN tasks /\ atHand(token.task)
      BY <2>4 DEF repeats, SleepInv, TimerTypeOK, Tokens, NoToken, atHand
    <3>3. clock + token.delay \in Times
      BY <3>2, ClockTimes DEF SleepInv, TimerTypeOK
    <3>4. k \in Tokens /\ k.task = token.task /\ k.time = clock + token.delay
      BY <3>2, <3>3 DEF Tokens
    <3>5. \A l \in tokens : l.task # token.task /\ l.task \in DOMAIN tasks
      BY <1>0, <2>1, <3>2 DEF OneInv
    <3> HIDE DEF k
    <3>6. tokens' = tokens \cup {k}
      BY <1>0, <3>1, <3>4, <3>5, Inserted
    <3>7. /\ DOMAIN tasks' = DOMAIN tasks
          /\ \A x \in DOMAIN tasks : tasks'[x] = IF x = token.task THEN clock + token.delay ELSE tasks[x]
      BY <3>1, <3>2 DEF mapped
    <3>8. \A x \in Tasks : x # token.task => ~atHand(x)
      BY DEF atHand
    <3>9. \A x \in Tasks : (\E l \in tokens' : l.task = x) <=> x \in DOMAIN tasks' /\ ~atHand(x)'
      BY <2>1, <2>2, <3>2, <3>4, <3>6, <3>7, <3>8 DEF OneInv
    <3>10. \A l \in tokens' : l.time = tasks'[l.task]
      BY <2>1, <3>2, <3>4, <3>5, <3>6, <3>7 DEF OneInv
    <3>11. \A l, m \in tokens' : l.task = m.task => l = m
      BY <2>1, <3>4, <3>5, <3>6 DEF OneInv
    <3> QED
      BY <2>1, <3>7, <3>9, <3>10, <3>11 DEF OneInv
  <2> QED
    BY <2>3, <2>4
<1>6. CASE timerEnd \/ scanEmpty \/ waitTimedOut \/ taskReturns
  <2>1. /\ timerPc' \in {"begin", "woken"} \/ timerDestroyed
        /\ timerPc' = "woken" => timerPc = "timedWait"
        /\ UNCHANGED <<timerDestroyed, tokens, tasks, token, cancelled>>
    BY <1>6 DEF timerEnd, scanEmpty, waitTimedOut, taskReturns, timerQueue
  <2>2. timerPc' \notin {"begin", "run"} /\ ~timerDestroyed => token' = NoToken
    BY <2>1 DEF OneInv
  <2>3. \A x \in Tasks : atHand(x)' <=> atHand(x)
    BY <2>1 DEF atHand
  <2> QED
    BY <2>1, <2>2, <2>3 DEF OneInv
<1>7. CASE scanDue
  <2>1. /\ ~timerDestroyed /\ token = NoToken /\ token' = first /\ tokens' = tokens \ {first} /\ timerPc' = "run"
        /\ tasks' = (IF first.delay = NoTime THEN unmapped(first.task) ELSE tasks)
        /\ UNCHANGED <<timerDestroyed, cancelled>>
    BY <1>7 DEF scanDue, scans, OneInv
  <2>2. first \in tokens /\ first.task \in Tasks
    BY <1>0, <1>7, FirstToken DEF scanDue
  <2>3. \A x \in Tasks : ~atHand(x)
    BY <2>1 DEF atHand, NoToken
  <2>4. \A x \in Tasks : (\E l \in tokens : l.task = x) <=> x \in DOMAIN tasks
    BY <2>1, <2>3 DEF OneInv
  <2>5. \A l \in tokens' : l \in tokens /\ l.task # first.task
    BY <2>1, <2>2 DEF OneInv
  <2>6. \A x \in Tasks : x \in DOMAIN tasks' /\ ~atHand(x)' <=> x \in DOMAIN tasks /\ x # first.task
    <3>1. CASE first.delay = NoTime
      BY <2>1, <3>1 DEF atHand, unmapped
    <3>2. CASE first.delay # NoTime
      BY <2>1, <3>2 DEF atHand
    <3> QED
      BY <3>1, <3>2
  <2>7. \A x \in Tasks : (\E l \in tokens' : l.task = x) <=> x \in DOMAIN tasks' /\ ~atHand(x)'
    BY <2>1, <2>4, <2>5, <2>6
  <2>8. \A x \in DOMAIN tasks' : x \in DOMAIN tasks /\ tasks'[x] = tasks[x]
    BY <2>1 DEF unmapped
  <2>9. \A l \in tokens' : l.time = tasks'[l.task]
    <3>1. \A l \in tokens' : l.task \in Tasks /\ l.task \in DOMAIN tasks'
      BY <1>0, <2>5, <2>7
    <3> QED
      BY <2>1, <2>5, <2>8, <3>1 DEF OneInv
  <2>10. \A l, m \in tokens' : l.task = m.task => l = m
    BY <2>1, <2>5 DEF OneInv
  <2>11. cancelled' \cap DOMAIN tasks' = {}
    BY <2>1, <2>8 DEF OneInv
  <2> QED
    BY <2>1, <2>7, <2>9, <2>10, <2>11 DEF OneInv
<1>8. CASE scanSleep
  <2>1. token = NoToken /\ UNCHANGED <<timerDestroyed, tokens, tasks, token, cancelled>>
    BY <1>8 DEF scanSleep, scans, timerQueue, OneInv
  <2>2. \A x \in Tasks : atHand(x)' <=> atHand(x)
    BY <2>1 DEF atHand
  <2> QED
    BY <2>1, <2>2 DEF OneInv
<1>9. CASE UNCHANGED timerVars
  BY <1>9 DEF timerVars, timerQueue, timerThread, OneInv, atHand
<1> QED
  BY <1>1, <1>2, <1>3, <1>4, <1>5, <1>6, <1>7, <1>8, <1>9 DEF TimerNext, timerStep

LEMMA InitOne == TimerInit => OneInv
<1> SUFFICES ASSUME TimerInit PROVE OneInv
  OBVIOUS
<1>1. DOMAIN tasks = {} /\ tokens = {} /\ token = NoToken /\ cancelled = {}
  BY DEF TimerInit
<1> QED
  BY <1>1 DEF OneInv

LEMMA TokensCounted == SleepInv /\ OneInv => OneToken
<1> SUFFICES ASSUME SleepInv, OneInv, NEW t \in Tasks, ~timerDestroyed
             PROVE  LET its == {k \in tokens : k.task = t}
                    IN /\ Cardinality(its) = IF t \in DOMAIN tasks /\ ~atHand(t) THEN 1 ELSE 0
                       /\ \A k \in its : k.time = tasks[t]
  BY DEF OneToken, atHand
<1> DEFINE its == {k \in tokens : k.task = t}
<1>1. \A k \in its : k.time = tasks[t]
  BY DEF OneInv
<1>2. CASE \E k \in tokens : k.task = t
  <2>1. PICK k \in tokens : k.task = t
    BY <1>2
  <2>2. its = {k}
    BY <2>1 DEF OneInv
  <2>3. t \in DOMAIN tasks /\ ~atHand(t)
    BY <1>2 DEF OneInv
  <2> QED
    BY <1>1, <2>2, <2>3, FS_Singleton
<1>3. CASE ~\E k \in tokens : k.task = t
  <2>1. its = {} /\ ~(t \in DOMAIN tasks /\ ~atHand(t))
    BY <1>3 DEF OneInv
  <2> QED
    BY <1>1, <2>1, FS_EmptySet
<1> QED
  BY <1>2, <1>3

-----------------------------------------------------------------------------
(* The two together *)

LEMMA StepOfOne ==
  ASSUME [Next]_vars
  PROVE  [PoolNext]_poolVars /\ [TimerNext]_timerVars
BY DEF Next, vars

\* There is always one leader or one promotion to be taken: the asserts of
\* promoteFollower and EventHandlerThread::run hold in a pool of any size.
THEOREM LeaderUnique == Spec => []OneLeader
<1>1. Init => LeaderInv
  BY InitLeader DEF Init
<1>2. LeaderInv /\ [Next]_vars => LeaderInv'
  BY StepOfOne, ThreadSteps, CallerSteps, StutterLeader DEF PoolNext
<1>3. LeaderInv => OneLeader
  BY DEF LeaderInv
<1> QED
  BY <1>1, <1>2, <1>3, PTL DEF Spec

LEMMA AlwaysPool == Spec => []PoolInv
<1>1. Init => PoolInv
  BY InitLeader, InitCounts, InitItems DEF Init, PoolInv
<1>2. PoolInv /\ [Next]_vars => PoolInv'
  BY StepOfOne, PoolStep
<1> QED
  BY <1>1, <1>2, PTL DEF Spec

LEMMA AlwaysSleeps == Spec => []SleepInv
<1>1. Init => SleepInv
  BY InitSleeps DEF Init
<1>2. SleepInv /\ [Next]_vars => SleepInv'
  BY StepOfOne, SleepStep
<1> QED
  BY <1>1, <1>2, PTL DEF Spec

\* In a pool of any size and for any items, _inUse and _running count what they are said to
\* (the asserts at src/tbsys/src/ThreadPool.cpp:135, 147 and 339), and an accepted item is
\* queued, held by a thread, executed or destroyed, one of these and only once.
THEOREM PoolIsSafe == Spec => []PoolSafe
<1>1. PoolInv => PoolSafe
  BY ItemsCounted DEF PoolInv, CountInv, PoolSafe
<1> QED
  BY <1>1, AlwaysPool, PTL

\* The timer thread never sleeps past a token, for any tasks and delays, and even if tasks
\* are scheduled again while they run (src/tbsys/src/Timer.cpp:136-211).
THEOREM NeverOversleeps == Spec => []NoOversleep
<1>1. SleepInv => NoOversleep
  BY DEF SleepInv
<1> QED
  BY <1>1, AlwaysSleeps, PTL

\* As long as nobody schedules a repeated task again while it runs, a task that is in _tasks
\* has one token, with its time, or is at hand in the timer thread, and the timer does not
\* oversleep.
THEOREM TimerIsSafe ==
  ASSUME ~ReuseRunning
  PROVE  Spec => []TimerSafe
<1>1. Init => OneInv
  BY InitOne DEF Init
<1>2. SleepInv /\ OneInv /\ [Next]_vars => OneInv'
  BY StepOfOne, OneStep
<1>3. SleepInv /\ OneInv => TimerSafe
  BY TokensCounted DEF SleepInv, TimerSafe
<1> QED
  BY <1>1, <1>2, <1>3, AlwaysSleeps, PTL DEF Spec

\* Under the same condition a task that cancel() took off is not started before it is
\* scheduled again.
THEOREM CancelIsFinal ==
  ASSUME ~ReuseRunning
  PROVE  Spec => CancelledNotStarted
<1>1. Init => OneInv
  BY InitOne DEF Init
<1>2. SleepInv /\ OneInv /\ [Next]_vars => OneInv'
  BY StepOfOne, OneStep
<1>3. SleepInv /\ OneInv /\ [Next]_vars
        => [timerPc # "run" /\ timerPc' = "run" => token'.task \notin cancelled]_timerVars
  <2> SUFFICES ASSUME SleepInv, OneInv, TimerNext, timerPc # "run", timerPc' = "run"
               PROVE  token'.task \notin cancelled
    BY StepOfOne
  <2>1. scanDue
    BY DEF TimerNext, timerStep, schedule, scheduleRepeated, enqueue, notified, cancel, destroyTimer, tick, timerThread,
       timerBegin, timerEnd, scanEmpty, scanDue, scanSleep, waitTimedOut, taskReturns
  <2>2. first \in tokens /\ token' = first /\ ~timerDestroyed
    BY <2>1, FirstToken DEF scanDue, scans, SleepInv, TimerTypeOK
  <2>3. first.task \in Tasks
    BY <2>2 DEF SleepInv, TimerTypeOK, Tokens
  <2>4. first.task \in DOMAIN tasks
    BY <2>2, <2>3 DEF OneInv
  <2> QED
    BY <2>2, <2>4 DEF OneInv
<1> QED
  BY <1>1, <1>2, <1>3, AlwaysSleeps, PTL DEF Spec, CancelledNotStarted

OfOnePart == part \in {"pool", "timer"}

\* Every variable of the pool and of the timer has its type: the counters stay within
\* 0.._sizeMax, and no item is executed or destroyed twice.
THEOREM TypesKept == Spec => []TypeOK
<1>1. Init => OfOnePart
  BY DEF Init, OfOnePart
<1>2. OfOnePart /\ [Next]_vars => OfOnePart'
  BY DEF Next, vars, OfOnePart
<1>3. PoolInv /\ SleepInv /\ OfOnePart => TypeOK
  <2>1. PoolInv => CountInv /\ ItemInv
    BY DEF PoolInv
  <2>2. CountInv => PoolShape /\ poolDestroyed \in BOOLEAN /\ inUse \in 0..sizeMax /\ running \in 0..sizeMax
    BY DEF CountInv
  <2>3. ItemInv => ItemTypes
    BY DEF ItemInv
  <2>4. PoolInv => PoolTypeOK
    BY <2>1, <2>2, <2>3, Zenon DEF ItemTypes, PoolShape, Labels, PoolTypeOK
  <2>5. SleepInv => TimerTypeOK
    BY DEF SleepInv
  <2> QED
    BY <2>4, <2>5 DEF TypeOK, OfOnePart
<1> QED
  BY <1>1, <1>2, <1>3, AlwaysPool, AlwaysSleeps, PTL DEF Spec
=============================================================================
