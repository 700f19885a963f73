----------------------------- MODULE ChannelPool -----------------------------
(***************************************************************************)
(* tbnet::ChannelPool with its pointers: the channels of the clusters are  *)
(* chained by _next and _prev into the use list and the free list, and     *)
(* _useMap finds those in use by their id. The id comes from a counter     *)
(* that all pools of the process share, cut to 28 bits.                    *)
(*                                                                         *)
(* Three threads use a pool: who posts allocates, the read/write thread    *)
(* offers (takes out for a reply) and appends, the timeout thread takes    *)
(* the late ones out and puts them back. Every action is a critical        *)
(* section of _mutex; only the counter is outside of it.                   *)
(***************************************************************************)
EXTENDS Integers, FiniteSets

CONSTANTS
  ClusterSize,   \* CHANNEL_CLUSTER_SIZE
  MaxClusters,   \* bound of the clusters
  IdSpace        \* the 2^28 ids; 0 is none of them

ASSUME ChannelPoolAssumption ==
  ClusterSize \in Nat /\ ClusterSize > 2 /\ MaxClusters \in Nat \ {0} /\ IdSpace \in Nat \ {0, 1}

Channels == 1..ClusterSize * MaxClusters
Nil == 0
Never == 2   \* TBNET_MAX_TIME + 1: the packet is not written yet

VARIABLES
  clusters,                          \* how many clusters there are
  next, prev,                        \* _next and _prev
  freeHead, freeTail, useHead, useTail,
  useMap,                            \* _useMap, from ids to channels
  chanId, expire,                    \* _id and _expireTime
  counter,                           \* _globalChannelId modulo IdSpace
  resets,                            \* other pools between their add and their set
  offered, late,                     \* a channel at hand in the read/write thread; the
                                     \* list at hand in the timeout thread
  givenTwice                         \* an id was given that is still in _useMap

pointers == <<next, prev, freeHead, freeTail, useHead, useTail>>
channelVars == <<clusters, pointers, useMap, chanId, expire, counter, resets, offered, late,
                 givenTwice>>

ChannelTypeOK ==
  /\ clusters \in 0..MaxClusters
  /\ {next, prev} \subseteq [Channels -> Channels \cup {Nil}]
  /\ {freeHead, freeTail, useHead, useTail, offered, late} \subseteq Channels \cup {Nil}
  /\ DOMAIN useMap \subseteq 1..IdSpace - 1 /\ \A i \in DOMAIN useMap : useMap[i] \in Channels
  /\ chanId \in [Channels -> 0..IdSpace - 1] /\ expire \in [Channels -> 0..Never]
  /\ counter \in 0..IdSpace - 1 /\ resets \in 0..1 /\ givenTwice \in BOOLEAN

ChannelInit ==
  /\ clusters = 0 /\ next = [c \in Channels |-> Nil] /\ prev = [c \in Channels |-> Nil]
  /\ freeHead = Nil /\ freeTail = Nil /\ useHead = Nil /\ useTail = Nil
  /\ useMap = <<>> /\ chanId = [c \in Channels |-> 0] /\ expire = [c \in Channels |-> 0]
  /\ counter = 1 /\ resets = 0 /\ offered = Nil /\ late = Nil /\ givenTwice = FALSE

-----------------------------------------------------------------------------
(* Chains *)

\* The channels reached from c by a pointer function: those in every set that has c
\* and is closed under it.
closedUnder(f, S) == \A x \in S : f[x] \in S \cup {Nil}
reach(f, c) ==
  {x \in Channels : \A S \in SUBSET Channels : closedUnder(f, S) /\ c \in S \cup {Nil} => x \in S}

\* f with the non-null pointer p set to v.
link(f, p, v) == IF p = Nil THEN f ELSE [f EXCEPT ![p] = v]

\* The use list without c; c keeps its own pointers.
\* Seeded fault: the tail is not looked at.
unlinkUseHead(c) ==
  /\ useHead' = IF c = useHead THEN next[c] ELSE useHead
  /\ UNCHANGED useTail
unlinkUse(c) ==
  /\ useHead' = IF c = useHead THEN next[c] ELSE useHead
  /\ useTail' = IF c = useTail THEN prev[c] ELSE useTail

mapWithout(ids) == [i \in DOMAIN useMap \ ids |-> useMap[i]]

-----------------------------------------------------------------------------

\* The id after the counter value n.
idOf(n) == IF n = 0 THEN 1 ELSE n

\* A new cluster: its first channel is given out, the others are the free list.
clusterOf(k) == k * ClusterSize + 1..(k + 1) * ClusterSize

\* What every allocation does with the channel c.
enterUse(c, n, p, free) ==
  /\ next' = link([free EXCEPT ![c] = Nil], useTail, c)
  /\ prev' = [p EXCEPT ![c] = useTail]
  /\ useHead' = IF useTail = Nil THEN c ELSE useHead
  /\ useTail' = c
  /\ expire' = [expire EXCEPT ![c] = Never]
  /\ chanId' = [chanId EXCEPT ![c] = idOf(n)]
  /\ useMap' = [i \in DOMAIN useMap \cup {idOf(n)} |-> IF i = idOf(n) THEN c ELSE useMap[i]]
  /\ givenTwice' = (givenTwice \/ idOf(n) \in DOMAIN useMap)
  /\ counter' = IF n = 0 THEN 1 ELSE n

allocNew ==
  /\ freeHead = Nil /\ clusters < MaxClusters /\ clusters' = clusters + 1
  /\ LET new == clusterOf(clusters)
         first == clusters * ClusterSize + 1
         last == (clusters + 1) * ClusterSize
     IN /\ freeHead' = first + 1 /\ freeTail' = last
        /\ enterUse(first, (counter + 1) % IdSpace,
                    [c \in Channels |-> IF c \in new /\ c > first + 1 THEN c - 1
                                        ELSE IF c = first + 1 THEN Nil ELSE prev[c]],
                    [c \in Channels |-> IF c \in new /\ c < last THEN c + 1
                                        ELSE IF c = last THEN Nil ELSE next[c]])
  /\ UNCHANGED <<resets, offered, late>>

allocFree ==
  /\ freeHead # Nil
  /\ freeHead' = next[freeHead]
  /\ freeTail' = IF next[freeHead] = Nil THEN Nil ELSE freeTail
  /\ enterUse(freeHead, (counter + 1) % IdSpace, link(prev, next[freeHead], Nil), next)
  /\ UNCHANGED <<clusters, resets, offered, late>>

alloc == ~givenTwice /\ (allocNew \/ allocFree)

\* Another pool takes an id, and sets the counter a step later if it came to 0.
otherAlloc ==
  /\ ~givenTwice /\ counter' = (counter + 1) % IdSpace
  /\ resets' = IF counter' = 0 THEN 1 ELSE resets
  /\ UNCHANGED <<clusters, pointers, useMap, chanId, expire, offered, late, givenTwice>>

otherResets ==
  /\ resets = 1 /\ resets' = 0 /\ counter' = 1
  /\ UNCHANGED <<clusters, pointers, useMap, chanId, expire, offered, late, givenTwice>>

\* The chain from first to last goes to the end of the free list.
toFreeList(first, last, n, p) ==
  /\ next' = link(n, freeTail, first)
  /\ prev' = [p EXCEPT ![first] = freeTail]
  /\ freeHead' = IF freeTail = Nil THEN first ELSE freeHead
  /\ freeTail' = last

\* The pointers around c closed over it.
closed(c) == [n |-> link(next, prev[c], next[c]), p |-> link(prev, next[c], prev[c])]

freeChannel(c) ==
  /\ chanId[c] \in DOMAIN useMap
  /\ useMap' = mapWithout({chanId[c]})
  /\ unlinkUse(c)
  /\ toFreeList(c, c, [closed(c).n EXCEPT ![c] = Nil], closed(c).p)
  /\ chanId' = [chanId EXCEPT ![c] = 0]
  /\ UNCHANGED <<clusters, expire, counter, resets, offered, late, givenTwice>>

offerChannel(i) ==
  /\ offered = Nil /\ i \in DOMAIN useMap
  /\ LET c == useMap[i]
     IN /\ offered' = c
        /\ unlinkUse(c)
        /\ next' = [closed(c).n EXCEPT ![c] = Nil]
        /\ prev' = [closed(c).p EXCEPT ![c] = Nil]
  /\ useMap' = mapWithout({i})
  /\ UNCHANGED <<clusters, freeHead, freeTail, chanId, expire, counter, resets, late,
                 givenTwice>>

appendChannel ==
  /\ offered # Nil
  /\ toFreeList(offered, offered, [next EXCEPT ![offered] = Nil], prev)
  /\ chanId' = [chanId EXCEPT ![offered] = 0] /\ offered' = Nil
  /\ UNCHANGED <<clusters, useHead, useTail, useMap, expire, counter, resets, late,
                 givenTwice>>

\* The end of the late channels at the front of the use list: the first that is
\* not late, or Nil.
firstInTime(now) ==
  LET inTime == {c \in reach(next, useHead) : expire[c] >= now}
  IN IF inTime = {} THEN Nil ELSE CHOOSE c \in inTime : inTime \subseteq reach(next, c)

\* The late part of the use list is cut off before its end c.
\* Seeded fault: the last late channel keeps its pointer into the list.
cutBeforeNot(c) == UNCHANGED next /\ prev' = link(prev, c, Nil)
cutBefore(c) ==
  /\ next' = IF c = Nil THEN next ELSE link(next, prev[c], Nil)
  /\ prev' = link(prev, c, Nil)

getTimeoutList(now) ==
  LET c == firstInTime(now)
  IN /\ late = Nil /\ c # useHead /\ late' = useHead
     /\ useHead' = c /\ useTail' = IF c = Nil THEN Nil ELSE useTail
     /\ cutBefore(c)
     /\ useMap' = mapWithout({chanId[x] : x \in reach(next, useHead) \ reach(next, c)})
     /\ UNCHANGED <<clusters, freeHead, freeTail, chanId, expire, counter, resets, offered,
                    givenTwice>>

appendFreeList ==
  /\ late # Nil /\ late' = Nil
  /\ toFreeList(late, CHOOSE c \in reach(next, late) : next[c] = Nil, next, prev)
  /\ chanId' = [c \in Channels |-> IF c \in reach(next, late) THEN 0 ELSE chanId[c]]
  /\ UNCHANGED <<clusters, useHead, useTail, useMap, expire, counter, resets, offered,
                 givenTwice>>

\* The packet of a channel in use is written.
setExpireTime(c, t) ==
  /\ expire[c] = Never /\ c \in reach(next, useHead) /\ expire' = [expire EXCEPT ![c] = t]
  /\ UNCHANGED <<clusters, pointers, useMap, chanId, counter, resets, offered, late,
                 givenTwice>>

ChannelNext ==
  \/ alloc \/ otherAlloc \/ otherResets \/ appendChannel \/ appendFreeList
  \/ \E c \in reach(next, useHead) : freeChannel(c) \/ setExpireTime(c, 0)
  \/ \E i \in DOMAIN useMap : offerChannel(i)
  \/ getTimeoutList(Never - 1)

-----------------------------------------------------------------------------

\* Whether the chain from head to tail is the same in both directions.
isChain(head, tail) ==
  /\ (head = Nil) = (tail = Nil)
  /\ tail # Nil => next[tail] = Nil /\ tail \in reach(next, head)
  /\ \A c \in reach(next, head) : next[c] # Nil => prev[next[c]] = c

\* A channel of a cluster is in exactly one place: in use, free, at hand for a
\* reply or in the list of late channels; both lists can be walked from either end.
InOnePlace ==
  LET places == <<reach(next, useHead), reach(next, freeHead), {offered} \ {Nil},
                  reach(next, late)>>
  IN /\ isChain(useHead, useTail) /\ isChain(freeHead, freeTail)
     /\ \A c \in 1..clusters * ClusterSize :
          Cardinality({k \in 1..4 : c \in places[k]}) = 1

\* _useMap finds exactly the channels of the use list, each by its own id: a reply
\* is never given to the request of another. So it is until the counter has come
\* round to an id that is still in use, or is set back by a pool while another has
\* gone on (channelpool.cpp:96).
MapIsUseList ==
  ~givenTwice =>
    /\ {useMap[i] : i \in DOMAIN useMap} = reach(next, useHead)
    /\ \A i \in DOMAIN useMap : chanId[useMap[i]] = i
=============================================================================
