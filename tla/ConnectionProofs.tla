-------------------------- MODULE ConnectionProofs --------------------------
(***************************************************************************)
(* Proofs, for any number of requests and any limits, that Connection      *)
(* forgets no packet that it has accepted, and that it implements          *)
(* RequestReply: the handler is called once at most.                       *)
(***************************************************************************)
EXTENDS Connection, FiniteSetTheorems, FunctionTheorems, SequenceTheorems, WellFoundedInduction, TLAPS

Once(s) == \A i, j \in 1..Len(s) : s[i] = s[j] => i = j
apart(s, t) == elements(s) \cap elements(t) = {}

-----------------------------------------------------------------------------
(* Sequences of requests *)

LEMMA ElementsOf ==
  ASSUME NEW s \in Seq(Requests)
  PROVE  /\ Len(s) \in Nat /\ elements(s) \subseteq Requests
         /\ \A i \in 1..Len(s) : s[i] \in elements(s) /\ s[i] \in Requests
         /\ s = <<>> <=> elements(s) = {}
<1>1. /\ Len(s) \in Nat /\ elements(s) \subseteq Requests
      /\ \A i \in 1..Len(s) : s[i] \in elements(s) /\ s[i] \in Requests
  BY DEF elements
<1>2. s = <<>> => elements(s) = {}
  BY DEF elements
<1>3. s # <<>> => s[1] \in elements(s)
  BY <1>1, EmptySeq
<1> QED
  BY <1>1, <1>2, <1>3

LEMMA EmptyElements == <<>> \in Seq(Requests) /\ Len(<<>>) = 0 /\ elements(<<>>) = {} /\ Once(<<>>)
BY DEF elements, Once

LEMMA AppendElement ==
  ASSUME NEW s \in Seq(Requests), NEW r \in Requests
  PROVE  /\ Append(s, r) \in Seq(Requests) /\ Append(s, r) # <<>> /\ Len(Append(s, r)) = Len(s) + 1
         /\ elements(Append(s, r)) = elements(s) \cup {r}
         /\ Once(s) /\ r \notin elements(s) => Once(Append(s, r))
<1>1. /\ Append(s, r) \in Seq(Requests) /\ Append(s, r) # <<>> /\ Len(Append(s, r)) = Len(s) + 1 /\ Len(s) \in Nat
      /\ \A i \in 1..Len(s) : Append(s, r)[i] = s[i]
      /\ Append(s, r)[Len(s) + 1] = r
  BY AppendProperties, LenProperties
<1>2. elements(Append(s, r)) = elements(s) \cup {r}
  <2>1. elements(Append(s, r)) = {Append(s, r)[i] : i \in 1..Len(s)} \cup {Append(s, r)[Len(s) + 1]}
    BY <1>1 DEF elements
  <2>2. {Append(s, r)[i] : i \in 1..Len(s)} = elements(s)
    BY <1>1 DEF elements
  <2> QED
    BY <1>1, <2>1, <2>2
<1>3. ASSUME Once(s), r \notin elements(s)
      PROVE  Once(Append(s, r))
  <2>1. \A i \in 1..Len(s) : s[i] # r
    BY <1>3 DEF elements
  <2> QED
    BY <1>1, <1>3, <2>1 DEF Once
<1> QED
  BY <1>1, <1>2, <1>3

LEMMA ConcatElements ==
  ASSUME NEW s \in Seq(Requests), NEW t \in Seq(Requests)
  PROVE  /\ s \o t \in Seq(Requests) /\ Len(s \o t) = Len(s) + Len(t)
         /\ elements(s \o t) = elements(s) \cup elements(t)
         /\ Once(s) /\ Once(t) /\ apart(s, t) => Once(s \o t)
<1>1. /\ s \o t \in Seq(Requests) /\ Len(s \o t) = Len(s) + Len(t) /\ Len(s) \in Nat /\ Len(t) \in Nat
      /\ \A i \in 1..Len(s) : (s \o t)[i] = s[i]
      /\ \A i \in 1..Len(t) : (s \o t)[Len(s) + i] = t[i]
  BY ConcatProperties, LenProperties
<1>2. \A i \in 1..Len(s \o t) : i \in 1..Len(s) \/ \E j \in 1..Len(t) : i = Len(s) + j
  <2>1. \A i \in 1..Len(s \o t) : i \in 1..Len(s) \/ (i - Len(s) \in 1..Len(t) /\ i = Len(s) + (i - Len(s)))
    BY <1>1
  <2> QED
    BY <2>1
<1>3. elements(s \o t) = elements(s) \cup elements(t)
  <2>1. \A i \in 1..Len(s) : i \in 1..Len(s \o t)
    BY <1>1
  <2>2. \A i \in 1..Len(t) : Len(s) + i \in 1..Len(s \o t)
    BY <1>1
  <2> QED
    BY <1>1, <1>2, <2>1, <2>2 DEF elements
<1>4. ASSUME Once(s), Once(t), apart(s, t)
      PROVE  Once(s \o t)
  <2>1. \A i \in 1..Len(s), j \in 1..Len(t) : s[i] # t[j]
    BY <1>4 DEF apart, elements
  <2> SUFFICES ASSUME NEW i \in 1..Len(s \o t), NEW j \in 1..Len(s \o t), (s \o t)[i] = (s \o t)[j]
               PROVE  i = j
    BY DEF Once
  <2>2. CASE i \in 1..Len(s) /\ j \in 1..Len(s)
    BY <1>1, <1>4, <2>2 DEF Once
  <2>3. CASE i \notin 1..Len(s) /\ j \notin 1..Len(s)
    <3>1. PICK a \in 1..Len(t), b \in 1..Len(t) : i = Len(s) + a /\ j = Len(s) + b
      BY <1>2, <2>3
    <3>2. t[a] = t[b]
      BY <1>1, <3>1
    <3> QED
      BY <1>4, <3>1, <3>2 DEF Once
  <2>4. CASE i \in 1..Len(s) /\ j \notin 1..Len(s)
    BY <1>1, <1>2, <2>1, <2>4
  <2>5. CASE i \notin 1..Len(s) /\ j \in 1..Len(s)
    BY <1>1, <1>2, <2>1, <2>5
  <2> QED
    BY <2>2, <2>3, <2>4, <2>5
<1> QED
  BY <1>1, <1>3, <1>4

LEMMA TailElements ==
  ASSUME NEW s \in Seq(Requests), s # <<>>
  PROVE  /\ Tail(s) \in Seq(Requests) /\ Len(Tail(s)) = Len(s) - 1
         /\ Head(s) \in Requests /\ Head(s) \in elements(s)
         /\ elements(s) = elements(Tail(s)) \cup {Head(s)}
         /\ Once(s) => Once(Tail(s)) /\ Head(s) \notin elements(Tail(s))
<1>1. /\ Len(s) \in Nat /\ Len(s) > 0 /\ Head(s) = s[1] /\ Head(s) \in Requests
      /\ Tail(s) \in Seq(Requests) /\ Len(Tail(s)) = Len(s) - 1
      /\ \A i \in 1..Len(s) - 1 : Tail(s)[i] = s[i + 1]
  BY EmptySeq, LenProperties, HeadTailProperties
<1>2. elements(Tail(s)) = {s[i] : i \in 2..Len(s)}
  <2>1. \A i \in 2..Len(s) : i - 1 \in 1..Len(s) - 1 /\ Tail(s)[i - 1] = s[i]
    BY <1>1
  <2>2. \A i \in 1..Len(s) - 1 : i + 1 \in 2..Len(s)
    BY <1>1
  <2> QED
    BY <1>1, <2>1, <2>2 DEF elements
<1>3. elements(s) = {s[i] : i \in 2..Len(s)} \cup {s[1]}
  BY <1>1 DEF elements
<1>4. ASSUME Once(s)
      PROVE  Once(Tail(s)) /\ Head(s) \notin elements(Tail(s))
  <2>1. Once(Tail(s))
    BY <1>1, <1>4 DEF Once
  <2>2. \A i \in 2..Len(s) : s[i] # s[1]
    BY <1>1, <1>4 DEF Once
  <2> QED
    BY <1>1, <1>2, <2>1, <2>2
<1> QED
  BY <1>1, <1>2, <1>3, <1>4

\* A sequence cut after its n-th element.
LEMMA SplitElements ==
  ASSUME NEW s \in Seq(Requests), NEW n \in 0..Len(s)
  PROVE  LET a == SubSeq(s, 1, n)
             b == SubSeq(s, n + 1, Len(s))
         IN  /\ a \in Seq(Requests) /\ b \in Seq(Requests) /\ Len(a) = n /\ Len(b) = Len(s) - n
             /\ elements(s) = elements(a) \cup elements(b) /\ elements(a) = {s[i] : i \in 1..n}
             /\ Once(s) => Once(a) /\ Once(b) /\ apart(a, b)
<1> DEFINE a == SubSeq(s, 1, n)
           b == SubSeq(s, n + 1, Len(s))
<1>1. /\ Len(s) \in Nat /\ a \in Seq(Requests) /\ b \in Seq(Requests) /\ Len(a) = n /\ Len(b) = Len(s) - n
      /\ \A i \in 1..n : a[i] = s[i]
      /\ \A i \in 1..Len(s) - n : b[i] = s[n + i]
  <2>1. Len(s) \in Nat /\ n \in Int /\ n + 1 \in Int /\ 1 \in Int /\ \A i \in 1..Len(s) : s[i] \in Requests
    BY ElementsOf
  <2>2. (\A i \in 1..n : s[i] \in Requests) /\ (\A i \in n + 1..Len(s) : s[i] \in Requests)
    BY <2>1
  <2>3. /\ a \in Seq(Requests) /\ Len(a) = (IF 1 <= n THEN n - 1 + 1 ELSE 0)
        /\ \A i \in 1..n - 1 + 1 : a[i] = s[1 + i - 1]
    BY <2>1, <2>2, SubSeqProperties
  <2>4. /\ b \in Seq(Requests) /\ Len(b) = (IF n + 1 <= Len(s) THEN Len(s) - (n + 1) + 1 ELSE 0)
        /\ \A i \in 1..Len(s) - (n + 1) + 1 : b[i] = s[n + 1 + i - 1]
    BY <2>1, <2>2, SubSeqProperties
  <2> HIDE DEF a, b
  <2>5. Len(a) = n /\ Len(b) = Len(s) - n
    BY <2>1, <2>3, <2>4
  <2>6. \A i \in 1..n : a[i] = s[i]
    BY <2>1, <2>3
  <2>7. \A i \in 1..Len(s) - n : b[i] = s[n + i]
    <3>1. \A i \in 1..Len(s) - n : i \in 1..Len(s) - (n + 1) + 1 /\ n + 1 + i - 1 = n + i
      BY <2>1
    <3> QED
      BY <2>4, <3>1
  <2> QED
    BY <2>1, <2>3, <2>4, <2>5, <2>6, <2>7
<1> HIDE DEF a, b
<1>2. elements(a) = {s[i] : i \in 1..n}
  BY <1>1 DEF elements
<1>3. elements(b) = {s[i] : i \in n + 1..Len(s)}
  <2>1. \A i \in n + 1..Len(s) : i - n \in 1..Len(s) - n /\ b[i - n] = s[i]
    BY <1>1
  <2>2. \A i \in 1..Len(s) - n : n + i \in n + 1..Len(s) /\ b[i] = s[n + i]
    BY <1>1
  <2>3. elements(b) = {b[i] : i \in 1..Len(s) - n}
    BY <1>1 DEF elements
  <2>4. ASSUME NEW x \in elements(b) PROVE x \in {s[i] : i \in n + 1..Len(s)}
    BY <2>2, <2>3
  <2>5. ASSUME NEW x \in {s[i] : i \in n + 1..Len(s)} PROVE x \in elements(b)
    BY <2>1, <2>3
  <2> QED
    BY <2>4, <2>5
<1>4. elements(s) = elements(a) \cup elements(b)
  <2>1. \A i : i \in 1..Len(s) <=> i \in 1..n \/ i \in n + 1..Len(s)
    BY <1>1
  <2> QED
    BY <1>2, <1>3, <2>1 DEF elements
<1>5. ASSUME Once(s)
      PROVE  Once(a) /\ Once(b) /\ apart(a, b)
  <2>1. Once(a)
    BY <1>1, <1>5 DEF Once
  <2>2. Once(b)
    BY <1>1, <1>5 DEF Once
  <2>3. \A i \in 1..n, j \in n + 1..Len(s) : s[i] # s[j]
    BY <1>1, <1>5 DEF Once
  <2> QED
    BY <1>2, <1>3, <2>1, <2>2, <2>3 DEF apart
<1> QED
  BY <1>1, <1>2, <1>4, <1>5 DEF a, b

\* A set of numbers with a bound has a greatest one: of the intervals that begin after one of
\* them, one has no other inside it.
LEMMA Greatest ==
  ASSUME NEW n \in Nat, NEW K \in SUBSET (0..n), K # {}
  PROVE  \E k \in K : \A j \in K : j <= k
<1> DEFINE T == {j + 1..n : j \in K}
<1>1. IsWellFoundedOn(StrictSubsetOrdering(1..n), SUBSET (1..n))
  <2>1. IsFiniteSet(1..n)
    <3>1. 1 \in Int /\ n \in Int
      OBVIOUS
    <3> QED
      BY <3>1, FS_Interval
  <2>2. FiniteSubsetsOf(1..n) = SUBSET (1..n)
    BY <2>1, FS_FiniteSubsetsOfFinite
  <2>3. IsWellFoundedOn(StrictSubsetOrdering(1..n), FiniteSubsetsOf(1..n))
    BY FS_StrictSubsetOrderingWellFounded
  <2> QED
    BY <2>2, <2>3
<1>2. T \subseteq SUBSET (1..n) /\ T # {}
  <2>1. \A j \in K : j \in Nat /\ j + 1..n \subseteq 1..n
    OBVIOUS
  <2> QED
    BY <2>1
<1>3. PICK x \in T : \A y \in T : <<y, x>> \notin StrictSubsetOrdering(1..n)
  <2> HIDE DEF T
  <2> QED
    BY <1>1, <1>2, WFMin
<1>4. PICK k \in K : x = k + 1..n
  BY <1>3
<1>5. ASSUME NEW j \in K, ~(j <= k)
      PROVE  FALSE
  <2>1. j \in 0..n /\ k \in 0..n /\ k < j
    BY <1>5
  <2>2. (j + 1..n) \subseteq (k + 1..n) /\ k + 1 \in k + 1..n /\ k + 1 \notin j + 1..n
    BY <2>1
  <2>3. <<j + 1..n, x>> \in StrictSubsetOrdering(1..n)
    <3>1. (j + 1..n) \in SUBSET (1..n) /\ x \in SUBSET (1..n)
      BY <1>2, <1>3
    <3>2. (j + 1..n) \subseteq x /\ (j + 1..n) # x
      BY <1>4, <2>2
    <3> QED
      BY <3>1, <3>2 DEF StrictSubsetOrdering
  <2> QED
    BY <1>3, <2>3
<1> QED
  BY <1>5

\* getTimeoutList cuts the sequence where the first element that has not expired stands.
LEMMA PrefixElements ==
  ASSUME NEW s \in Seq(Requests), NEW S
  PROVE  LET p == prefixIn(s, S)
             w == without(s, p)
         IN  /\ p \in Seq(Requests) /\ w \in Seq(Requests) /\ Len(w) <= Len(s)
             /\ elements(s) = elements(p) \cup elements(w) /\ elements(p) \subseteq S
             /\ Once(s) => Once(p) /\ Once(w) /\ apart(p, w)
<1> DEFINE K == {k \in 0..Len(s) : \A i \in 1..k : s[i] \in S}
           p == prefixIn(s, S)
           w == without(s, p)
<1>1. Len(s) \in Nat
  BY ElementsOf
<1>2. PICK k \in K : \A j \in K : j <= k
  <2>1. 0 \in K
    BY <1>1
  <2>2. K \in SUBSET (0..Len(s))
    OBVIOUS
  <2> HIDE DEF K
  <2> QED
    BY <1>1, <2>1, <2>2, Greatest
<1>3. k \in 0..Len(s) /\ (\A i \in 1..k : s[i] \in S) /\ (k = Len(s) \/ s[k + 1] \notin S)
  <2>1. CASE k # Len(s) /\ s[k + 1] \in S
    <3>1. k + 1 \in 0..Len(s) /\ \A i \in 1..k + 1 : s[i] \in S
      BY <1>1, <1>2, <2>1
    <3>2. k + 1 \in K
      BY <3>1
    <3> QED
      BY <1>1, <1>2, <3>2
  <2> QED
    BY <1>2, <2>1
<1>4. PICK n \in 0..Len(s) : (\A i \in 1..n : s[i] \in S) /\ p = SubSeq(s, 1, n)
  <2> DEFINE good(m) == (\A i \in 1..m : s[i] \in S) /\ (m = Len(s) \/ s[m + 1] \notin S)
             c == CHOOSE m \in 0..Len(s) : good(m)
  <2>1. good(k)
    BY <1>3
  <2>2. p = SubSeq(s, 1, c)
    BY DEF prefixIn
  <2>3. c \in 0..Len(s) /\ good(c)
    <3> HIDE DEF good
    <3> QED
      BY <1>3, <2>1
  <2> QED
    BY <2>2, <2>3
<1> HIDE DEF K, p, w
<1>5. /\ p \in Seq(Requests) /\ Len(p) = n /\ elements(p) = {s[i] : i \in 1..n}
  BY <1>4, SplitElements
<1>6. w = SubSeq(s, n + 1, Len(s))
  BY <1>5 DEF w, without
<1>7. /\ w \in Seq(Requests) /\ Len(w) = Len(s) - n /\ elements(s) = elements(p) \cup elements(w)
      /\ Once(s) => Once(p) /\ Once(w) /\ apart(p, w)
  BY <1>4, <1>6, SplitElements
<1>8. elements(p) \subseteq S /\ Len(w) <= Len(s)
  BY <1>1, <1>4, <1>5, <1>7
<1> QED
  BY <1>5, <1>7, <1>8 DEF p, w

\* Unlinking an element leaves the others, in a list that has each of them once.
LEMMA UnlinkElements ==
  ASSUME NEW s \in Seq(Requests), Once(s), NEW r \in elements(s)
  PROVE  unlink(s, r) \in Seq(Requests) /\ Once(unlink(s, r)) /\ elements(unlink(s, r)) = elements(s) \ {r}
<1>1. PICK n \in 1..Len(s) : s[n] = r /\ unlink(s, r) = SubSeq(s, 1, n - 1) \o SubSeq(s, n + 1, Len(s))
  <2>1. \E i \in 1..Len(s) : s[i] = r
    BY DEF elements
  <2> QED
    BY <2>1 DEF unlink
<1> DEFINE a == SubSeq(s, 1, n - 1)
           b == SubSeq(s, n + 1, Len(s))
           h == SubSeq(s, 1, n)
<1>2. Len(s) \in Nat /\ n - 1 \in 0..Len(s) /\ n \in 0..Len(s) /\ n - 1 + 1 = n
  BY ElementsOf
<1>3. /\ h \in Seq(Requests) /\ b \in Seq(Requests) /\ elements(s) = elements(h) \cup elements(b)
      /\ elements(h) = {s[i] : i \in 1..n} /\ Once(b) /\ apart(h, b)
  BY <1>2, SplitElements
<1>4. a \in Seq(Requests) /\ elements(a) = {s[i] : i \in 1..n - 1} /\ Once(a)
  BY <1>2, SplitElements
<1> HIDE DEF a, b, h
<1>5. elements(h) = elements(a) \cup {r}
  <2>1. \A i : i \in 1..n <=> i \in 1..n - 1 \/ i = n
    OBVIOUS
  <2> QED
    BY <1>1, <1>3, <1>4, <2>1
<1>6. r \notin elements(a)
  <2>1. \A i \in 1..n - 1 : i \in 1..Len(s) /\ i # n
    BY <1>2
  <2> QED
    BY <1>1, <1>4, <2>1 DEF Once
<1>7. r \notin elements(b) /\ apart(a, b)
  BY <1>3, <1>5 DEF apart
<1>8. elements(s) \ {r} = elements(a) \cup elements(b)
  BY <1>3, <1>5, <1>6, <1>7
<1>9. unlink(s, r) = a \o b
  BY <1>1 DEF a, b
<1> QED
  BY <1>3, <1>4, <1>7, <1>8, <1>9, ConcatElements

\* A list that has each element once is as long as the set of its elements is large.
LEMMA OnceCount ==
  ASSUME NEW s \in Seq(Requests), Once(s)
  PROVE  IsFiniteSet(elements(s)) /\ Cardinality(elements(s)) = Len(s)
<1> DEFINE f == [i \in 1..Len(s) |-> s[i]]
<1>1. Len(s) \in Nat /\ IsFiniteSet(1..Len(s)) /\ Cardinality(1..Len(s)) = Len(s)
  <2>1. Len(s) \in Nat /\ Len(s) \in Int /\ 1 \in Int
    BY ElementsOf
  <2>2. IsFiniteSet(1..Len(s)) /\ Cardinality(1..Len(s)) = (IF 1 > Len(s) THEN 0 ELSE Len(s) - 1 + 1)
    BY <2>1, FS_Interval
  <2> QED
    BY <2>1, <2>2
<1>2. f \in Bijection(1..Len(s), elements(s))
  BY DEF Bijection, Injection, Surjection, IsInjective, Once, elements
<1> HIDE DEF f
<1> QED
  BY <1>1, <1>2, FS_Bijection DEF ExistsBijection

-----------------------------------------------------------------------------
(* The invariant *)

Types ==
  /\ conn \in {"CONNECTING", "CONNECTED", "CLOSED"} /\ writeOn \in BOOLEAN
  /\ outputQueue \in Seq(Requests) /\ myQueue \in Seq(Requests) /\ outbuf \in Seq(Requests)
  /\ wire \subseteq Requests /\ replies \subseteq Requests
  /\ useList \in Seq(Requests) /\ useMap \subseteq Requests
  /\ armed \subseteq Requests /\ late \subseteq Requests /\ queueTotal \in Nat
  /\ pc \in [Requests -> {"idle", "limit", "alloc", "push", "count", "waiting", "accepted", "refused"}]
  /\ woken \subseteq Requests
  /\ rwPc \in {"idle", "write", "writeEnd", "writeNotify", "callback", "closing"}
  /\ queueSize \in Nat /\ offered \subseteq Requests
  /\ ctPc \in [Threads -> {"idle", "channels", "callChannels", "packets", "callPackets", "notify", "done"}]
  /\ ctList \in [Threads -> Seq(Requests)] /\ ctPackets \in [Threads -> Seq(Requests)]
  /\ calls \in [Requests -> Nat]

\* The lists of the pool, of the queues and of the two checkTimeouts have an element once.
PoolInv == Once(useList) /\ useMap = elements(useList)

ListsOnce ==
  /\ Once(outputQueue) /\ Once(myQueue) /\ apart(outputQueue, myQueue)
  /\ \A t \in Threads : Once(ctList[t]) /\ Once(ctPackets[t])
  /\ \A t, u \in Threads : t # u => apart(ctList[t], ctList[u]) /\ apart(ctPackets[t], ctPackets[u])

\* The places of a request that has yet to be answered.
inQueue(r)   == r \in elements(outputQueue) \cup elements(myQueue)
lateInQueue(r) == \E t \in Threads : r \in elements(ctPackets[t])
lateInPool(r)  == \E t \in Threads : r \in elements(ctList[t])

\* A request in a queue has an unarmed channel; one that was encoded an armed one; one that
\* somebody is about to answer through its channel has none any more.
PlacesInv ==
  \A r \in Requests :
    /\ inQueue(r) \/ lateInQueue(r) => r \in useMap \ armed
    /\ ~(inQueue(r) /\ lateInQueue(r))
    /\ lateInPool(r) \/ r \in offered => r \in armed \ useMap
    /\ ~(lateInPool(r) /\ r \in offered)
    /\ r \in elements(outbuf) \cup wire \cup replies => r \in armed

\* The phases of postPacket: before allocChannel or refused, and after the push.
fresh(r)  == pc[r] \in {"idle", "limit", "alloc", "refused"}
pushed(r) == pc[r] \in {"count", "waiting", "accepted"}

\* Who may still be answered has not been.
CallsInv ==
  \A r \in Requests :
    /\ calls[r] \in {0, 1}
    /\ r \in useMap \/ lateInPool(r) \/ r \in offered => calls[r] = 0
    /\ fresh(r) => r \notin useMap \cup armed /\ calls[r] = 0
    /\ pc[r] = "push" => r \in useMap \ armed /\ ~inQueue(r) /\ ~lateInQueue(r)
    /\ pushed(r) =>
         inQueue(r) \/ lateInQueue(r) \/ lateInPool(r) \/ r \in offered \/ calls[r] = 1 \/ r \in armed \cap useMap

\* Where the two threads are, and what they hold.
ThreadsInv ==
  /\ \A t \in Threads : /\ ctPc[t] = "callChannels" <=> ctList[t] # <<>>
                        /\ ctPc[t] = "callPackets" <=> ctPackets[t] # <<>>
  /\ ctPc["rw"] = "idle" <=> rwPc # "closing"
  /\ rwPc = "callback" <=> offered # {}
  /\ \A r, q \in offered : r = q
  /\ rwPc \in {"write", "writeEnd", "writeNotify", "callback"} => conn = "CONNECTED"
  /\ rwPc = "closing" => isConnectState
  /\ conn # "CONNECTED" \/ rwPc = "closing" => myQueue = <<>>

\* EPOLLOUT is asked for as long as there is something to write.
WriteInv ==
  conn = "CONNECTED" /\ rwPc # "closing" =>
    (outputQueue # <<>> \/ myQueue # <<>> \/ outbuf # <<>> \/ rwPc \in {"write", "writeEnd"} => writeOn)

Held == PoolInv /\ ListsOnce /\ PlacesInv /\ CallsInv

IInv == Types /\ Held /\ ThreadsInv /\ WriteInv

-----------------------------------------------------------------------------
(* Where the requests are *)

\* A step that moves no request: the socket, the counters and the phases of postPacket.
LEMMA MovesNothing ==
  ASSUME Types, Held, UNCHANGED <<queues, pool, ctList, ctPackets, offered, calls>>,
         (elements(outbuf) \cup wire \cup replies)' \subseteq elements(outbuf) \cup wire \cup replies,
         \A r \in Requests : \/ pc'[r] = pc[r]
                             \/ fresh(r) /\ fresh(r)'
                             \/ pushed(r) /\ pushed(r)'
  PROVE  Held'
<1>1. /\ UNCHANGED <<outputQueue, myQueue, useList, useMap, armed, ctList, ctPackets, offered, calls>>
      /\ \A s : elements(s)' = elements(s)
  BY DEF queues, pool
<1>2. PoolInv' /\ ListsOnce'
  BY <1>1 DEF Held, PoolInv, ListsOnce
<1>3. \A r \in Requests : /\ inQueue(r)' <=> inQueue(r)
                          /\ lateInQueue(r)' <=> lateInQueue(r)
                          /\ lateInPool(r)' <=> lateInPool(r)
  BY <1>1 DEF inQueue, lateInQueue, lateInPool
<1>4. PlacesInv'
  BY <1>1, <1>3 DEF Held, PlacesInv
<1>5. CallsInv'
  <2> SUFFICES ASSUME NEW r \in Requests
               PROVE  /\ fresh(r)' => fresh(r)
                      /\ pushed(r)' => pushed(r)
                      /\ pc'[r] = "push" => pc[r] = "push"
    BY <1>1, <1>3 DEF Held, CallsInv
  <2> QED
    BY DEF fresh, pushed
<1> QED
  BY <1>2, <1>4, <1>5 DEF Held

LEMMA AllocMoves ==
  ASSUME Types, Held, NEW r \in Requests, postAlloc(r)
  PROVE  Held'
<1>1. /\ useList' = Append(useList, r) /\ useMap' = useMap \cup {r} /\ pc[r] = "alloc" /\ pc' = [pc EXCEPT ![r] = "push"]
      /\ UNCHANGED <<outputQueue, myQueue, armed, ctList, ctPackets, offered, calls, outbuf, wire, replies>>
  BY DEF postAlloc, goto, unarmed, queues, wireVars, rwVars, ctVars
<1>2. r \notin useMap /\ r \notin armed /\ calls[r] = 0
  BY <1>1 DEF Held, CallsInv, fresh
<1>3. PoolInv'
  BY <1>1, <1>2, AppendElement DEF Held, PoolInv, Types
<1>4. ListsOnce'
  BY <1>1 DEF Held, ListsOnce, apart
<1>5. \A q \in Requests : /\ inQueue(q)' <=> inQueue(q)
                          /\ lateInQueue(q)' <=> lateInQueue(q)
                          /\ lateInPool(q)' <=> lateInPool(q)
  BY <1>1 DEF inQueue, lateInQueue, lateInPool
<1>6. ~inQueue(r) /\ ~lateInQueue(r) /\ ~lateInPool(r) /\ r \notin offered
  BY <1>2 DEF Held, PlacesInv
<1>7. PlacesInv'
  BY <1>1, <1>5, <1>6 DEF Held, PlacesInv
<1>8. \A q \in Requests : pc'[q] = IF q = r THEN "push" ELSE pc[q]
  BY <1>1 DEF Types
<1>9. CallsInv'
  BY <1>1, <1>2, <1>5, <1>6, <1>8 DEF Held, CallsInv, fresh, pushed
<1> QED
  BY <1>3, <1>4, <1>7, <1>9 DEF Held

LEMMA PushMoves ==
  ASSUME Types, Held, NEW r \in Requests, postPush(r)
  PROVE  Held'
<1>1. /\ outputQueue' = Append(outputQueue, r) /\ pc[r] = "push" /\ pc' = [pc EXCEPT ![r] = "count"]
      /\ UNCHANGED <<myQueue, useList, useMap, armed, ctList, ctPackets, offered, calls, outbuf, wire, replies>>
  BY DEF postPush, goto, pool, wireVars, rwVars, ctVars
<1>2. r \in useMap /\ r \notin armed /\ ~inQueue(r) /\ ~lateInQueue(r)
  BY <1>1 DEF Held, CallsInv
<1>3. Once(outputQueue') /\ elements(outputQueue') = elements(outputQueue) \cup {r}
  BY <1>1, <1>2, AppendElement DEF Held, ListsOnce, Types, inQueue
<1>4. PoolInv'
  BY <1>1 DEF Held, PoolInv
<1>5. ListsOnce'
  BY <1>1, <1>2, <1>3 DEF Held, ListsOnce, apart, inQueue
<1>6. \A q \in Requests : /\ inQueue(q)' <=> inQueue(q) \/ q = r
                          /\ lateInQueue(q)' <=> lateInQueue(q)
                          /\ lateInPool(q)' <=> lateInPool(q)
  BY <1>1, <1>3 DEF inQueue, lateInQueue, lateInPool
<1>7. PlacesInv'
  BY <1>1, <1>2, <1>6 DEF Held, PlacesInv
<1>8. \A q \in Requests : pc'[q] = IF q = r THEN "count" ELSE pc[q]
  BY <1>1 DEF Types
<1>9. CallsInv'
  BY <1>1, <1>2, <1>6, <1>8 DEF Held, CallsInv, fresh, pushed
<1> QED
  BY <1>4, <1>5, <1>7, <1>9 DEF Held

\* getTimeoutList of the pool: expired channels leave the map, and their requests are with
\* the thread that called it.
LEMMA TakeChannelsMoves ==
  ASSUME Types, Held, NEW t \in Threads, ctList[t] = <<>>, takeChannels(t)
  PROVE  Held'
<1>1. PICK p \in Seq(Requests) :
        /\ ctList' = [ctList EXCEPT ![t] = p] /\ useMap' = useMap \ elements(p)
        /\ elements(p) \subseteq armed \cap useMap /\ Once(p)
        /\ useList' \in Seq(Requests) /\ Once(useList') /\ elements(useList') = elements(useList) \ elements(p)
  <2> DEFINE p == prefixIn(useList, armed \cap expiredFor(t))
  <2>1. /\ p \in Seq(Requests) /\ elements(p) \subseteq armed \cap expiredFor(t)
        /\ elements(useList) = elements(p) \cup elements(without(useList, p)) /\ without(useList, p) \in Seq(Requests)
        /\ Once(p) /\ Once(without(useList, p)) /\ apart(p, without(useList, p))
    BY PrefixElements DEF Types, Held, PoolInv
  <2>2. ctList' = [ctList EXCEPT ![t] = p] /\ useList' = without(useList, p) /\ useMap' = useMap \ elements(p)
    BY DEF takeChannels, unmap
  <2> HIDE DEF p
  <2> QED
    BY <2>1, <2>2 DEF Held, PoolInv, apart
<1>2. UNCHANGED <<outputQueue, myQueue, armed, ctPackets, offered, calls, outbuf, wire, replies, pc>>
  BY DEF takeChannels, queues, wireVars, posters, rwVars
<1>3. \A u \in Threads : ctList'[u] = IF u = t THEN p ELSE ctList[u]
  BY <1>1 DEF Types
<1>4. \A q \in Requests : /\ inQueue(q)' <=> inQueue(q)
                          /\ lateInQueue(q)' <=> lateInQueue(q)
                          /\ lateInPool(q)' <=> lateInPool(q) \/ q \in elements(p)
  <2>1. \A q \in Requests : (inQueue(q)' <=> inQueue(q)) /\ (lateInQueue(q)' <=> lateInQueue(q))
    BY <1>2 DEF inQueue, lateInQueue
  <2>2. elements(ctList[t]) = {}
    BY EmptyElements
  <2>3. \A q \in Requests : lateInPool(q)' <=> lateInPool(q) \/ q \in elements(p)
    BY <1>3, <2>2 DEF lateInPool
  <2> QED
    BY <2>1, <2>3
<1>5. PoolInv'
  BY <1>1 DEF Held, PoolInv
<1>6. ListsOnce'
  <2>1. \A u \in Threads : apart(p, ctList[u]) /\ apart(ctList[u], p)
    BY <1>1 DEF Held, PlacesInv, lateInPool, apart, Types
  <2> QED
    BY <1>1, <1>2, <1>3, <2>1 DEF Held, ListsOnce
<1>7. \A q \in elements(p) : q \in Requests /\ ~inQueue(q) /\ ~lateInQueue(q) /\ q \notin offered /\ calls[q] = 0
  BY <1>1, ElementsOf DEF Held, PlacesInv, CallsInv
<1>8. PlacesInv'
  BY <1>1, <1>2, <1>4, <1>7 DEF Held, PlacesInv
<1>9. CallsInv'
  BY <1>1, <1>2, <1>4, <1>7 DEF Held, CallsInv, fresh, pushed
<1> QED
  BY <1>5, <1>6, <1>8, <1>9 DEF Held

\* A handler gets the TimeoutPacket of a request whose channel has been taken.
LEMMA CallChannelMoves ==
  ASSUME Types, Held, NEW t \in Threads, ctList[t] # <<>>, callChannel(t)
  PROVE  Held' /\ calls[Head(ctList[t])] = 0 /\ pushed(Head(ctList[t]))
<1> DEFINE h == Head(ctList[t])
<1>1. /\ h \in Requests /\ h \in elements(ctList[t]) /\ Tail(ctList[t]) \in Seq(Requests) /\ Once(Tail(ctList[t]))
      /\ elements(Tail(ctList[t])) = elements(ctList[t]) \ {h}
  BY TailElements DEF Types, Held, ListsOnce
<1>2. /\ ctList' = [ctList EXCEPT ![t] = Tail(@)] /\ calls' = [calls EXCEPT ![h] = @ + 1]
      /\ UNCHANGED <<outputQueue, myQueue, useList, useMap, armed, ctPackets, offered, outbuf, wire, replies, pc>>
  BY DEF callChannel, callHandler, queues, pool, wireVars, posters, rwVars
<1> HIDE DEF h
<1>3. \A u \in Threads : ctList'[u] = IF u = t THEN Tail(ctList[t]) ELSE ctList[u]
  BY <1>2 DEF Types
<1>4. lateInPool(h) /\ h \in armed \ useMap /\ calls[h] = 0 /\ h \notin offered /\ ~inQueue(h) /\ ~lateInQueue(h)
  BY <1>1 DEF lateInPool, Held, PlacesInv, CallsInv
<1>5. \A q \in Requests : /\ inQueue(q)' <=> inQueue(q)
                          /\ lateInQueue(q)' <=> lateInQueue(q)
                          /\ lateInPool(q)' <=> lateInPool(q) /\ q # h
  <2>1. \A q \in Requests : (inQueue(q)' <=> inQueue(q)) /\ (lateInQueue(q)' <=> lateInQueue(q))
    BY <1>2 DEF inQueue, lateInQueue
  <2>2. \A u \in Threads : u # t => h \notin elements(ctList[u])
    BY <1>1 DEF Held, ListsOnce, apart
  <2>3. \A q \in Requests, u \in Threads : q \in elements(ctList'[u]) <=> q \in elements(ctList[u]) /\ q # h
    BY <1>1, <1>3, <2>2
  <2> QED
    BY <2>1, <2>3 DEF lateInPool
<1>6. PoolInv'
  BY <1>2 DEF Held, PoolInv
<1>7. ListsOnce'
  BY <1>1, <1>2, <1>3 DEF Held, ListsOnce, apart
<1>8. PlacesInv'
  BY <1>2, <1>5 DEF Held, PlacesInv
<1>9. \A q \in Requests : calls'[q] = IF q = h THEN 1 ELSE calls[q]
  BY <1>1, <1>2, <1>4 DEF Types
<1>10. pushed(h)
  <2>1. ~fresh(h) /\ pc[h] # "push"
    BY <1>1, <1>4 DEF Held, CallsInv
  <2> QED
    BY <1>1, <2>1 DEF fresh, pushed, Types
<1>11. CallsInv'
  BY <1>1, <1>2, <1>4, <1>5, <1>9 DEF Held, CallsInv, fresh, pushed
<1> QED
  BY <1>4, <1>6, <1>7, <1>8, <1>10, <1>11 DEF Held, h

\* getTimeoutList of the output queue.
LEMMA TakePacketsMoves ==
  ASSUME Types, Held, NEW t \in Threads, ctPackets[t] = <<>>, takePackets(t)
  PROVE  Held' /\ outputQueue' \in Seq(Requests) /\ (outputQueue = <<>> => outputQueue' = <<>>)
<1>1. PICK p \in Seq(Requests) :
        /\ ctPackets' = [ctPackets EXCEPT ![t] = p] /\ elements(p) \subseteq elements(outputQueue) /\ Once(p)
        /\ outputQueue' \in Seq(Requests) /\ Once(outputQueue')
        /\ elements(outputQueue') = elements(outputQueue) \ elements(p)
  <2> DEFINE p == prefixIn(outputQueue, expiredFor(t))
  <2>1. /\ p \in Seq(Requests) /\ Once(p) /\ without(outputQueue, p) \in Seq(Requests) /\ Once(without(outputQueue, p))
        /\ elements(outputQueue) = elements(p) \cup elements(without(outputQueue, p))
        /\ apart(p, without(outputQueue, p))
    BY PrefixElements DEF Types, Held, ListsOnce
  <2>2. ctPackets' = [ctPackets EXCEPT ![t] = p] /\ outputQueue' = without(outputQueue, p)
    BY DEF takePackets
  <2> HIDE DEF p
  <2> QED
    BY <2>1, <2>2 DEF apart
<1>2. UNCHANGED <<myQueue, useList, useMap, armed, ctList, offered, calls, outbuf, wire, replies, pc>>
  BY DEF takePackets, pool, wireVars, posters, rwVars
<1>3. \A u \in Threads : ctPackets'[u] = IF u = t THEN p ELSE ctPackets[u]
  BY <1>1 DEF Types
<1>4. \A q \in elements(p) : q \in Requests /\ inQueue(q) /\ ~lateInQueue(q) /\ q \notin elements(myQueue)
  BY <1>1, ElementsOf DEF Held, PlacesInv, ListsOnce, apart, inQueue
<1>5. \A q \in Requests : /\ inQueue(q)' <=> inQueue(q) /\ q \notin elements(p)
                          /\ lateInQueue(q)' <=> lateInQueue(q) \/ q \in elements(p)
                          /\ lateInPool(q)' <=> lateInPool(q)
  <2>1. elements(ctPackets[t]) = {}
    BY EmptyElements
  <2>2. \A q \in Requests : lateInQueue(q)' <=> lateInQueue(q) \/ q \in elements(p)
    BY <1>3, <2>1 DEF lateInQueue
  <2>3. \A q \in Requests : (inQueue(q)' <=> inQueue(q) /\ q \notin elements(p)) /\ (lateInPool(q)' <=> lateInPool(q))
    BY <1>1, <1>2, <1>4 DEF inQueue, lateInPool
  <2> QED
    BY <2>2, <2>3
<1>6. PoolInv'
  BY <1>2 DEF Held, PoolInv
<1>7. ListsOnce'
  <2>1. \A u \in Threads : apart(p, ctPackets[u]) /\ apart(ctPackets[u], p)
    BY <1>4 DEF lateInQueue, apart
  <2>2. apart(outputQueue', myQueue')
    BY <1>1, <1>2 DEF Held, ListsOnce, apart
  <2> QED
    BY <1>1, <1>2, <1>3, <2>1, <2>2 DEF Held, ListsOnce
<1>8. PlacesInv'
  BY <1>2, <1>4, <1>5 DEF Held, PlacesInv
<1>9. CallsInv'
  BY <1>2, <1>4, <1>5 DEF Held, CallsInv, fresh, pushed
<1>10. outputQueue = <<>> => outputQueue' = <<>>
  BY <1>1, ElementsOf, EmptyElements
<1> QED
  BY <1>1, <1>6, <1>7, <1>8, <1>9, <1>10 DEF Held

\* A handler gets the TimeoutPacket of a packet that was still queued; its channel is freed.
LEMMA CallPacketMoves ==
  ASSUME Types, Held, NEW t \in Threads, ctPackets[t] # <<>>, callPacket(t)
  PROVE  Held' /\ useList' \in Seq(Requests) /\ calls[Head(ctPackets[t])] = 0 /\ pushed(Head(ctPackets[t]))
<1> DEFINE h == Head(ctPackets[t])
<1>1. /\ h \in Requests /\ h \in elements(ctPackets[t]) /\ Tail(ctPackets[t]) \in Seq(Requests)
      /\ Once(Tail(ctPackets[t])) /\ elements(Tail(ctPackets[t])) = elements(ctPackets[t]) \ {h}
  BY TailElements DEF Types, Held, ListsOnce
<1>2. /\ ctPackets' = [ctPackets EXCEPT ![t] = Tail(@)] /\ calls' = [calls EXCEPT ![h] = @ + 1]
      /\ useMap' = useMap \ {h} /\ useList' = (IF h \in useMap THEN unlink(useList, h) ELSE useList)
      /\ UNCHANGED <<outputQueue, myQueue, armed, ctList, offered, outbuf, wire, replies, pc>>
  BY DEF callPacket, freeChannel, callHandler, queues, wireVars, posters, rwVars
<1> HIDE DEF h
<1>3. \A u \in Threads : ctPackets'[u] = IF u = t THEN Tail(ctPackets[t]) ELSE ctPackets[u]
  BY <1>2 DEF Types
<1>4. lateInQueue(h) /\ h \in useMap \ armed /\ calls[h] = 0 /\ h \notin offered /\ ~inQueue(h) /\ ~lateInPool(h)
  BY <1>1 DEF lateInQueue, Held, PlacesInv, CallsInv
<1>5. PoolInv' /\ useList' \in Seq(Requests)
  BY <1>2, <1>4, UnlinkElements DEF Held, PoolInv, Types
<1>6. \A q \in Requests : /\ inQueue(q)' <=> inQueue(q)
                          /\ lateInPool(q)' <=> lateInPool(q)
                          /\ lateInQueue(q)' <=> lateInQueue(q) /\ q # h
  <2>1. \A q \in Requests : (inQueue(q)' <=> inQueue(q)) /\ (lateInPool(q)' <=> lateInPool(q))
    BY <1>2 DEF inQueue, lateInPool
  <2>2. \A u \in Threads : u # t => h \notin elements(ctPackets[u])
    BY <1>1 DEF Held, ListsOnce, apart
  <2>3. \A q \in Requests, u \in Threads : q \in elements(ctPackets'[u]) <=> q \in elements(ctPackets[u]) /\ q # h
    BY <1>1, <1>3, <2>2
  <2> QED
    BY <2>1, <2>3 DEF lateInQueue
<1>7. ListsOnce'
  BY <1>1, <1>2, <1>3 DEF Held, ListsOnce, apart
<1>8. PlacesInv'
  BY <1>2, <1>4, <1>6 DEF Held, PlacesInv
<1>9. \A q \in Requests : calls'[q] = IF q = h THEN 1 ELSE calls[q]
  BY <1>1, <1>2, <1>4 DEF Types
<1>10. pushed(h)
  <2>1. ~fresh(h) /\ pc[h] # "push"
    BY <1>1, <1>4 DEF Held, CallsInv
  <2> QED
    BY <1>1, <2>1 DEF fresh, pushed, Types
<1>11. CallsInv'
  BY <1>1, <1>2, <1>4, <1>6, <1>9 DEF Held, CallsInv, fresh, pushed
<1> QED
  BY <1>4, <1>5, <1>7, <1>8, <1>10, <1>11 DEF Held, h

\* moveTo: one of the two queues to the end of the other.
LEMMA QueuesJoin ==
  ASSUME Types, Held,
         \/ myQueue' = myQueue \o outputQueue /\ outputQueue' = <<>>
         \/ outputQueue' = outputQueue \o myQueue /\ myQueue' = <<>>,
         UNCHANGED <<pool, ctList, ctPackets, offered, calls, outbuf, wireVars, pc>>
  PROVE  Held' /\ outputQueue' \in Seq(Requests) /\ myQueue' \in Seq(Requests)
<1>1. /\ outputQueue' \in Seq(Requests) /\ myQueue' \in Seq(Requests) /\ Once(outputQueue') /\ Once(myQueue')
      /\ elements(outputQueue') \cup elements(myQueue') = elements(outputQueue) \cup elements(myQueue)
      /\ apart(outputQueue', myQueue')
  <2>1. /\ apart(myQueue, outputQueue) /\ apart(outputQueue, myQueue) /\ Once(outputQueue) /\ Once(myQueue)
        /\ outputQueue \in Seq(Requests) /\ myQueue \in Seq(Requests)
    BY DEF Types, Held, ListsOnce, apart
  <2>2. CASE myQueue' = myQueue \o outputQueue /\ outputQueue' = <<>>
    <3>1. /\ myQueue' \in Seq(Requests) /\ Once(myQueue')
          /\ elements(myQueue') = elements(myQueue) \cup elements(outputQueue)
      BY <2>1, <2>2, ConcatElements
    <3>2. outputQueue' \in Seq(Requests) /\ Once(outputQueue') /\ elements(outputQueue') = {}
      BY <2>2, EmptyElements
    <3> QED
      BY <3>1, <3>2 DEF apart
  <2>3. CASE outputQueue' = outputQueue \o myQueue /\ myQueue' = <<>>
    <3>1. /\ outputQueue' \in Seq(Requests) /\ Once(outputQueue')
          /\ elements(outputQueue') = elements(outputQueue) \cup elements(myQueue)
      BY <2>1, <2>3, ConcatElements
    <3>2. myQueue' \in Seq(Requests) /\ Once(myQueue') /\ elements(myQueue') = {}
      BY <2>3, EmptyElements
    <3> QED
      BY <3>1, <3>2 DEF apart
  <2> QED
    BY <2>2, <2>3
<1>2. UNCHANGED <<useList, useMap, armed, ctList, ctPackets, offered, calls, outbuf, wire, replies, pc>>
  BY DEF pool, wireVars
<1>3. \A q \in Requests : /\ inQueue(q)' <=> inQueue(q)
                          /\ lateInQueue(q)' <=> lateInQueue(q)
                          /\ lateInPool(q)' <=> lateInPool(q)
  BY <1>1, <1>2 DEF inQueue, lateInQueue, lateInPool
<1>4. PoolInv' /\ ListsOnce'
  BY <1>1, <1>2 DEF Held, PoolInv, ListsOnce
<1>5. PlacesInv'
  BY <1>2, <1>3 DEF Held, PlacesInv
<1>6. CallsInv'
  BY <1>2, <1>3 DEF Held, CallsInv, fresh, pushed
<1> QED
  BY <1>1, <1>4, <1>5, <1>6 DEF Held

\* The head of _myQueue is encoded and its channel armed.
LEMMA EncodeMoves ==
  ASSUME Types, Held, encode
  PROVE  /\ Held' /\ myQueue' \in Seq(Requests) /\ outbuf' \in Seq(Requests) /\ armed' \subseteq Requests
<1> DEFINE h == Head(myQueue)
<1>1. /\ myQueue # <<>> /\ outbuf' = Append(outbuf, h) /\ armed' = armed \cup {h} /\ myQueue' = Tail(myQueue)
      /\ UNCHANGED <<outputQueue, useList, useMap, ctList, ctPackets, offered, calls, wire, replies, pc>>
  BY DEF encode, wireVars, posters, rwVars, ctVars
<1>2. /\ h \in Requests /\ h \in elements(myQueue) /\ myQueue' \in Seq(Requests) /\ Once(myQueue')
      /\ elements(myQueue') = elements(myQueue) \ {h}
  BY <1>1, TailElements DEF Types, Held, ListsOnce
<1> HIDE DEF h
<1>3. outbuf' \in Seq(Requests) /\ elements(outbuf') = elements(outbuf) \cup {h}
  BY <1>1, <1>2, AppendElement DEF Types
<1>4. inQueue(h) /\ h \in useMap \ armed /\ ~lateInQueue(h) /\ ~lateInPool(h) /\ h \notin offered /\ h \notin elements(outputQueue)
  BY <1>2 DEF inQueue, Held, PlacesInv, ListsOnce, apart
<1>5. \A q \in Requests : /\ inQueue(q)' <=> inQueue(q) /\ q # h
                          /\ lateInQueue(q)' <=> lateInQueue(q)
                          /\ lateInPool(q)' <=> lateInPool(q)
  BY <1>1, <1>2, <1>4 DEF inQueue, lateInQueue, lateInPool
<1>6. PoolInv'
  BY <1>1 DEF Held, PoolInv
<1>7. ListsOnce'
  BY <1>1, <1>2 DEF Held, ListsOnce, apart
<1>8. PlacesInv'
  BY <1>1, <1>3, <1>4, <1>5 DEF Held, PlacesInv
<1>9. ~fresh(h) /\ pc[h] # "push"
  BY <1>2, <1>4 DEF Held, CallsInv
<1>10. CallsInv'
  BY <1>1, <1>4, <1>5, <1>9 DEF Held, CallsInv, fresh, pushed
<1>11. armed' \subseteq Requests
  BY <1>1, <1>2 DEF Types
<1> QED
  BY <1>2, <1>3, <1>6, <1>7, <1>8, <1>10, <1>11 DEF Held

\* A reply finds its channel in the map and takes it out.
LEMMA ReadReplyMoves ==
  ASSUME Types, Held, NEW r \in Requests, offered = {}, readReply(r)
  PROVE  Held' /\ useList' \in Seq(Requests)
<1>1. /\ r \in replies /\ replies' = replies \ {r} /\ r \in armed
      /\ UNCHANGED <<outputQueue, myQueue, armed, ctList, ctPackets, calls, outbuf, wire, pc>>
  BY DEF readReply, queues, posters, ctVars, Held, PlacesInv
<1>2. \A q \in Requests : /\ inQueue(q)' <=> inQueue(q)
                          /\ lateInQueue(q)' <=> lateInQueue(q)
                          /\ lateInPool(q)' <=> lateInPool(q)
  BY <1>1 DEF inQueue, lateInQueue, lateInPool
<1>3. ListsOnce'
  BY <1>1 DEF Held, ListsOnce
<1>4. CASE r \in useMap
  <2>1. useMap' = useMap \ {r} /\ useList' = unlink(useList, r) /\ offered' = {r}
    BY <1>4 DEF readReply
  <2>2. PoolInv' /\ useList' \in Seq(Requests)
    BY <1>4, <2>1, UnlinkElements DEF Held, PoolInv, Types
  <2>3. calls[r] = 0 /\ ~lateInPool(r) /\ ~inQueue(r) /\ ~lateInQueue(r) /\ ~fresh(r) /\ pc[r] # "push"
    BY <1>1, <1>4 DEF Held, PlacesInv, CallsInv
  <2>4. PlacesInv'
    BY <1>1, <1>2, <2>1, <2>3 DEF Held, PlacesInv
  <2>5. CallsInv'
    BY <1>1, <1>2, <2>1, <2>3 DEF Held, CallsInv, fresh, pushed
  <2> QED
    BY <1>3, <2>2, <2>4, <2>5 DEF Held
<1>5. CASE r \notin useMap
  <2>1. UNCHANGED <<useMap, useList, offered>>
    BY <1>5 DEF readReply
  <2>2. PoolInv' /\ useList' \in Seq(Requests)
    BY <2>1 DEF Held, PoolInv, Types
  <2>3. PlacesInv'
    BY <1>1, <1>2, <2>1 DEF Held, PlacesInv
  <2>4. CallsInv'
    BY <1>1, <1>2, <2>1 DEF Held, CallsInv, fresh, pushed
  <2> QED
    BY <1>3, <2>2, <2>3, <2>4 DEF Held
<1> QED
  BY <1>4, <1>5

\* The handler of the packet that was read is called.
LEMMA CallbackMoves ==
  ASSUME Types, Held, ThreadsInv, callback
  PROVE  Held' /\ \E r \in Requests : calls[r] = 0 /\ pushed(r) /\ callHandler(r)
<1>1. PICK r \in offered : callHandler(r)
  BY DEF callback
<1>2. /\ calls' = [calls EXCEPT ![r] = @ + 1] /\ offered' = {}
      /\ UNCHANGED <<outputQueue, myQueue, useList, useMap, armed, ctList, ctPackets, outbuf, wire, replies, pc>>
  BY <1>1 DEF callback, callHandler, queues, pool, wireVars, posters, ctVars
<1>3. r \in Requests /\ offered = {r} /\ \A q \in Requests : q \in offered <=> q = r
  BY DEF ThreadsInv, Types
<1>4. calls[r] = 0 /\ r \in armed \ useMap /\ ~lateInPool(r) /\ ~inQueue(r) /\ ~lateInQueue(r)
  BY <1>3 DEF Held, PlacesInv, CallsInv
<1>5. pushed(r)
  <2>1. ~fresh(r) /\ pc[r] # "push"
    BY <1>3, <1>4 DEF Held, CallsInv
  <2> QED
    BY <1>3, <2>1 DEF fresh, pushed, Types
<1>6. \A q \in Requests : /\ inQueue(q)' <=> inQueue(q)
                          /\ lateInQueue(q)' <=> lateInQueue(q)
                          /\ lateInPool(q)' <=> lateInPool(q)
  BY <1>2 DEF inQueue, lateInQueue, lateInPool
<1>7. \A q \in Requests : calls'[q] = IF q = r THEN 1 ELSE calls[q]
  BY <1>2, <1>3, <1>4 DEF Types
<1>8. PoolInv' /\ ListsOnce'
  BY <1>2 DEF Held, PoolInv, ListsOnce
<1>9. PlacesInv'
  BY <1>2, <1>6 DEF Held, PlacesInv
<1>10. CallsInv'
  BY <1>2, <1>3, <1>4, <1>6, <1>7 DEF Held, CallsInv, fresh, pushed
<1> QED
  BY <1>1, <1>3, <1>4, <1>5, <1>8, <1>9, <1>10 DEF Held

-----------------------------------------------------------------------------
(* Every step keeps the invariant *)

\* The counts behind _queueTotalSize are numbers.
LEMMA CountsAreNumbers ==
  ASSUME Types, Held
  PROVE  /\ Len(outputQueue) \in Nat /\ Len(myQueue) \in Nat /\ Len(outbuf) \in Nat
         /\ IsFiniteSet(useMap) /\ Cardinality(useMap) \in Nat
<1>1. Len(outputQueue) \in Nat /\ Len(myQueue) \in Nat /\ Len(outbuf) \in Nat
  BY ElementsOf DEF Types
<1>2. IsFiniteSet(elements(useList)) /\ Cardinality(elements(useList)) = Len(useList) /\ Len(useList) \in Nat
  BY OnceCount, ElementsOf DEF Types, Held, PoolInv
<1> QED
  BY <1>1, <1>2 DEF Held, PoolInv

LEMMA CallsAreNumbers ==
  ASSUME Types, NEW h \in Requests, calls' = [calls EXCEPT ![h] = @ + 1]
  PROVE  calls' \in [Requests -> Nat]
<1>1. calls \in [Requests -> Nat] /\ calls[h] + 1 \in Nat
  BY DEF Types
<1> QED
  BY <1>1

\* postPacket, up to the decision that it is refused or goes on, and after the push.
LEMMA PostKeeps ==
  ASSUME IInv, NEW r \in Requests, Post(r)
  PROVE  IInv'
<1> USE DEF IInv
<1>1. CASE postConnect(r)
  <2>1. /\ UNCHANGED <<outputQueue, myQueue, outbuf, wire, replies, useList, useMap, armed, late, queueTotal,
                       woken, rwPc, queueSize, offered, ctPc, ctList, ctPackets, calls>>
        /\ pc[r] = "idle" /\ \E l \in {"limit", "refused"} : pc' = [pc EXCEPT ![r] = l]
        /\ \/ UNCHANGED <<conn, writeOn>>
           \/ ~isConnectState /\ conn' \in {"CONNECTED", "CONNECTING"} /\ writeOn' = TRUE
    BY <1>1 DEF postConnect, goto, queues, wireVars, pool, rwVars, ctVars
  <2>2. Types'
    BY <2>1 DEF Types
  <2>3. Held'
    <3>1. PICK l \in {"limit", "refused"} : pc' = [pc EXCEPT ![r] = l]
      BY <2>1
    <3>2. \A q \in Requests : pc'[q] = IF q = r THEN l ELSE pc[q]
      BY <3>1 DEF Types
    <3>3. \A q \in Requests : pc'[q] = pc[q] \/ (fresh(q) /\ fresh(q)')
      BY <2>1, <3>2 DEF fresh
    <3> QED
      BY <2>1, <3>3, MovesNothing DEF queues, pool
  <2>4. ThreadsInv'
    BY <2>1 DEF ThreadsInv, isConnectState, Types
  <2>5. WriteInv'
    BY <2>1 DEF WriteInv
  <2> QED
    BY <2>2, <2>3, <2>4, <2>5
<1>2. CASE postLimit(r) \/ postCount(r) \/ waitSignalled(r) \/ waitTimedOut(r)
  <2>1. /\ UNCHANGED <<conn, writeOn, outputQueue, myQueue, outbuf, wire, replies, useList, useMap, armed, late,
                       rwPc, queueSize, offered, ctPc, ctList, ctPackets, calls>>
        /\ woken' \in {woken, woken \ {r}}
        /\ queueTotal' \in {queueTotal, Len(outputQueue) + Len(myQueue) + Cardinality(useMap)}
        /\ \/ pc[r] = "limit" /\ \E l \in {"alloc", "refused"} : pc' = [pc EXCEPT ![r] = l]
           \/ pc[r] \in {"count", "waiting"} /\ \E l \in {"waiting", "accepted"} : pc' = [pc EXCEPT ![r] = l]
    BY <1>2 DEF postLimit, postCount, waitSignalled, waitTimedOut, recount, goto, queues, wireVars, pool, rwVars, ctVars
  <2>2. Types'
    <3>1. queueTotal' \in Nat
      BY <2>1, CountsAreNumbers DEF Types
    <3> QED
      BY <2>1, <3>1 DEF Types
  <2>3. Held'
    <3>1. \A q \in Requests : pc'[q] = pc[q] \/ (fresh(q) /\ fresh(q)') \/ (pushed(q) /\ pushed(q)')
      BY <2>1 DEF Types, fresh, pushed
    <3> QED
      BY <2>1, <3>1, MovesNothing DEF queues, pool
  <2>4. ThreadsInv' /\ WriteInv'
    BY <2>1 DEF ThreadsInv, WriteInv, isConnectState
  <2> QED
    BY <2>2, <2>3, <2>4
<1>3. CASE postAlloc(r)
  <2>1. /\ UNCHANGED <<conn, writeOn, outputQueue, myQueue, outbuf, wire, replies, armed, late, queueTotal,
                       woken, rwPc, queueSize, offered, ctPc, ctList, ctPackets, calls>>
        /\ useList' = Append(useList, r) /\ useMap' = useMap \cup {r} /\ pc' = [pc EXCEPT ![r] = "push"]
    BY <1>3 DEF postAlloc, unarmed, goto, queues, wireVars, pool, rwVars, ctVars
  <2>2. Types'
    <3>1. useList' \in Seq(Requests)
      BY <2>1, AppendElement DEF Types
    <3> QED
      BY <2>1, <3>1 DEF Types
  <2>3. Held'
    BY <1>3, AllocMoves
  <2>4. ThreadsInv' /\ WriteInv'
    BY <2>1 DEF ThreadsInv, WriteInv, isConnectState
  <2> QED
    BY <2>2, <2>3, <2>4
<1>4. CASE postPush(r)
  <2>1. /\ UNCHANGED <<conn, myQueue, outbuf, wire, replies, useList, useMap, armed, late, queueTotal,
                       woken, rwPc, queueSize, offered, ctPc, ctList, ctPackets, calls>>
        /\ outputQueue' = Append(outputQueue, r) /\ pc' = [pc EXCEPT ![r] = "count"]
        /\ writeOn' = (writeOn \/ Len(outputQueue') = 1)
    BY <1>4 DEF postPush, asksToWrite, goto, queues, wireVars, pool, rwVars, ctVars
  <2>2. Types'
    <3>1. outputQueue' \in Seq(Requests)
      BY <2>1, AppendElement DEF Types
    <3>2. writeOn' \in BOOLEAN
      BY <2>1
    <3> QED
      BY <2>1, <3>1, <3>2 DEF Types
  <2>3. Held'
    BY <1>4, PushMoves
  <2>4. ThreadsInv'
    BY <2>1 DEF ThreadsInv, isConnectState
  <2>5. WriteInv'
    <3>1. outputQueue = <<>> => writeOn'
      <4>1. outputQueue = <<>> => Len(outputQueue) = 0
        BY EmptyElements
      <4>2. Len(outputQueue') = Len(outputQueue) + 1
        BY <2>1, AppendElement DEF Types
      <4>3. outputQueue = <<>> => Len(outputQueue') = 1
        BY <4>1, <4>2
      <4> QED
        BY <2>1, <4>3
    <3>2. writeOn => writeOn'
      BY <2>1
    <3> QED
      BY <2>1, <3>1, <3>2 DEF WriteInv
  <2> QED
    BY <2>2, <2>3, <2>4, <2>5
<1> QED
  BY <1>1, <1>2, <1>3, <1>4 DEF Post

\* checkTimeout, by either thread.
LEMMA CheckTimeoutKeeps ==
  ASSUME IInv, NEW t \in Threads, CheckTimeout(t)
  PROVE  IInv'
<1> USE DEF IInv
<1>1. CASE takeChannels(t)
  <2>1. PICK list : /\ list \in Seq(Requests)
                    /\ ctPc[t] = "channels" /\ ctList' = [ctList EXCEPT ![t] = list]
                    /\ useList' = without(useList, list) /\ without(useList, list) \in Seq(Requests)
                    /\ useMap' = useMap \ elements(list)
                    /\ ctPc' = [ctPc EXCEPT ![t] = IF list = <<>> THEN "packets" ELSE "callChannels"]
    <3> DEFINE p == prefixIn(useList, armed \cap expiredFor(t))
    <3>1. p \in Seq(Requests) /\ without(useList, p) \in Seq(Requests)
      BY PrefixElements DEF Types
    <3> QED
      BY <1>1, <3>1 DEF takeChannels, ctGoto, unmap
  <2>2. UNCHANGED <<conn, writeOn, outputQueue, myQueue, outbuf, wire, replies, armed, late, queueTotal, pc, woken,
                    rwPc, queueSize, offered, ctPackets, calls>>
    BY <1>1 DEF takeChannels, queues, wireVars, posters, rwVars
  <2>3. \A u \in Threads : /\ ctList'[u] = IF u = t THEN list ELSE ctList[u]
                           /\ ctPc'[u] = IF u = t THEN (IF list = <<>> THEN "packets" ELSE "callChannels") ELSE ctPc[u]
    BY <2>1 DEF Types
  <2>4. Types'
    <3>1. ctList' \in [Threads -> Seq(Requests)]
      BY <2>1 DEF Types
    <3>2. ctPc' \in [Threads -> {"idle", "channels", "callChannels", "packets", "callPackets", "notify", "done"}]
      BY <2>1 DEF Types
    <3> QED
      BY <2>1, <2>2, <3>1, <3>2 DEF Types
  <2>5. Held'
    BY <1>1, <2>1, TakeChannelsMoves DEF ThreadsInv
  <2>6. ThreadsInv'
    BY <2>1, <2>2, <2>3 DEF ThreadsInv, isConnectState
  <2>7. WriteInv'
    BY <2>2 DEF WriteInv
  <2> QED
    BY <2>4, <2>5, <2>6, <2>7
<1>2. CASE callChannel(t)
  <2>1. /\ ctPc[t] = "callChannels" /\ ctList' = [ctList EXCEPT ![t] = Tail(@)]
        /\ calls' = [calls EXCEPT ![Head(ctList[t])] = @ + 1]
        /\ ctPc' = [ctPc EXCEPT ![t] = IF ctList'[t] = <<>> THEN "packets" ELSE "callChannels"]
        /\ UNCHANGED <<conn, writeOn, outputQueue, myQueue, outbuf, wire, replies, useList, useMap, armed, late,
                       queueTotal, pc, woken, rwPc, queueSize, offered, ctPackets>>
    BY <1>2 DEF callChannel, callHandler, ctGoto, queues, wireVars, pool, posters, rwVars
  <2>2. ctList[t] # <<>> /\ Tail(ctList[t]) \in Seq(Requests) /\ Head(ctList[t]) \in Requests
    BY <2>1, TailElements DEF Types, ThreadsInv
  <2>3. \A u \in Threads : /\ ctList'[u] = IF u = t THEN Tail(ctList[t]) ELSE ctList[u]
                           /\ ctPc'[u] = IF u = t THEN (IF ctList'[t] = <<>> THEN "packets" ELSE "callChannels") ELSE ctPc[u]
    BY <2>1 DEF Types
  <2>4. Types'
    <3>1. ctList' \in [Threads -> Seq(Requests)]
      BY <2>1, <2>2 DEF Types
    <3>2. ctPc' \in [Threads -> {"idle", "channels", "callChannels", "packets", "callPackets", "notify", "done"}]
      BY <2>1 DEF Types
    <3>3. calls' \in [Requests -> Nat]
      BY <2>1, <2>2, CallsAreNumbers
    <3> QED
      BY <2>1, <3>1, <3>2, <3>3 DEF Types
  <2>5. Held'
    BY <1>2, <2>2, CallChannelMoves
  <2>6. ThreadsInv'
    BY <2>1, <2>3 DEF ThreadsInv, isConnectState
  <2>7. WriteInv'
    BY <2>1 DEF WriteInv
  <2> QED
    BY <2>4, <2>5, <2>6, <2>7
<1>3. CASE takePackets(t)
  <2>1. PICK list : /\ list \in Seq(Requests)
                    /\ ctPc[t] = "packets" /\ ctPackets' = [ctPackets EXCEPT ![t] = list]
                    /\ ctPc' = [ctPc EXCEPT ![t] = IF list = <<>> THEN "notify" ELSE "callPackets"]
    <3> DEFINE p == prefixIn(outputQueue, expiredFor(t))
    <3>1. p \in Seq(Requests)
      BY PrefixElements DEF Types
    <3> QED
      BY <1>3, <3>1 DEF takePackets, ctGoto
  <2>2. UNCHANGED <<conn, writeOn, myQueue, outbuf, wire, replies, useList, useMap, armed, late, queueTotal, pc, woken,
                    rwPc, queueSize, offered, ctList, calls>>
    BY <1>3 DEF takePackets, wireVars, pool, posters, rwVars
  <2>3. \A u \in Threads : /\ ctPackets'[u] = IF u = t THEN list ELSE ctPackets[u]
                           /\ ctPc'[u] = IF u = t THEN (IF list = <<>> THEN "notify" ELSE "callPackets") ELSE ctPc[u]
    BY <2>1 DEF Types
  <2>4. Held' /\ outputQueue' \in Seq(Requests) /\ (outputQueue = <<>> => outputQueue' = <<>>)
    BY <1>3, <2>1, TakePacketsMoves DEF ThreadsInv
  <2>5. Types'
    <3>1. ctPackets' \in [Threads -> Seq(Requests)]
      BY <2>1 DEF Types
    <3>2. ctPc' \in [Threads -> {"idle", "channels", "callChannels", "packets", "callPackets", "notify", "done"}]
      BY <2>1 DEF Types
    <3> QED
      BY <2>2, <2>4, <3>1, <3>2 DEF Types
  <2>6. ThreadsInv'
    BY <2>1, <2>2, <2>3 DEF ThreadsInv, isConnectState
  <2>7. WriteInv'
    BY <2>2, <2>4 DEF WriteInv
  <2> QED
    BY <2>4, <2>5, <2>6, <2>7
<1>4. CASE callPacket(t)
  <2>1. /\ ctPc[t] = "callPackets" /\ ctPackets' = [ctPackets EXCEPT ![t] = Tail(@)]
        /\ calls' = [calls EXCEPT ![Head(ctPackets[t])] = @ + 1] /\ useMap' = useMap \ {Head(ctPackets[t])}
        /\ ctPc' = [ctPc EXCEPT ![t] = IF ctPackets'[t] = <<>> THEN "notify" ELSE "callPackets"]
        /\ UNCHANGED <<conn, writeOn, outputQueue, myQueue, outbuf, wire, replies, armed, late,
                       queueTotal, pc, woken, rwPc, queueSize, offered, ctList>>
    BY <1>4 DEF callPacket, freeChannel, callHandler, ctGoto, queues, wireVars, posters, rwVars
  <2>2. ctPackets[t] # <<>> /\ Tail(ctPackets[t]) \in Seq(Requests) /\ Head(ctPackets[t]) \in Requests
    BY <2>1, TailElements DEF Types, ThreadsInv
  <2>3. \A u \in Threads : /\ ctPackets'[u] = IF u = t THEN Tail(ctPackets[t]) ELSE ctPackets[u]
                           /\ ctPc'[u] = IF u = t THEN (IF ctPackets'[t] = <<>> THEN "notify" ELSE "callPackets") ELSE ctPc[u]
    BY <2>1 DEF Types
  <2>4. Held' /\ useList' \in Seq(Requests)
    BY <1>4, <2>2, CallPacketMoves
  <2>5. Types'
    <3>1. ctPackets' \in [Threads -> Seq(Requests)]
      BY <2>1, <2>2 DEF Types
    <3>2. ctPc' \in [Threads -> {"idle", "channels", "callChannels", "packets", "callPackets", "notify", "done"}]
      BY <2>1 DEF Types
    <3>3. calls' \in [Requests -> Nat]
      BY <2>1, <2>2, CallsAreNumbers
    <3> QED
      BY <2>1, <2>4, <3>1, <3>2, <3>3 DEF Types
  <2>6. ThreadsInv'
    BY <2>1, <2>3 DEF ThreadsInv, isConnectState
  <2>7. WriteInv'
    BY <2>1 DEF WriteInv
  <2> QED
    BY <2>4, <2>5, <2>6, <2>7
<1>5. CASE checkNotify(t)
  <2>1. /\ UNCHANGED <<conn, writeOn, outputQueue, myQueue, outbuf, wire, replies, useList, useMap, armed, late, pc,
                       rwPc, queueSize, offered, ctList, ctPackets, calls>>
        /\ woken' \in {woken, woken \cup waitingPosters}
        /\ queueTotal' \in {queueTotal, Len(outputQueue) + Len(myQueue) + Cardinality(useMap)}
        /\ ctPc[t] = "notify" /\ ctPc' = [ctPc EXCEPT ![t] = IF t = "rw" THEN "done" ELSE "channels"]
    BY <1>5 DEF checkNotify, notifyPosters, recount, ctGoto, queues, wireVars, pool, rwVars
  <2>2. \A u \in Threads : ctPc'[u] = IF u = t THEN (IF t = "rw" THEN "done" ELSE "channels") ELSE ctPc[u]
    BY <2>1 DEF Types
  <2>3. Types'
    <3>1. queueTotal' \in Nat /\ woken' \subseteq Requests
      BY <2>1, CountsAreNumbers DEF Types, waitingPosters
    <3>2. ctPc' \in [Threads -> {"idle", "channels", "callChannels", "packets", "callPackets", "notify", "done"}]
      BY <2>1 DEF Types
    <3> QED
      BY <2>1, <3>1, <3>2 DEF Types
  <2>4. Held'
    BY <2>1, MovesNothing DEF queues, pool
  <2>5. ThreadsInv' /\ WriteInv'
    BY <2>1, <2>2 DEF ThreadsInv, WriteInv, isConnectState
  <2> QED
    BY <2>3, <2>4, <2>5
<1> QED
  BY <1>1, <1>2, <1>3, <1>4, <1>5 DEF CheckTimeout

\* writeData.
LEMMA WriteKeeps ==
  ASSUME IInv, Write
  PROVE  IInv'
<1> USE DEF IInv
<1>1. CASE writeMove
  <2>1. /\ UNCHANGED <<conn, outbuf, wire, replies, useList, useMap, armed, late, queueTotal, pc, woken,
                       queueSize, offered, ctPc, ctList, ctPackets, calls>>
        /\ rwPc = "idle" /\ conn = "CONNECTED" /\ writeOn
        /\ myQueue' = myQueue \o outputQueue /\ outputQueue' = <<>>
        /\ \/ myQueue' = <<>> /\ outbuf = <<>> /\ writeOn' = FALSE /\ rwPc' = rwPc
           \/ rwPc' = "write" /\ writeOn' = writeOn
    BY <1>1 DEF writeMove, wireVars, pool, posters, ctVars
  <2>2. Held' /\ outputQueue' \in Seq(Requests) /\ myQueue' \in Seq(Requests)
    BY <2>1, QueuesJoin DEF pool, wireVars
  <2>3. Types'
    BY <2>1, <2>2 DEF Types
  <2>4. ThreadsInv' /\ WriteInv'
    BY <2>1 DEF ThreadsInv, WriteInv, isConnectState
  <2> QED
    BY <2>2, <2>3, <2>4
<1>2. CASE encode
  <2>1. /\ UNCHANGED <<conn, writeOn, outputQueue, wire, replies, useList, useMap, late, queueTotal, pc, woken,
                       rwPc, queueSize, offered, ctPc, ctList, ctPackets, calls>>
        /\ rwPc = "write"
    BY <1>2 DEF encode, wireVars, posters, rwVars, ctVars
  <2>2. Held' /\ myQueue' \in Seq(Requests) /\ outbuf' \in Seq(Requests) /\ armed' \subseteq Requests
    BY <1>2, EncodeMoves
  <2>3. Types'
    BY <2>1, <2>2 DEF Types
  <2>4. ThreadsInv' /\ WriteInv'
    BY <2>1 DEF ThreadsInv, WriteInv, isConnectState
  <2> QED
    BY <2>2, <2>3, <2>4
<1>3. CASE writeSocket
  <2>1. /\ UNCHANGED <<conn, writeOn, outputQueue, myQueue, replies, useList, useMap, armed, late, queueTotal, pc, woken,
                       queueSize, offered, ctPc, ctList, ctPackets, calls>>
        /\ rwPc = "write" /\ rwPc' \in {"write", "writeEnd"}
    BY <1>3 DEF writeSocket, queues, pool, posters, ctVars
  <2>2. PICK n \in 0..Len(outbuf) : /\ wire' = wire \cup elements(SubSeq(outbuf, 1, n))
                                    /\ outbuf' = SubSeq(outbuf, n + 1, Len(outbuf))
    BY <1>3 DEF writeSocket
  <2>3. /\ outbuf' \in Seq(Requests)
        /\ elements(outbuf) = elements(SubSeq(outbuf, 1, n)) \cup elements(outbuf')
    BY <2>2, SplitElements DEF Types
  <2>4. wire' \subseteq Requests
    BY <2>2, <2>3, ElementsOf DEF Types
  <2>5. Types'
    BY <2>1, <2>3, <2>4 DEF Types
  <2>6. Held'
    <3>1. (elements(outbuf) \cup wire \cup replies)' \subseteq elements(outbuf) \cup wire \cup replies
      BY <2>1, <2>2, <2>3
    <3> QED
      BY <2>1, <3>1, MovesNothing DEF queues, pool
  <2>7. ThreadsInv' /\ WriteInv'
    BY <2>1 DEF ThreadsInv, WriteInv, isConnectState
  <2> QED
    BY <2>5, <2>6, <2>7
<1>4. CASE writeEnd
  <2>1. /\ UNCHANGED <<conn, outputQueue, myQueue, outbuf, wire, replies, useList, useMap, armed, late, queueTotal, pc,
                       woken, offered, ctPc, ctList, ctPackets, calls>>
        /\ rwPc = "writeEnd" /\ rwPc' = "writeNotify" /\ writeOn' = (writeOn /\ queueSize' # 0)
        /\ queueSize' = Len(outputQueue) + Len(myQueue) + (IF outbuf = <<>> THEN 0 ELSE 1)
    BY <1>4 DEF writeEnd, leftToWrite, queues, wireVars, pool, posters, ctVars
  <2>2. queueSize' \in Nat /\ (queueSize' = 0 => outputQueue = <<>> /\ myQueue = <<>> /\ outbuf = <<>>)
    <3>1. (outputQueue # <<>> => Len(outputQueue) > 0) /\ (myQueue # <<>> => Len(myQueue) > 0)
      BY EmptySeq, LenProperties DEF Types
    <3> QED
      BY <2>1, <3>1, CountsAreNumbers
  <2>3. Types'
    <3>1. writeOn' \in BOOLEAN
      BY <2>1
    <3> QED
      BY <2>1, <2>2, <3>1 DEF Types
  <2>4. Held'
    BY <2>1, MovesNothing DEF queues, pool
  <2>5. ThreadsInv'
    BY <2>1 DEF ThreadsInv, isConnectState
  <2>6. WriteInv'
    <3>1. writeOn
      BY <2>1 DEF ThreadsInv, WriteInv
    <3> QED
      BY <2>1, <2>2, <3>1 DEF WriteInv
  <2> QED
    BY <2>3, <2>4, <2>5, <2>6
<1>5. CASE writeNotify
  <2>1. /\ UNCHANGED <<conn, writeOn, outputQueue, myQueue, outbuf, wire, replies, useList, useMap, armed, late, pc,
                       offered, ctPc, ctList, ctPackets, calls>>
        /\ woken' \in {woken, woken \cup waitingPosters}
        /\ queueTotal' \in {queueTotal, queueSize + Cardinality(useMap)}
        /\ rwPc = "writeNotify" /\ rwPc' = "idle" /\ queueSize' = 0
    BY <1>5 DEF writeNotify, notifyPosters, recount, queues, wireVars, pool, ctVars
  <2>2. Types'
    <3>1. queueTotal' \in Nat /\ woken' \subseteq Requests
      BY <2>1, CountsAreNumbers DEF Types, waitingPosters
    <3> QED
      BY <2>1, <3>1 DEF Types
  <2>3. Held'
    BY <2>1, MovesNothing DEF queues, pool
  <2>4. ThreadsInv' /\ WriteInv'
    BY <2>1 DEF ThreadsInv, WriteInv, isConnectState
  <2> QED
    BY <2>2, <2>3, <2>4
<1> QED
  BY <1>1, <1>2, <1>3, <1>4, <1>5 DEF Write

\* The other steps of the read/write thread, the server and the clock.
LEMMA RestKeeps ==
  ASSUME IInv, \/ writeConnecting \/ callback \/ close \/ closed
               \/ \E r \in Requests : readReply(r) \/ serverReplies(r) \/ expire(r)
  PROVE  IInv'
<1> USE DEF IInv
<1>1. CASE writeConnecting
  <2>1. /\ UNCHANGED <<outputQueue, myQueue, wire, replies, useList, useMap, armed, late, queueTotal, pc, woken,
                       rwPc, queueSize, offered, ctPc, ctList, ctPackets, calls>>
        /\ rwPc = "idle" /\ conn = "CONNECTING"
        /\ \/ conn' = "CONNECTED" /\ writeOn' = TRUE /\ outbuf' = <<>>
           \/ conn' = "CLOSED" /\ writeOn' = writeOn /\ outbuf' = outbuf
    BY <1>1 DEF writeConnecting, queues, wireVars, pool, posters, rwVars, ctVars
  <2>2. outbuf' \in Seq(Requests) /\ elements(outbuf') \subseteq elements(outbuf)
    BY <2>1, EmptyElements DEF Types
  <2>3. Types'
    BY <2>1, <2>2 DEF Types
  <2>4. Held'
    <3>1. (elements(outbuf) \cup wire \cup replies)' \subseteq elements(outbuf) \cup wire \cup replies
      BY <2>1, <2>2
    <3> QED
      BY <2>1, <3>1, MovesNothing DEF queues, pool
  <2>5. ThreadsInv' /\ WriteInv'
    BY <2>1 DEF ThreadsInv, WriteInv, isConnectState
  <2> QED
    BY <2>3, <2>4, <2>5
<1>2. CASE callback
  <2>1. /\ UNCHANGED <<conn, writeOn, outputQueue, myQueue, outbuf, wire, replies, useList, useMap, armed, late,
                       queueTotal, pc, woken, queueSize, ctPc, ctList, ctPackets>>
        /\ rwPc = "callback" /\ rwPc' = "idle" /\ offered' = {}
    BY <1>2 DEF callback, queues, wireVars, pool, posters, ctVars
  <2>2. Held' /\ \E r \in Requests : callHandler(r)
    BY <1>2, CallbackMoves
  <2>3. calls' \in [Requests -> Nat]
    BY <2>2, CallsAreNumbers DEF callHandler
  <2>4. Types'
    BY <2>1, <2>3 DEF Types
  <2>5. ThreadsInv' /\ WriteInv'
    BY <2>1 DEF ThreadsInv, WriteInv, isConnectState
  <2> QED
    BY <2>2, <2>4, <2>5
<1>3. CASE close
  <2>1. /\ UNCHANGED <<conn, writeOn, outbuf, wire, replies, useList, useMap, armed, late, queueTotal, pc, woken,
                       queueSize, offered, ctList, ctPackets, calls>>
        /\ rwPc = "idle" /\ isConnectState /\ rwPc' = "closing"
        /\ outputQueue' = outputQueue \o myQueue /\ myQueue' = <<>>
        /\ ctPc' = [ctPc EXCEPT !["rw"] = "channels"]
    BY <1>3 DEF close, moveBack, ctGoto, wireVars, pool, posters
  <2>2. Held' /\ outputQueue' \in Seq(Requests) /\ myQueue' \in Seq(Requests)
    BY <2>1, QueuesJoin DEF pool, wireVars
  <2>3. /\ \A t \in Threads : ctPc'[t] = IF t = "rw" THEN "channels" ELSE ctPc[t]
        /\ ctPc' \in [Threads -> {"idle", "channels", "callChannels", "packets", "callPackets", "notify", "done"}]
    BY <2>1 DEF Types
  <2>4. Types'
    BY <2>1, <2>2, <2>3 DEF Types
  <2>5. ThreadsInv' /\ WriteInv'
    BY <2>1, <2>3 DEF ThreadsInv, WriteInv, isConnectState, Threads
  <2> QED
    BY <2>2, <2>4, <2>5
<1>4. CASE closed
  <2>1. /\ UNCHANGED <<writeOn, outputQueue, myQueue, outbuf, useList, useMap, armed, late, queueTotal, pc, woken,
                       queueSize, offered, ctList, ctPackets, calls>>
        /\ rwPc = "closing" /\ ctPc["rw"] = "done" /\ conn' = "CLOSED" /\ wire' = {} /\ replies' = {}
        /\ rwPc' = "idle" /\ ctPc' = [ctPc EXCEPT !["rw"] = "idle"]
    BY <1>4 DEF closed, ctGoto, queues, pool, posters
  <2>2. /\ \A t \in Threads : ctPc'[t] = IF t = "rw" THEN "idle" ELSE ctPc[t]
        /\ ctPc' \in [Threads -> {"idle", "channels", "callChannels", "packets", "callPackets", "notify", "done"}]
    BY <2>1 DEF Types
  <2>3. Types'
    BY <2>1, <2>2 DEF Types
  <2>4. Held'
    BY <2>1, MovesNothing DEF queues, pool
  <2>5. ThreadsInv' /\ WriteInv'
    BY <2>1, <2>2 DEF ThreadsInv, WriteInv, isConnectState, Threads
  <2> QED
    BY <2>3, <2>4, <2>5
<1>5. ASSUME NEW r \in Requests, readReply(r)
      PROVE  IInv'
  <2>1. /\ UNCHANGED <<conn, writeOn, outputQueue, myQueue, outbuf, wire, armed, late, queueTotal, pc, woken,
                       queueSize, ctPc, ctList, ctPackets, calls>>
        /\ rwPc = "idle" /\ conn = "CONNECTED" /\ replies' = replies \ {r}
        /\ \/ useMap' = useMap \ {r} /\ offered' = {r} /\ rwPc' = "callback"
           \/ UNCHANGED <<useMap, offered, rwPc>>
    BY <1>5 DEF readReply, queues, posters, ctVars
  <2>2. offered = {}
    BY <2>1 DEF ThreadsInv
  <2>3. Held' /\ useList' \in Seq(Requests)
    BY <1>5, <2>2, ReadReplyMoves
  <2>4. Types'
    BY <2>1, <2>3 DEF Types
  <2>5. ThreadsInv' /\ WriteInv'
    BY <2>1, <2>2 DEF ThreadsInv, WriteInv, isConnectState
  <2> QED
    BY <2>3, <2>4, <2>5
<1>6. ASSUME NEW r \in Requests, serverReplies(r) \/ expire(r)
      PROVE  IInv'
  <2>1. /\ UNCHANGED <<conn, writeOn, outputQueue, myQueue, outbuf, useList, useMap, armed, queueTotal, pc, woken,
                       rwPc, queueSize, offered, ctPc, ctList, ctPackets, calls>>
        /\ late' \in {late, late \cup {r}}
        /\ \/ UNCHANGED <<wire, replies>>
           \/ r \in wire /\ wire' = wire \ {r} /\ replies' = replies \cup {r}
    BY <1>6 DEF serverReplies, expire, queues, wireVars, pool, posters, rwVars, ctVars
  <2>2. Types'
    BY <2>1 DEF Types
  <2>3. Held'
    <3>1. (elements(outbuf) \cup wire \cup replies)' \subseteq elements(outbuf) \cup wire \cup replies
      BY <2>1
    <3> QED
      BY <2>1, <3>1, MovesNothing DEF queues, pool
  <2>4. ThreadsInv' /\ WriteInv'
    BY <2>1 DEF ThreadsInv, WriteInv, isConnectState
  <2> QED
    BY <2>2, <2>3, <2>4
<1> QED
  BY <1>1, <1>2, <1>3, <1>4, <1>5, <1>6

LEMMA InitInvariant == Init => IInv
<1> SUFFICES ASSUME Init PROVE IInv
  OBVIOUS
<1> USE EmptyElements
<1>1. Types
  BY DEF Init, Types
<1>2. PoolInv /\ ListsOnce
  BY DEF Init, PoolInv, ListsOnce, apart
<1>3. \A r \in Requests : ~inQueue(r) /\ ~lateInQueue(r) /\ ~lateInPool(r)
  BY DEF Init, inQueue, lateInQueue, lateInPool
<1>4. PlacesInv /\ CallsInv
  BY <1>3 DEF Init, PlacesInv, CallsInv, fresh, pushed
<1>5. ThreadsInv /\ WriteInv
  BY DEF Init, ThreadsInv, WriteInv, isConnectState, Threads
<1> QED
  BY <1>1, <1>2, <1>4, <1>5 DEF IInv, Held

LEMMA StepInvariant ==
  ASSUME IInv, [Next]_vars
  PROVE  IInv'
<1>1. ASSUME NEW r \in Requests, Post(r)
      PROVE  IInv'
  BY <1>1, PostKeeps
<1>2. ASSUME NEW t \in Threads, CheckTimeout(t)
      PROVE  IInv'
  BY <1>2, CheckTimeoutKeeps
<1>3. CASE Write
  BY <1>3, WriteKeeps
<1>4. CASE \/ writeConnecting \/ callback \/ close \/ closed
           \/ \E r \in Requests : readReply(r) \/ serverReplies(r) \/ expire(r)
  BY <1>4, RestKeeps
<1>5. CASE UNCHANGED vars
  <2>1. UNCHANGED <<conn, writeOn, outputQueue, myQueue, outbuf, wire, replies, useList, useMap, armed, late, queueTotal,
                    pc, woken, rwPc, queueSize, offered, ctPc, ctList, ctPackets, calls>>
    BY <1>5 DEF vars, queues, wireVars, pool, posters, rwVars, ctVars
  <2>2. Held'
    BY <2>1, MovesNothing DEF IInv, queues, pool
  <2>3. Types' /\ ThreadsInv' /\ WriteInv'
    BY <2>1 DEF IInv, Types, ThreadsInv, WriteInv, isConnectState
  <2> QED
    BY <2>2, <2>3 DEF IInv
<1> QED
  BY <1>1, <1>2, <1>3, <1>4, <1>5 DEF Next, ReadWriteThread, TimeoutThread, Finish, Threads

LEMMA AlwaysInvariant == Spec => []IInv
<1>1. Init => IInv
  BY InitInvariant
<1>2. IInv /\ [Next]_vars => IInv'
  BY StepInvariant
<1> QED
  BY <1>1, <1>2, PTL DEF Spec

-----------------------------------------------------------------------------
(* What follows *)

\* A packet that was accepted (src/tbnet/src/connection.cpp:56-134) is always found: the size
\* of the id map is the length of the use list, whatever is queued has EPOLLOUT asked for, what
\* is queued has a channel that only the queue's timeout answers, and a closed connection holds
\* nothing that neither timeout would find.
THEOREM PacketsAreFound == Spec => []NothingForgotten
<1>1. IInv => NothingForgotten
  <2> SUFFICES ASSUME IInv PROVE NothingForgotten
    OBVIOUS
  <2>1. UseMapIsUseList
    BY OnceCount DEF IInv, Held, PoolInv, Types, UseMapIsUseList
  <2>2. QueuedAsksToWrite
    BY DEF QueuedAsksToWrite, IInv, WriteInv
  <2>3. QueuedIsUnarmed
    <3>1. \A r \in elements(outputQueue) \cup elements(myQueue) : r \in Requests /\ inQueue(r)
      BY ElementsOf DEF IInv, Types, inQueue
    <3> QED
      BY <3>1 DEF IInv, Held, PlacesInv, QueuedIsUnarmed
  <2>4. ClosedIsWatched
    <3> SUFFICES ASSUME conn = "CLOSED", NEW r \in Requests, pc[r] \in {"count", "waiting", "accepted"}
                 PROVE  \/ calls[r] > 0 \/ beingAnswered(r)
                        \/ r \in elements(outputQueue) \/ r \in armed \cap useMap
      BY DEF ClosedIsWatched
    <3>1. myQueue = <<>> /\ elements(myQueue) = {}
      BY EmptyElements DEF IInv, ThreadsInv
    <3>2. inQueue(r) \/ lateInQueue(r) \/ lateInPool(r) \/ r \in offered \/ calls[r] = 1 \/ r \in armed \cap useMap
      BY DEF IInv, Held, CallsInv, pushed
    <3>3. inQueue(r) => r \in elements(outputQueue)
      BY <3>1 DEF inQueue
    <3>4. lateInQueue(r) \/ lateInPool(r) \/ r \in offered => beingAnswered(r)
      BY DEF lateInQueue, lateInPool, beingAnswered
    <3>5. calls[r] = 1 => calls[r] > 0
      OBVIOUS
    <3> QED
      BY <3>2, <3>3, <3>4, <3>5
  <2> QED
    BY <2>1, <2>2, <2>3, <2>4 DEF NothingForgotten
<1> QED
  BY <1>1, AlwaysInvariant, PTL

\* A packet is in one of the queues, or in the output buffer: never counted twice.
LEMMA QueuesFit ==
  ASSUME IsFiniteSet(Requests), Types, Held
  PROVE  /\ Cardinality(Requests) \in Nat /\ Cardinality(useMap) \in 0..Cardinality(Requests)
         /\ Len(outputQueue) + Len(myQueue) + (IF outbuf = <<>> THEN 0 ELSE 1) \in 0..Cardinality(Requests)
<1> DEFINE both == outputQueue \o myQueue
<1>1. /\ Cardinality(Requests) \in Nat
      /\ \A S \in SUBSET Requests : Cardinality(S) \in Nat /\ Cardinality(S) <= Cardinality(Requests)
  BY FS_CardinalityType, FS_Subset
<1>2. \A s \in Seq(Requests) : Once(s) => Len(s) \in 0..Cardinality(Requests)
  <2> SUFFICES ASSUME NEW s \in Seq(Requests), Once(s)
               PROVE  Len(s) \in 0..Cardinality(Requests)
    OBVIOUS
  <2>1. Cardinality(elements(s)) = Len(s) /\ elements(s) \in SUBSET Requests /\ Len(s) \in Nat
    BY OnceCount, ElementsOf
  <2> QED
    BY <1>1, <2>1
<1>3. /\ both \in Seq(Requests) /\ Once(both) /\ Len(both) = Len(outputQueue) + Len(myQueue)
      /\ elements(both) = elements(outputQueue) \cup elements(myQueue)
  BY ConcatElements DEF Types, Held, ListsOnce
<1> HIDE DEF both
<1>4. Cardinality(useMap) \in 0..Cardinality(Requests)
  BY <1>1 DEF Types
<1>5. CASE outbuf = <<>>
  BY <1>1, <1>2, <1>3, <1>4, <1>5, CountsAreNumbers
<1>6. CASE outbuf # <<>>
  <2>1. PICK r \in Requests : r \in elements(outbuf)
    BY <1>6, TailElements DEF Types
  <2>2. r \in armed /\ ~inQueue(r)
    BY <2>1 DEF Held, PlacesInv
  <2>3. /\ Append(both, r) \in Seq(Requests) /\ Once(Append(both, r)) /\ Len(Append(both, r)) = Len(both) + 1
    BY <1>3, <2>1, <2>2, AppendElement DEF inQueue
  <2> QED
    BY <1>1, <1>2, <1>3, <1>4, <1>6, <2>3, CountsAreNumbers
<1> QED
  BY <1>5, <1>6

\* The counts that the two threads remember are no larger than the number of packets.
Counted == queueTotal <= 2 * Cardinality(Requests) /\ queueSize <= Cardinality(Requests)

\* What a step may make of them.
recounted ==
  /\ queueTotal' \in {queueTotal, Len(outputQueue) + Len(myQueue) + Cardinality(useMap), queueSize + Cardinality(useMap)}
  /\ queueSize' \in {queueSize, 0, leftToWrite}
LEMMA CountsKept ==
  ASSUME IsFiniteSet(Requests), IInv, Counted, [Next]_vars
  PROVE  Counted'
<1> USE DEF recounted
<1>1. recounted
  <2>1. ASSUME NEW r \in Requests, Post(r)
        PROVE  recounted
    BY <2>1 DEF Post, postConnect, postLimit, postAlloc, postPush, postCount, waitSignalled, waitTimedOut, recount, rwVars
  <2>2. ASSUME NEW t \in Threads, CheckTimeout(t)
        PROVE  recounted
    BY <2>2 DEF CheckTimeout, takeChannels, callChannel, takePackets, callPacket, checkNotify, notifyPosters, recount, rwVars
  <2>3. CASE Write
    BY <2>3 DEF Write, writeMove, encode, writeSocket, writeEnd, writeNotify, notifyPosters, recount, leftToWrite, rwVars
  <2>4. CASE writeConnecting \/ callback \/ close \/ closed
    BY <2>4 DEF writeConnecting, callback, close, closed, rwVars
  <2>5. ASSUME NEW r \in Requests, readReply(r) \/ serverReplies(r) \/ expire(r)
        PROVE  recounted
    BY <2>5 DEF readReply, serverReplies, expire, rwVars
  <2>6. CASE UNCHANGED vars
    BY <2>6 DEF vars, rwVars
  <2> QED
    BY <2>1, <2>2, <2>3, <2>4, <2>5, <2>6 DEF Next, ReadWriteThread, TimeoutThread, Finish, Threads
<1> DEFINE n == Cardinality(Requests)
           queued == Len(outputQueue) + Len(myQueue)
<1>2. /\ n \in Nat /\ Cardinality(useMap) \in 0..n /\ queued \in 0..n
      /\ queued + (IF outbuf = <<>> THEN 0 ELSE 1) \in 0..n
  BY QueuesFit, CountsAreNumbers DEF IInv
<1>3. queueTotal \in Nat /\ queueSize \in Nat
  BY DEF IInv, Types
<1> HIDE DEF n, queued
<1>4. queueTotal <= 2 * n /\ queueSize <= n
  BY DEF Counted, n
<1>5. queueTotal' <= 2 * n
  BY <1>1, <1>2, <1>3, <1>4 DEF queued
<1>6. queueSize' <= n
  BY <1>1, <1>2, <1>3, <1>4 DEF queued, leftToWrite
<1> QED
  BY <1>5, <1>6 DEF Counted, n

\* Every variable of the connection has its type, and _queueTotalSize
\* (src/tbnet/src/connection.cpp:76-125, src/tbnet/src/connection.cpp:253-262), however stale,
\* is never more than twice the number of packets.
THEOREM TypesKept ==
  ASSUME IsFiniteSet(Requests)
  PROVE  Spec => []TypeOK
<1>1. Init => Counted
  BY QueuesFit, InitInvariant, FS_CardinalityType DEF Init, Counted
<1>2. IInv /\ Counted /\ [Next]_vars => Counted'
  BY CountsKept
<1>3. IInv /\ Counted => TypeOK
  <2> SUFFICES ASSUME IInv, Counted PROVE TypeOK
    OBVIOUS
  <2>1. queueTotal \in 0..(2 * Cardinality(Requests))
    BY FS_CardinalityType DEF IInv, Types, Counted
  <2> QED
    BY <2>1 DEF IInv, Types, TypeOK
<1> QED
  BY <1>1, <1>2, <1>3, AlwaysInvariant, PTL DEF Spec

-----------------------------------------------------------------------------
(* The refinement *)

AbstractVars == <<[r \in Requests |-> phaseOf(r)], calls>>

\* Whoever calls a handler answers a packet that was accepted and not answered.
LEMMA AnswerImplements ==
  ASSUME Types, NEW h \in Requests, calls[h] = 0, pushed(h), callHandler(h), UNCHANGED pc
  PROVE  Abstract!Next
<1>1. calls' = [calls EXCEPT ![h] = 1]
  BY DEF callHandler
<1>2. phaseOf(h) = "accepted"
  BY DEF pushed, phaseOf
<1>3. UNCHANGED [r \in Requests |-> phaseOf(r)]
  BY DEF phaseOf
<1> QED
  BY <1>1, <1>2, <1>3 DEF Abstract!Next, Abstract!Answer

LEMMA PostImplements ==
  ASSUME Types, NEW r \in Requests, Post(r)
  PROVE  [Abstract!Next]_AbstractVars
<1> DEFINE phase == [q \in Requests |-> phaseOf(q)]
<1>1. UNCHANGED calls
  BY DEF Post, postConnect, postLimit, postAlloc, postPush, postCount, waitSignalled, waitTimedOut
<1>2. PICK l : /\ pc' = [pc EXCEPT ![r] = l]
               /\ \/ pc[r] = "idle" /\ l \in {"limit", "refused"}
                  \/ pc[r] = "limit" /\ l \in {"alloc", "refused"}
                  \/ pc[r] = "alloc" /\ l = "push"
                  \/ pc[r] = "push" /\ l = "count"
                  \/ pc[r] \in {"count", "waiting"} /\ l \in {"waiting", "accepted"}
  BY DEF Post, postConnect, postLimit, postAlloc, postPush, postCount, waitSignalled, waitTimedOut, goto
<1>3. \A q \in Requests : pc'[q] = IF q = r THEN l ELSE pc[q]
  BY <1>2 DEF Types
<1>4. \A q \in Requests : q # r => phaseOf(q)' = phaseOf(q)
  BY <1>3 DEF phaseOf
<1>5. CASE l = "refused"
  <2>1. phaseOf(r) = "idle" /\ phaseOf(r)' = "refused"
    BY <1>2, <1>3, <1>5 DEF phaseOf
  <2>2. phase' = [phase EXCEPT ![r] = "refused"] /\ phase[r] = "idle"
    BY <1>4, <2>1
  <2> QED
    BY <1>1, <2>2 DEF Abstract!Next, Abstract!Refuse
<1>6. CASE l = "push"
  <2>1. phaseOf(r) = "idle" /\ phaseOf(r)' = "accepted"
    BY <1>2, <1>3, <1>6 DEF phaseOf
  <2>2. phase' = [phase EXCEPT ![r] = "accepted"] /\ phase[r] = "idle"
    BY <1>4, <2>1
  <2> QED
    BY <1>1, <2>2 DEF Abstract!Next, Abstract!Accept
<1>7. CASE l \notin {"refused", "push"}
  <2>1. phaseOf(r)' = phaseOf(r)
    BY <1>2, <1>3, <1>7 DEF phaseOf
  <2>2. phase' = phase
    BY <1>4, <2>1
  <2> QED
    BY <1>1, <2>2 DEF AbstractVars
<1> QED
  BY <1>5, <1>6, <1>7

LEMMA StepImplements ==
  ASSUME IInv, [Next]_vars
  PROVE  [Abstract!Next]_AbstractVars
<1> USE DEF IInv
<1>1. UNCHANGED <<pc, calls>> => UNCHANGED AbstractVars
  BY DEF AbstractVars, phaseOf
<1>2. ASSUME NEW r \in Requests, Post(r)
      PROVE  [Abstract!Next]_AbstractVars
  BY <1>2, PostImplements
<1>3. ASSUME NEW t \in Threads, CheckTimeout(t)
      PROVE  [Abstract!Next]_AbstractVars
  <2>1. CASE callChannel(t)
    <3>1. ctList[t] # <<>> /\ callHandler(Head(ctList[t])) /\ UNCHANGED pc
      BY <2>1 DEF callChannel, ThreadsInv, posters
    <3>2. calls[Head(ctList[t])] = 0 /\ pushed(Head(ctList[t])) /\ Head(ctList[t]) \in Requests
      BY <2>1, <3>1, CallChannelMoves, TailElements DEF Types
    <3> QED
      BY <3>1, <3>2, AnswerImplements
  <2>2. CASE callPacket(t)
    <3>1. ctPackets[t] # <<>> /\ callHandler(Head(ctPackets[t])) /\ UNCHANGED pc
      BY <2>2 DEF callPacket, ThreadsInv, posters
    <3>2. calls[Head(ctPackets[t])] = 0 /\ pushed(Head(ctPackets[t])) /\ Head(ctPackets[t]) \in Requests
      BY <2>2, <3>1, CallPacketMoves, TailElements DEF Types
    <3> QED
      BY <3>1, <3>2, AnswerImplements
  <2>3. CASE takeChannels(t) \/ takePackets(t) \/ checkNotify(t)
    BY <1>1, <2>3 DEF takeChannels, takePackets, checkNotify, posters
  <2> QED
    BY <1>3, <2>1, <2>2, <2>3 DEF CheckTimeout
<1>4. CASE Write
  BY <1>1, <1>4 DEF Write, writeMove, encode, writeSocket, writeEnd, writeNotify, posters
<1>5. CASE callback
  <2>1. UNCHANGED pc
    BY <1>5 DEF callback, posters
  <2> QED
    BY <1>5, <2>1, CallbackMoves, AnswerImplements
<1>6. CASE \/ writeConnecting \/ close \/ closed
           \/ \E r \in Requests : readReply(r) \/ serverReplies(r) \/ expire(r)
  BY <1>1, <1>6 DEF writeConnecting, close, closed, readReply, serverReplies, expire, posters
<1>7. CASE UNCHANGED vars
  BY <1>1, <1>7 DEF vars, posters
<1> QED
  BY <1>2, <1>3, <1>4, <1>5, <1>6, <1>7 DEF Next, ReadWriteThread, TimeoutThread, Finish, Threads

\* Reply, timeout and disconnect race for a packet (src/tbnet/src/connection.cpp:139-267,
\* src/tbnet/src/channelpool.cpp:118-250), and whatever their interleaving, the handler of an
\* accepted packet is called once at most, and of a refused one never: the connection implements
\* RequestReply.
THEOREM AnswersOnce == Spec => AnsweredAtMostOnce
<1>1. Init => Abstract!Init
  BY DEF Init, Abstract!Init, phaseOf
<1>2. IInv /\ [Next]_vars => [Abstract!Next]_AbstractVars
  BY StepImplements
<1> QED
  BY <1>1, <1>2, AlwaysInvariant, PTL DEF Spec, AnsweredAtMostOnce, Abstract!Spec, AbstractVars

=============================================================================
