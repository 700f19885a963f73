----------------------- MODULE PacketQueueThreadProofs -----------------------
(***************************************************************************)
(* Proofs, for any number of threads and packets and any limit, that a     *)
(* packet of a PacketQueueThread is in one place only, whoever stops when, *)
(* and that the queue is never longer than its limit and the calls allow.  *)
(***************************************************************************)
EXTENDS PacketQueueThread, FiniteSetTheorems, SequenceTheorems, TLAPS

Types ==
  /\ TypeOK /\ taken \in [Workers -> Seq(Packets)]
  /\ \A p \in Pushers : pPc[p] # "idle" => pushes[p] > 0
  /\ ~started => \A w \in Workers : wPc[w] = "off"

\* No packet is twice in s.
Once(s) == \A i, j \in 1..Len(s) : s[i] = s[j] => i = j

inQueue(k)  == k \in elements(queue)
isTaken(k)  == \E w \in Workers : taken[w] = <<k>>
atCaller(k) == ~made(k) \/ pushing(k)

\* The queue and the workers hold a packet once, and no two of them hold the same.
HeldOnce ==
  /\ Once(queue)
  /\ \A v, w \in Workers : taken[v] # <<>> /\ taken[v] = taken[w] => v = w
  /\ \A k \in Packets : ~(inQueue(k) /\ isTaken(k))

\* What has ended has ended once, and nobody holds it.
EndedOnce ==
  \A k \in Packets :
    /\ handled[k] + freed[k] <= 1
    /\ inQueue(k) \/ isTaken(k) => handled[k] = 0 /\ freed[k] = 0

\* What the caller of push still has is nowhere else.
CallerFirst ==
  \A k \in Packets : atCaller(k) =>
    ~inQueue(k) /\ ~isTaken(k) /\ handled[k] = 0 /\ freed[k] = 0

\* The pushers that have passed the test of the length and have yet to enter the queue.
entering == {p \in Pushers : pPc[p] = "enter" \/ (pPc[p] = "recheck" /\ ~stop)}

\* Each of them has room reserved for its packets beyond what the test leaves.
RoomLeft ==
  MaxQueueLen > 0 =>
    Len(queue) + Cardinality(entering) + Cardinality(entering \cap Batching)
      <= MaxQueueLen - 1 + Cardinality(Pushers) + Cardinality(Batching)

IInv == Types /\ HeldOnce /\ EndedOnce /\ CallerFirst /\ RoomLeft

-----------------------------------------------------------------------------
(* Sequences of packets *)

\* The packets of a call are one of a pushing thread and two of a batching one.
LEMMA LoadPackets ==
  ASSUME Types, NEW p \in Pushers, pushes[p] > 0
  PROVE  /\ load(p) \in Seq(Packets) /\ Once(load(p))
         /\ Len(load(p)) = (IF p \in Batching THEN 2 ELSE 1)
         /\ \A i \in 1..Len(load(p)) : load(p)[i] = <<p, pushes[p], i>>
<1>1. pushes[p] \in 1..(MaxPushes + MaxBatches) /\ pushes[p] <= maxCalls(p)
  BY QueueAssumption DEF Types, TypeOK, maxCalls
<1>2. <<p, pushes[p], 1>> \in Packets /\ (p \in Batching => <<p, pushes[p], 2>> \in Packets)
  BY <1>1 DEF Packets
<1> QED
  BY <1>2 DEF load, Once

LEMMA OnePacket ==
  /\ \A k : <<k>> # <<>>
  /\ \A k, h : <<k>> = <<h>> <=> k = h
  /\ \A s \in Seq(Packets) : Len(s) = 1 => s[1] \in Packets /\ s = <<s[1]>>
  /\ \A s \in Seq(Packets) : Len(s) = 0 <=> s = <<>>
<1>1. \A s \in Seq(Packets) : Len(s) = 1 => s[1] \in Packets /\ s = <<s[1]>>
  OBVIOUS
<1>2. \A s \in Seq(Packets) : Len(s) = 0 <=> s = <<>>
  BY EmptySeq
<1> QED
  BY <1>1, <1>2

LEMMA ElementsOf ==
  ASSUME NEW q \in Seq(Packets)
  PROVE  Len(q) \in Nat /\ elements(q) \subseteq Packets /\ \A i \in 1..Len(q) : q[i] \in elements(q)
BY DEF elements

LEMMA AppendLoad ==
  ASSUME NEW q \in Seq(Packets), NEW s \in Seq(Packets), Once(q), Once(s), elements(q) \cap elements(s) = {}
  PROVE  /\ q \o s \in Seq(Packets) /\ Len(q \o s) = Len(q) + Len(s)
         /\ elements(q \o s) = elements(q) \cup elements(s) /\ Once(q \o s)
<1>1. /\ q \o s \in Seq(Packets) /\ Len(q \o s) = Len(q) + Len(s) /\ Len(q) \in Nat /\ Len(s) \in Nat
      /\ \A i \in 1..Len(q) : (q \o s)[i] = q[i]
      /\ \A i \in 1..Len(s) : (q \o s)[Len(q) + i] = s[i]
  BY ConcatProperties, LenProperties
<1>2. \A i \in 1..Len(q \o s) : i \in 1..Len(q) \/ \E j \in 1..Len(s) : i = Len(q) + j
  <2>1. \A i \in 1..Len(q \o s) : i \in 1..Len(q) \/ (i - Len(q) \in 1..Len(s) /\ i = Len(q) + (i - Len(q)))
    BY <1>1
  <2> QED
    BY <2>1
<1>3. elements(q \o s) = elements(q) \cup elements(s)
  <2>1. \A i \in 1..Len(q) : i \in 1..Len(q \o s)
    BY <1>1
  <2>2. \A i \in 1..Len(s) : Len(q) + i \in 1..Len(q \o s)
    BY <1>1
  <2>3. elements(q \o s) \subseteq elements(q) \cup elements(s)
    <3> SUFFICES ASSUME NEW i \in 1..Len(q \o s) PROVE (q \o s)[i] \in elements(q) \cup elements(s)
      BY DEF elements
    <3>1. CASE i \in 1..Len(q)
      BY <1>1, <3>1, ElementsOf
    <3>2. CASE \E j \in 1..Len(s) : i = Len(q) + j
      BY <1>1, <3>2, ElementsOf
    <3> QED
      BY <1>2, <3>1, <3>2
  <2>4. elements(q) \subseteq elements(q \o s)
    BY <1>1, <2>1 DEF elements
  <2>5. elements(s) \subseteq elements(q \o s)
    BY <1>1, <2>2 DEF elements
  <2> QED
    BY <2>3, <2>4, <2>5
<1>4. \A i \in 1..Len(q), j \in 1..Len(s) : q[i] # s[j]
  BY DEF elements
<1>5. Once(q \o s)
  <2> SUFFICES ASSUME NEW i \in 1..Len(q \o s), NEW j \in 1..Len(q \o s), (q \o s)[i] = (q \o s)[j]
               PROVE  i = j
    BY DEF Once
  <2>1. CASE i \in 1..Len(q) /\ j \in 1..Len(q)
    BY <1>1, <2>1 DEF Once
  <2>2. CASE i \notin 1..Len(q) /\ j \notin 1..Len(q)
    <3>1. PICK a \in 1..Len(s), b \in 1..Len(s) : i = Len(q) + a /\ j = Len(q) + b
      BY <1>2, <2>2
    <3>2. s[a] = s[b]
      BY <1>1, <3>1
    <3> QED
      BY <3>1, <3>2 DEF Once
  <2>3. CASE i \in 1..Len(q) /\ j \notin 1..Len(q)
    BY <1>1, <1>2, <1>4, <2>3
  <2>4. CASE i \notin 1..Len(q) /\ j \in 1..Len(q)
    BY <1>1, <1>2, <1>4, <2>4
  <2> QED
    BY <2>1, <2>2, <2>3, <2>4
<1> QED
  BY <1>1, <1>3, <1>5

LEMMA WithoutHead ==
  ASSUME NEW q \in Seq(Packets), q # <<>>, Once(q)
  PROVE  /\ SubSeq(q, 2, Len(q)) \in Seq(Packets) /\ Len(SubSeq(q, 2, Len(q))) = Len(q) - 1
         /\ Head(q) \in Packets /\ Head(q) \in elements(q)
         /\ elements(SubSeq(q, 2, Len(q))) = elements(q) \ {Head(q)} /\ Once(SubSeq(q, 2, Len(q)))
<1> DEFINE t == SubSeq(q, 2, Len(q))
<1>1. Len(q) \in Nat /\ Len(q) > 0 /\ Head(q) = q[1] /\ Head(q) \in Packets
  BY EmptySeq, LenProperties, HeadTailProperties
<1>2. t \in Seq(Packets) /\ Len(t) = Len(q) - 1 /\ \A i \in 1..Len(q) - 1 : t[i] = q[i + 1]
  <2>1. t = Tail(q)
    BY TailIsSubSeq
  <2> HIDE DEF t
  <2> QED
    BY <1>1, <2>1, HeadTailProperties
<1> HIDE DEF t
<1>3. \A i \in 2..Len(q) : i - 1 \in 1..Len(q) - 1 /\ t[i - 1] = q[i]
  BY <1>1, <1>2
<1>4. elements(t) = {q[i] : i \in 2..Len(q)}
  BY <1>1, <1>2, <1>3 DEF elements
<1>5. elements(t) = elements(q) \ {Head(q)} /\ Head(q) \in elements(q)
  <2>1. elements(q) = {q[i] : i \in 2..Len(q)} \cup {q[1]}
    BY <1>1 DEF elements
  <2>2. \A i \in 2..Len(q) : q[i] # q[1]
    BY <1>1 DEF Once
  <2> QED
    BY <1>1, <1>4, <2>1, <2>2
<1>6. Once(t)
  BY <1>1, <1>2 DEF Once
<1> QED
  BY <1>1, <1>2, <1>5, <1>6 DEF t

-----------------------------------------------------------------------------
(* Where the packets are *)

Where == HeldOnce /\ EndedOnce /\ CallerFirst

\* A step that moves no packet, and gives no pusher back what it has handed over.
LEMMA MovesNothing ==
  ASSUME Where, UNCHANGED <<queue, taken, handled, freed, pushes>>,
         \A k \in Packets : pushing(k)' => pushing(k)
  PROVE  Where'
<1>1. \A k \in Packets : (inQueue(k)' <=> inQueue(k)) /\ (isTaken(k)' <=> isTaken(k)) /\ (atCaller(k)' => atCaller(k))
  BY DEF inQueue, isTaken, atCaller, made, elements
<1> QED
  BY <1>1 DEF Where, HeldOnce, EndedOnce, CallerFirst, Once

\* A worker takes the head of the queue.
LEMMA PopMoves ==
  ASSUME Types, Where, NEW w \in Workers, taken[w] = <<>>, queue # <<>>, pop(w), UNCHANGED <<pPc, pushes, handled, freed>>
  PROVE  Where'
<1> DEFINE h == Head(queue)
<1>1. /\ queue' \in Seq(Packets) /\ elements(queue') = elements(queue) \ {h} /\ Once(queue')
      /\ h \in Packets /\ h \in elements(queue)
  BY WithoutHead DEF pop, Types, TypeOK, Where, HeldOnce
<1>2. taken' = [taken EXCEPT ![w] = <<h>>] /\ taken \in [Workers -> Seq(Packets)]
  BY DEF pop, first, Types
<1> HIDE DEF h
<1>3. \A k \in Packets : isTaken(k)' <=> isTaken(k) \/ k = h
  <2>1. \A v \in Workers : taken'[v] = IF v = w THEN <<h>> ELSE taken[v]
    BY <1>2
  <2> QED
    BY <2>1, OnePacket DEF isTaken
<1>4. \A k \in Packets : inQueue(k)' <=> inQueue(k) /\ k # h
  BY <1>1 DEF inQueue, elements
<1>5. inQueue(h) /\ ~isTaken(h)
  BY <1>1 DEF inQueue, Where, HeldOnce
<1>6. ASSUME NEW u \in Workers, NEW v \in Workers, taken'[u] # <<>>, taken'[u] = taken'[v]
      PROVE  u = v
  <2>1. CASE u # w /\ v # w
    BY <1>2, <1>6, <2>1 DEF Where, HeldOnce
  <2>2. CASE u = w \/ v = w
    BY <1>2, <1>5, <1>6, <2>2 DEF isTaken
  <2> QED
    BY <2>1, <2>2
<1>7. HeldOnce'
  BY <1>1, <1>3, <1>4, <1>5, <1>6 DEF HeldOnce, Where, Once
<1>8. EndedOnce'
  BY <1>3, <1>4, <1>5 DEF EndedOnce, Where
<1>9. CallerFirst'
  <2>1. \A k \in Packets : atCaller(k)' <=> atCaller(k)
    BY DEF atCaller, made, pushing
  <2> QED
    BY <1>1, <1>3, <1>4, <1>5, <2>1 DEF CallerFirst, Where
<1> QED
  BY <1>7, <1>8, <1>9 DEF Where

\* The handler gets what the worker has taken.
LEMMA HandleMoves ==
  ASSUME Types, Where, NEW w \in Workers, runHandle(w)
  PROVE  Where'
<1>1. PICK h \in Packets : taken[w] = <<h>>
  <2>1. taken[w] \in Seq(Packets) /\ Len(taken[w]) = 1
    BY DEF Types, TypeOK, runHandle, holding
  <2> QED
    BY <2>1, OnePacket
<1>2. /\ handled' = [handled EXCEPT ![h] = @ + 1] /\ taken' = [taken EXCEPT ![w] = <<>>]
      /\ UNCHANGED <<queue, pPc, pushes, freed>>
  BY <1>1 DEF runHandle, callers
<1>3. taken \in [Workers -> Seq(Packets)] /\ handled \in [Packets -> Nat] /\ freed \in [Packets -> Nat]
  BY DEF Types, TypeOK
<1>4. isTaken(h) /\ ~inQueue(h) /\ ~atCaller(h) /\ handled[h] = 0 /\ freed[h] = 0
  BY <1>1 DEF isTaken, Where, HeldOnce, EndedOnce, CallerFirst
<1>5. \A v \in Workers : taken'[v] = IF v = w THEN <<>> ELSE taken[v]
  BY <1>2, <1>3
<1>6. /\ \A k \in Packets : (isTaken(k)' => isTaken(k)) /\ (inQueue(k)' <=> inQueue(k)) /\ (atCaller(k)' <=> atCaller(k))
      /\ ~isTaken(h)'
  <2>1. \A k \in Packets : (isTaken(k)' => isTaken(k)) /\ (inQueue(k)' <=> inQueue(k)) /\ (atCaller(k)' <=> atCaller(k))
    BY <1>2, <1>5, OnePacket DEF isTaken, inQueue, elements, atCaller, made, pushing
  <2>2. ~isTaken(h)'
    BY <1>1, <1>5, OnePacket DEF isTaken, Where, HeldOnce
  <2> QED
    BY <2>1, <2>2
<1>7. HeldOnce'
  <2>1. Once(queue')
    BY <1>2 DEF Where, HeldOnce
  <2>2. \A u, v \in Workers : taken'[u] # <<>> /\ taken'[u] = taken'[v] => u = v
    BY <1>5 DEF Where, HeldOnce
  <2> QED
    BY <1>6, <2>1, <2>2 DEF HeldOnce, Where, Once
<1>8. EndedOnce'
  <2>1. \A k \in Packets : handled'[k] = (IF k = h THEN 1 ELSE handled[k]) /\ freed'[k] = freed[k]
    BY <1>2, <1>3, <1>4
  <2>2. ~inQueue(h)'
    BY <1>4, <1>6
  <2> QED
    BY <1>4, <1>6, <2>1, <2>2 DEF EndedOnce, Where
<1>9. CallerFirst'
  BY <1>2, <1>3, <1>4, <1>6 DEF CallerFirst, Where
<1> QED
  BY <1>7, <1>8, <1>9 DEF Where

\* What is left in the queue is deleted, by a worker or by the destructor.
LEMMA FreeMoves ==
  ASSUME Types, Where, free(elements(queue)), queue' = <<>>, UNCHANGED <<taken, pPc, pushes, handled>>
  PROVE  Where'
<1>1. \A k \in Packets : /\ ~inQueue(k)' /\ (isTaken(k)' <=> isTaken(k)) /\ (atCaller(k)' <=> atCaller(k))
                         /\ freed'[k] = IF inQueue(k) THEN freed[k] + 1 ELSE freed[k]
  BY DEF free, inQueue, isTaken, elements, atCaller, made, pushing
<1>2. HeldOnce'
  <2>1. Once(queue')
    BY DEF Once
  <2> QED
    BY <1>1, <2>1 DEF HeldOnce, Where, Once
<1>3. EndedOnce'
  <2>1. \A k \in Packets : handled[k] \in Nat /\ freed[k] \in Nat /\ handled'[k] = handled[k]
    BY DEF Types, TypeOK
  <2> QED
    BY <1>1, <2>1 DEF EndedOnce, HeldOnce, Where
<1>4. CallerFirst'
  BY <1>1 DEF CallerFirst, EndedOnce, Where
<1> QED
  BY <1>2, <1>3, <1>4 DEF Where

\* A call begins: its packets are new. A stopped queue deletes the one of push at once.
LEMMA CheckStopMoves ==
  ASSUME Types, Where, NEW p \in Pushers, pushCheckStop(p)
  PROVE  Where'
<1>1. /\ UNCHANGED <<queue, taken, handled>> /\ pPc[p] = "idle" /\ pushes' = [pushes EXCEPT ![p] = @ + 1]
      /\ UNCHANGED freed \/ (free({<<p, pushes'[p], 1>>}) /\ UNCHANGED pPc)
      /\ pPc' = pPc \/ pPc' = [pPc EXCEPT ![p] = "limit"]
  BY DEF pushCheckStop, goto, workers
<1>2. pushes'[p] = pushes[p] + 1 /\ pushes[p] \in Nat /\ \A q \in Pushers : q # p => pushes'[q] = pushes[q] /\ pPc'[q] = pPc[q]
  BY <1>1 DEF Types, TypeOK
<1>3. \A k \in Packets : k[1] \in Pushers /\ k[2] \in Nat
  BY QueueAssumption DEF Packets
<1>4. \A k \in Packets : (inQueue(k)' <=> inQueue(k)) /\ (isTaken(k)' <=> isTaken(k))
  BY <1>1 DEF inQueue, isTaken, elements
<1>5. \A k \in Packets : atCaller(k)' => atCaller(k)
  <2> TAKE k \in Packets
  <2>1. CASE k[1] = p
    BY <1>1, <1>2, <1>3, <2>1 DEF atCaller, made, pushing
  <2>2. CASE k[1] # p
    BY <1>1, <1>2, <1>3, <2>2 DEF atCaller, made, pushing
  <2> QED
    BY <2>1, <2>2
<1>6. CASE UNCHANGED freed
  BY <1>1, <1>4, <1>5, <1>6 DEF Where, HeldOnce, EndedOnce, CallerFirst, Once
<1>7. CASE free({<<p, pushes'[p], 1>>}) /\ UNCHANGED pPc
  <2>n. PICK n : n = <<p, pushes'[p], 1>>
    OBVIOUS
  <2>1. \A k \in Packets : /\ freed'[k] = IF k = n THEN freed[k] + 1 ELSE freed[k]
                           /\ handled[k] \in Nat /\ freed[k] \in Nat /\ handled'[k] = handled[k]
    BY <1>1, <1>7, <2>n DEF free, Types, TypeOK
  <2>2. ~made(n) /\ made(n)' /\ ~pushing(n)'
    BY <1>1, <1>2, <1>7, <2>n DEF made, pushing
  <2>3. n \in Packets => ~inQueue(n) /\ ~isTaken(n) /\ handled[n] = 0 /\ freed[n] = 0
    BY <2>2 DEF Where, CallerFirst, atCaller
  <2>4. \A k \in Packets : atCaller(k)' => k # n
    BY <2>2 DEF atCaller
  <2>5. HeldOnce'
    BY <1>1, <1>4 DEF Where, HeldOnce, Once
  <2>6. EndedOnce'
    BY <1>4, <2>1, <2>3 DEF Where, EndedOnce
  <2>7. CallerFirst'
    BY <1>4, <1>5, <2>1, <2>4 DEF Where, CallerFirst
  <2> QED
    BY <2>5, <2>6, <2>7 DEF Where
<1> QED
  BY <1>1, <1>6, <1>7

\* A push that finds the queue stopped when it wakes up deletes its packet.
LEMMA RecheckMoves ==
  ASSUME Types, Where, NEW p \in Pushers, pPc[p] = "recheck", goto(p, "idle"), free(elements(load(p))),
         UNCHANGED <<queue, taken, handled, pushes>>
  PROVE  Where'
<1>1. /\ elements(load(p)) \subseteq Packets
      /\ \A k \in elements(load(p)) : k[1] = p /\ k[2] = pushes[p] /\ inQueue(k) = FALSE /\ isTaken(k) = FALSE
                                      /\ handled[k] = 0 /\ freed[k] = 0
  <2>1. pushes[p] > 0
    BY DEF Types
  <2>2. /\ elements(load(p)) \subseteq Packets
        /\ \A k \in elements(load(p)) : k[1] = p /\ k[2] = pushes[p]
    BY <2>1, LoadPackets, ElementsOf DEF elements
  <2>3. \A k \in elements(load(p)) : atCaller(k)
    BY <2>2 DEF atCaller, pushing
  <2> QED
    BY <2>2, <2>3 DEF Where, CallerFirst
<1>2. pPc'[p] = "idle" /\ \A q \in Pushers : q # p => pPc'[q] = pPc[q]
  BY DEF goto, Types, TypeOK
<1>3. \A k \in Packets : /\ (inQueue(k)' <=> inQueue(k)) /\ (isTaken(k)' <=> isTaken(k)) /\ (atCaller(k)' => atCaller(k))
                         /\ k \in elements(load(p)) => ~atCaller(k)'
  <2> TAKE k \in Packets
  <2>1. (inQueue(k)' <=> inQueue(k)) /\ (isTaken(k)' <=> isTaken(k)) /\ (made(k)' <=> made(k))
    BY DEF inQueue, isTaken, elements, made
  <2>2. k[1] \in Pushers
    BY DEF Packets
  <2>3. pushing(k)' => pushing(k)
    BY <1>2, <2>2 DEF pushing
  <2>4. k \in elements(load(p)) => made(k)' /\ ~pushing(k)'
    BY <1>1, <1>2 DEF made, pushing, Types, TypeOK
  <2> QED
    BY <2>1, <2>3, <2>4 DEF atCaller
<1>4. \A k \in Packets : /\ freed'[k] = IF k \in elements(load(p)) THEN freed[k] + 1 ELSE freed[k]
                         /\ handled[k] \in Nat /\ freed[k] \in Nat /\ handled'[k] = handled[k]
  BY DEF free, Types, TypeOK
<1>5. HeldOnce'
  BY <1>3 DEF Where, HeldOnce, Once
<1>6. EndedOnce'
  BY <1>1, <1>3, <1>4 DEF Where, EndedOnce
<1>7. CallerFirst'
  BY <1>3, <1>4 DEF Where, CallerFirst
<1> QED
  BY <1>5, <1>6, <1>7 DEF Where

\* The packets of a call enter the queue, which had none of them.
LEMMA EnterMoves ==
  ASSUME Types, Where, NEW p \in Pushers, pushEnter(p)
  PROVE  Where'
<1>1. /\ queue' = queue \o load(p) /\ pPc[p] = "enter" /\ pPc' = [pPc EXCEPT ![p] = "wake"]
      /\ UNCHANGED <<taken, pushes, handled, freed>>
  BY DEF pushEnter, goto, workers, fates
<1>2. /\ load(p) \in Seq(Packets) /\ Once(load(p))
      /\ \A k \in elements(load(p)) : /\ k \in Packets /\ k[1] = p /\ k[2] = pushes[p]
                                      /\ ~inQueue(k) /\ ~isTaken(k) /\ handled[k] = 0 /\ freed[k] = 0
  <2>1. pushes[p] > 0
    BY <1>1 DEF Types
  <2>2. load(p) \in Seq(Packets) /\ Once(load(p)) /\ elements(load(p)) \subseteq Packets
    BY <2>1, LoadPackets, ElementsOf
  <2>3. \A k \in elements(load(p)) : k[1] = p /\ k[2] = pushes[p]
    BY <2>1, LoadPackets DEF elements
  <2>4. \A k \in elements(load(p)) : atCaller(k)
    BY <1>1, <2>3 DEF atCaller, pushing
  <2> QED
    BY <2>2, <2>3, <2>4 DEF Where, CallerFirst
<1>3. Once(queue') /\ elements(queue') = elements(queue) \cup elements(load(p))
  <2>1. elements(queue) \cap elements(load(p)) = {}
    BY <1>2 DEF inQueue
  <2> QED
    BY <1>1, <1>2, <2>1, AppendLoad DEF Where, HeldOnce, Types, TypeOK
<1>4. pPc'[p] = "wake" /\ \A q \in Pushers : q # p => pPc'[q] = pPc[q]
  BY <1>1 DEF Types, TypeOK
<1>5. \A k \in Packets : /\ (inQueue(k)' <=> inQueue(k) \/ k \in elements(load(p))) /\ (isTaken(k)' <=> isTaken(k))
                         /\ (atCaller(k)' => atCaller(k) /\ k \notin elements(load(p)))
  <2> TAKE k \in Packets
  <2>1. (inQueue(k)' <=> inQueue(k) \/ k \in elements(load(p))) /\ (isTaken(k)' <=> isTaken(k)) /\ (made(k)' <=> made(k))
    BY <1>1, <1>3 DEF inQueue, isTaken, elements, made
  <2>2. k[1] \in Pushers
    BY DEF Packets
  <2>3. pushing(k)' => pushing(k)
    BY <1>1, <1>4, <2>2 DEF pushing
  <2>4. k \in elements(load(p)) => made(k)' /\ ~pushing(k)'
    BY <1>1, <1>2, <1>4 DEF made, pushing, Types, TypeOK
  <2> QED
    BY <2>1, <2>3, <2>4 DEF atCaller
<1>6. HeldOnce'
  <2>1. \A k \in Packets : ~(inQueue(k)' /\ isTaken(k)')
    BY <1>2, <1>5 DEF Where, HeldOnce
  <2> QED
    BY <1>1, <1>3, <2>1 DEF Where, HeldOnce, Once
<1>7. EndedOnce'
  BY <1>1, <1>2, <1>5 DEF Where, EndedOnce
<1>8. CallerFirst'
  BY <1>1, <1>5 DEF Where, CallerFirst
<1> QED
  BY <1>6, <1>7, <1>8 DEF Where

-----------------------------------------------------------------------------
(* How long the queue is *)

LEMMA PushersFinite ==
  ASSUME NEW S \in SUBSET Pushers
  PROVE  /\ IsFiniteSet(S) /\ Cardinality(S) \in Nat /\ Cardinality(S) <= Cardinality(Pushers)
         /\ IsFiniteSet(S \cap Batching) /\ Cardinality(S \cap Batching) \in Nat
         /\ Cardinality(S \cap Batching) <= Cardinality(Batching)
         /\ Cardinality(Pushers) \in Nat /\ Cardinality(Batching) \in Nat
<1>1. IsFiniteSet(Pushers) /\ IsFiniteSet(Batching)
  BY QueueAssumption, FS_Union DEF Pushers
<1>2. S \in SUBSET Pushers /\ S \cap Batching \in SUBSET Batching
  OBVIOUS
<1> QED
  BY <1>1, <1>2, FS_Subset, FS_CardinalityType

LEMMA OnePusherLess ==
  ASSUME NEW S \in SUBSET Pushers, NEW p \in S
  PROVE  /\ Cardinality(S \ {p}) = Cardinality(S) - 1
         /\ Cardinality((S \ {p}) \cap Batching) = Cardinality(S \cap Batching) - (IF p \in Batching THEN 1 ELSE 0)
<1>1. IsFiniteSet(S) /\ IsFiniteSet(S \cap Batching) /\ Cardinality(S \cap Batching) \in Nat
  BY PushersFinite
<1>2. Cardinality(S \ {p}) = Cardinality(S) - 1
  BY <1>1, FS_RemoveElement
<1>3. (S \ {p}) \cap Batching = (S \cap Batching) \ {p}
  OBVIOUS
<1>4. Cardinality((S \cap Batching) \ {p}) = IF p \in S \cap Batching THEN Cardinality(S \cap Batching) - 1
                                                                      ELSE Cardinality(S \cap Batching)
  BY <1>1, FS_RemoveElement
<1> QED
  BY <1>1, <1>2, <1>3, <1>4

LEMMA RoomKept ==
  ASSUME Types, Types', RoomLeft, Len(queue') <= Len(queue), entering' \subseteq entering
  PROVE  RoomLeft'
<1>1. /\ Cardinality(entering') \in Nat /\ Cardinality(entering') <= Cardinality(entering)
      /\ Cardinality(entering' \cap Batching) \in Nat
      /\ Cardinality(entering' \cap Batching) <= Cardinality(entering \cap Batching)
  <2>1. entering \in SUBSET Pushers /\ entering' \in SUBSET entering /\ entering' \cap Batching \in SUBSET (entering \cap Batching)
    BY DEF entering
  <2> HIDE DEF entering
  <2> QED
    BY <2>1, PushersFinite, FS_Subset, FS_CardinalityType
<1>2. Len(queue) \in Nat /\ Len(queue') \in Nat
  BY DEF Types, TypeOK
<1>3. /\ Cardinality(entering) \in Nat /\ Cardinality(entering \cap Batching) \in Nat
      /\ Cardinality(Pushers) \in Nat /\ Cardinality(Batching) \in Nat
  BY PushersFinite DEF entering
<1> QED
  BY <1>1, <1>2, <1>3, QueueAssumption DEF RoomLeft

\* Whoever passes the test leaves a place for each call that can be under way.
LEMMA RoomTested ==
  ASSUME Types, ~full, UNCHANGED queue
  PROVE  RoomLeft'
<1>1. /\ Cardinality(entering') \in Nat /\ Cardinality(entering') <= Cardinality(Pushers)
      /\ Cardinality(entering' \cap Batching) \in Nat
      /\ Cardinality(entering' \cap Batching) <= Cardinality(Batching)
      /\ Cardinality(Pushers) \in Nat /\ Cardinality(Batching) \in Nat
  <2>1. entering' \in SUBSET Pushers
    BY DEF entering
  <2> QED
    BY <2>1, PushersFinite
<1>2. Len(queue) \in Nat
  BY DEF Types, TypeOK
<1> QED
  BY <1>1, <1>2, QueueAssumption DEF RoomLeft, full

\* The packets that enter take the room that was kept for them.
LEMMA RoomTaken ==
  ASSUME Types, RoomLeft, NEW p \in Pushers, pushEnter(p)
  PROVE  RoomLeft'
<1>1. queue' = queue \o load(p) /\ p \in entering /\ entering' = entering \ {p} /\ entering \in SUBSET Pushers
  BY DEF pushEnter, goto, entering, flags, Types, TypeOK
<1>2. /\ load(p) \in Seq(Packets) /\ queue \in Seq(Packets) /\ Len(load(p)) = (IF p \in Batching THEN 2 ELSE 1)
  <2>1. pushes[p] > 0
    BY DEF pushEnter, Types
  <2> QED
    BY <2>1, LoadPackets DEF Types, TypeOK
<1>3. Len(queue') = Len(queue) + (IF p \in Batching THEN 2 ELSE 1) /\ Len(queue) \in Nat
  <2>1. Len(queue \o load(p)) = Len(queue) + Len(load(p)) /\ Len(queue) \in Nat
    BY <1>2, ConcatProperties, LenProperties
  <2> QED
    BY <1>1, <1>2, <2>1
<1>4. /\ Cardinality(entering') = Cardinality(entering) - 1
      /\ Cardinality(entering' \cap Batching) = Cardinality(entering \cap Batching) - (IF p \in Batching THEN 1 ELSE 0)
  BY <1>1, OnePusherLess
<1>5. /\ Cardinality(entering) \in Nat /\ Cardinality(entering \cap Batching) \in Nat
      /\ Cardinality(Pushers) \in Nat /\ Cardinality(Batching) \in Nat
  BY <1>1, PushersFinite
<1> DEFINE two == IF p \in Batching THEN 1 ELSE 0
<1>6. Len(queue') = Len(queue) + 1 + two /\ two \in Nat /\ Len(queue) \in Nat
  BY <1>3
<1>7. Cardinality(entering' \cap Batching) = Cardinality(entering \cap Batching) - two
  BY <1>4
<1> HIDE DEF two
<1> QED
  BY <1>4, <1>5, <1>6, <1>7, QueueAssumption DEF RoomLeft

-----------------------------------------------------------------------------
(* The invariant *)

LEMMA InitInvariant == Init => IInv
<1> SUFFICES ASSUME Init PROVE IInv
  OBVIOUS
<1>1. Types
  <2>1. \A p \in Pushers : maxCalls(p) \in Nat
    BY QueueAssumption DEF maxCalls
  <2>2. <<>> \in Seq(Packets) /\ Len(<<>>) = 0
    OBVIOUS
  <2>3. /\ taken \in [Workers -> Seq(Packets)] /\ pushes \in [Pushers -> Nat]
        /\ handled \in [Packets -> Nat] /\ freed \in [Packets -> Nat]
    BY <2>2 DEF Init
  <2>4. \A p \in Pushers : pushes[p] <= maxCalls(p) /\ pPc[p] = "idle"
    BY <2>1 DEF Init
  <2>5. \A w \in Workers : taken[w] = <<>> /\ wPc[w] = "off"
    BY DEF Init
  <2>6. \A w \in Workers : taken[w] \in Seq(Packets) /\ Len(taken[w]) = (IF wPc[w] \in holding THEN 1 ELSE 0)
    BY <2>2, <2>5 DEF holding
  <2> QED
    BY <2>2, <2>3, <2>4, <2>6 DEF Init, Types, TypeOK
<1>2. \A k \in Packets : ~inQueue(k) /\ ~isTaken(k)
  BY OnePacket DEF Init, inQueue, isTaken, elements
<1>3. HeldOnce /\ EndedOnce /\ CallerFirst
  BY <1>2 DEF Init, HeldOnce, EndedOnce, CallerFirst, Once
<1>4. RoomLeft
  <2>1. entering = {} /\ entering \cap Batching = {} /\ Len(queue) = 0
    BY DEF Init, entering
  <2>2. Cardinality({}) = 0 /\ Cardinality(Pushers) \in Nat /\ Cardinality(Batching) \in Nat
    BY FS_EmptySet, PushersFinite
  <2> QED
    BY <2>1, <2>2, QueueAssumption DEF RoomLeft
<1> QED
  BY <1>1, <1>3, <1>4 DEF IInv

LEMMA FreeCounts ==
  ASSUME freed \in [Packets -> Nat], NEW S, free(S)
  PROVE  freed' \in [Packets -> Nat]
BY DEF free

LEMMA CallerStep ==
  ASSUME IInv, NEW p \in Pushers, pushCheckStop(p) \/ Push(p)
  PROVE  IInv'
<1> USE DEF IInv, Where
<1>1. CASE pushCheckStop(p)
  <2>1. Types'
    <3>1. freed' \in [Packets -> Nat]
      BY <1>1 DEF pushCheckStop, free, Types, TypeOK
    <3>2. /\ pushes' = [pushes EXCEPT ![p] = @ + 1] /\ pushes[p] < maxCalls(p) /\ maxCalls(p) \in Nat
          /\ pPc' = pPc \/ pPc' = [pPc EXCEPT ![p] = "limit"]
          /\ UNCHANGED <<queue, flags, waiting, workers, handled>>
      BY <1>1, QueueAssumption DEF pushCheckStop, goto, maxCalls
    <3>3. pushes' \in [Pushers -> Nat] /\ \A q \in Pushers : pushes'[q] <= maxCalls(q) /\ pushes'[q] >= pushes[q]
      BY <3>2 DEF Types, TypeOK
    <3>4. \A q \in Pushers : pPc'[q] # "idle" => pushes'[q] > 0
      BY <3>2, <3>3 DEF Types, TypeOK
    <3> QED
      BY <3>1, <3>2, <3>3, <3>4 DEF flags, workers, Types, TypeOK
  <2>2. entering' \subseteq entering /\ queue' = queue
    BY <1>1 DEF pushCheckStop, goto, entering, flags, Types, TypeOK
  <2>3. RoomLeft'
    BY <2>1, <2>2, RoomKept, ElementsOf DEF Types, TypeOK
  <2> QED
    BY <1>1, <2>1, <2>3, CheckStopMoves
<1>2. CASE pushCheckLimit(p) \/ pushFull(p) \/ pushWakes(p)
  <2>1. Types'
    BY <1>2 DEF pushCheckLimit, pushFull, pushWakes, pushLoop, pushRefused, goto, flags, workers, fates, Types, TypeOK
  <2>2. UNCHANGED <<queue, taken, handled, freed, pushes, stop>>
    BY <1>2 DEF pushCheckLimit, pushFull, pushWakes, flags, workers, fates
  <2>3. pPc[p] \in {"limit", "full", "woken", "asleep"} /\ \A q \in Pushers : q # p => pPc'[q] = pPc[q]
    BY <1>2 DEF pushCheckLimit, pushFull, pushWakes, pushLoop, pushRefused, goto, Types, TypeOK
  <2>4. \A k \in Packets : pushing(k)' => pushing(k)
    BY <2>2, <2>3 DEF pushing, Packets
  <2>5. Where'
    BY <2>2, <2>4, MovesNothing
  <2>6. ~full \/ entering' \subseteq entering
    BY <1>2, <2>2 DEF pushCheckLimit, pushFull, pushWakes, pushLoop, pushRefused, goto, entering, Types, TypeOK
  <2>7. RoomLeft'
    BY <2>1, <2>2, <2>6, RoomKept, RoomTested, ElementsOf DEF Types, TypeOK
  <2> QED
    BY <2>1, <2>5, <2>7
<1>3. CASE pushRecheckStop(p)
  <2>1. Types'
    <3>1. freed' \in [Packets -> Nat]
      <4>1. UNCHANGED freed \/ free(elements(load(p)))
        BY <1>3 DEF pushRecheckStop
      <4> QED
        BY <4>1, FreeCounts DEF Types, TypeOK
    <3> QED
      BY <1>3, <3>1 DEF pushRecheckStop, goto, flags, workers, Types, TypeOK
  <2>2. UNCHANGED <<queue, taken, handled, pushes, stop>> /\ pPc[p] = "recheck"
    BY <1>3 DEF pushRecheckStop, flags, workers
  <2>3. entering' \subseteq entering
    BY <1>3, <2>2 DEF pushRecheckStop, goto, entering, Types, TypeOK
  <2>4. RoomLeft'
    BY <2>1, <2>2, <2>3, RoomKept, ElementsOf DEF Types, TypeOK
  <2>5. CASE UNCHANGED freed
    <3>1. \A q \in Pushers : q # p => pPc'[q] = pPc[q]
      BY <1>3 DEF pushRecheckStop, goto, Types, TypeOK
    <3>2. \A k \in Packets : pushing(k)' => pushing(k)
      BY <2>2, <3>1 DEF pushing, Packets
    <3> QED
      BY <2>1, <2>2, <2>4, <2>5, <3>2, MovesNothing
  <2>6. CASE free(elements(load(p))) /\ goto(p, "idle")
    BY <2>1, <2>2, <2>4, <2>6, RecheckMoves
  <2> QED
    BY <1>3, <2>5, <2>6 DEF pushRecheckStop
<1>4. CASE pushEnter(p)
  <2>1. Types'
    <3>1. load(p) \in Seq(Packets)
      BY <1>4, LoadPackets DEF pushEnter, Types
    <3> QED
      BY <1>4, <3>1, ConcatProperties DEF pushEnter, goto, flags, workers, fates, Types, TypeOK
  <2> QED
    BY <1>4, <2>1, EnterMoves, RoomTaken
<1>5. CASE pushSignal(p)
  <2>1. UNCHANGED <<queue, taken, handled, freed, pushes, stop>> /\ pPc[p] = "wake" /\ \A q \in Pushers : q # p => pPc'[q] = pPc[q]
    BY <1>5 DEF pushSignal, goto, flags, fates, Types, TypeOK
  <2>2. wPc' = wPc \/ \E w \in Workers : wPc[w] = "asleep" /\ wPc' = [wPc EXCEPT ![w] = "lock"]
    BY <1>5 DEF pushSignal, signal, wGoto
  <2>3. Types'
    BY <1>5, <2>1, <2>2 DEF pushSignal, goto, flags, fates, holding, Types, TypeOK
  <2>4. \A k \in Packets : pushing(k)' => pushing(k)
    BY <1>5, <2>1 DEF pushSignal, goto, pushing, Packets, Types, TypeOK
  <2>5. entering' \subseteq entering
    BY <1>5, <2>1 DEF pushSignal, goto, entering, Types, TypeOK
  <2>6. Where' /\ RoomLeft'
    BY <2>1, <2>3, <2>4, <2>5, MovesNothing, RoomKept, ElementsOf DEF Types, TypeOK
  <2> QED
    BY <2>3, <2>6
<1> QED
  BY <1>1, <1>2, <1>3, <1>4, <1>5 DEF Push

\* Taking the head of the queue is the same in the loop and in the last round.
LEMMA PopStep ==
  ASSUME IInv, NEW w \in Workers, wPc[w] \notin holding \cup {"off"}, ~noPacket, pop(w),
         wGoto(w, "taken") \/ wGoto(w, "drainHandle"),
         UNCHANGED <<flags, waiting, callers, fates>>
  PROVE  IInv'
<1> USE DEF IInv
<1>1. /\ queue # <<>> /\ queue \in Seq(Packets) /\ Once(queue) /\ taken[w] = <<>>
      /\ UNCHANGED <<pPc, pushes, handled, freed, stop>>
  BY OnePacket DEF noPacket, Types, TypeOK, HeldOnce, callers, fates, flags
<1>2. /\ queue' \in Seq(Packets) /\ Len(queue') = Len(queue) - 1 /\ Head(queue) \in Packets
      /\ taken' = [taken EXCEPT ![w] = <<Head(queue)>>]
  BY <1>1, WithoutHead DEF pop, first
<1>3. Where'
  BY <1>1, PopMoves DEF Where
<1>4. Types'
  <2>1. \A v \in Workers : taken'[v] = (IF v = w THEN <<Head(queue)>> ELSE taken[v])
    BY <1>2 DEF Types
  <2>2. <<Head(queue)>> \in Seq(Packets) /\ Len(<<Head(queue)>>) = 1
    BY <1>2
  <2>3. taken' \in [Workers -> Seq(Packets)]
    BY <1>2, <2>2 DEF Types
  <2>4. /\ wPc' \in [Workers -> {"off", "loop", "lock", "asleep", "taken", "signal", "handle", "finish",
                                 "drain", "drainHandle", "free", "done"}]
        /\ \A v \in Workers : wPc'[v] \in holding <=> v = w \/ wPc[v] \in holding
    BY DEF wGoto, holding, Types, TypeOK
  <2>5. \A v \in Workers : Len(taken'[v]) = (IF wPc'[v] \in holding THEN 1 ELSE 0)
    BY <2>1, <2>2, <2>4 DEF Types, TypeOK
  <2> QED
    BY <1>2, <2>3, <2>4, <2>5 DEF flags, callers, fates, Types, TypeOK
<1>5. entering' \subseteq entering
  BY <1>1 DEF entering
<1>6. RoomLeft'
  BY <1>1, <1>2, <1>4, <1>5, RoomKept, ElementsOf
<1> QED
  BY <1>3, <1>4, <1>6 DEF Where

\* A worker that goes on without touching a packet.
LEMMA WorkerGoes ==
  ASSUME IInv, NEW w \in Workers, NEW label, wGoto(w, label), wPc[w] # "off", wPc[w] \in holding <=> label \in holding,
         label \in {"off", "loop", "lock", "asleep", "taken", "signal", "handle", "finish",
                    "drain", "drainHandle", "free", "done"},
         UNCHANGED <<queue, flags, waiting, taken, pushes, fates>>,
         pPc' = pPc \/ \E p \in Pushers : pPc[p] = "asleep" /\ pPc' = [pPc EXCEPT ![p] = "woken"]
  PROVE  IInv'
<1> USE DEF IInv
<1>1. Types'
  <2>1. /\ wPc' \in [Workers -> {"off", "loop", "lock", "asleep", "taken", "signal", "handle", "finish",
                                 "drain", "drainHandle", "free", "done"}]
        /\ \A v \in Workers : wPc'[v] \in holding <=> wPc[v] \in holding
    BY DEF wGoto, Types, TypeOK
  <2>2. /\ pPc' \in [Pushers -> {"idle", "limit", "full", "asleep", "woken", "recheck", "enter", "wake"}]
        /\ \A p \in Pushers : pPc'[p] # "idle" => pPc[p] # "idle"
    BY DEF Types, TypeOK
  <2> QED
    BY <2>1, <2>2 DEF flags, fates, Types, TypeOK
<1>2. \A k \in Packets : pushing(k)' => pushing(k)
  BY DEF pushing, Packets, Types, TypeOK
<1>3. Where'
  BY <1>2, MovesNothing DEF Where, fates
<1>4. entering' \subseteq entering
  BY DEF entering, flags, Types, TypeOK
<1>5. RoomLeft'
  BY <1>1, <1>4, RoomKept, ElementsOf DEF Types, TypeOK
<1> QED
  BY <1>1, <1>3, <1>5 DEF Where

\* The end of everything that is queued, by a worker or by the destructor.
LEMMA FreeStep ==
  ASSUME IInv, Types', free(elements(queue)), queue' = <<>>, UNCHANGED <<taken, pPc, pushes, handled>>, stop => stop'
  PROVE  IInv'
<1> USE DEF IInv
<1>1. Where'
  BY FreeMoves DEF Where
<1>2. entering' \subseteq entering
  BY DEF entering
<1>3. Len(queue') <= Len(queue)
  BY DEF Types, TypeOK
<1>4. RoomLeft'
  BY <1>2, <1>3, RoomKept
<1> QED
  BY <1>1, <1>4 DEF Where

LEMMA WorkerStep ==
  ASSUME IInv, NEW w \in Workers, Run(w)
  PROVE  IInv'
<1>1. CASE runLoop(w) \/ runCheckWaiting(w) \/ runSignal(w) \/ runFinish(w)
  <2>1. UNCHANGED <<queue, flags, waiting, taken, pushes, fates>>
    BY <1>1 DEF runLoop, runCheckWaiting, runSignal, runFinish, callers
  <2>2. pPc' = pPc \/ \E p \in Pushers : pPc[p] = "asleep" /\ pPc' = [pPc EXCEPT ![p] = "woken"]
    BY <1>1 DEF runLoop, runCheckWaiting, runSignal, runFinish, callers, goto
  <2>3. \E label \in {"loop", "lock", "signal", "handle", "finish", "drain", "free"} :
          wGoto(w, label) /\ wPc[w] # "off" /\ (wPc[w] \in holding <=> label \in holding)
    BY <1>1 DEF runLoop, runCheckWaiting, runSignal, runFinish, holding
  <2> QED
    BY <2>1, <2>2, <2>3, WorkerGoes
<1>2. CASE runLock(w)
  <2>1. wPc[w] = "lock" /\ wPc[w] \notin holding /\ UNCHANGED <<flags, waiting, callers, fates>>
    BY <1>2 DEF runLock, holding
  <2>2. CASE ~noPacket /\ wGoto(w, "taken") /\ pop(w)
    BY <2>1, <2>2, PopStep
  <2>3. CASE (wGoto(w, "finish") \/ wGoto(w, "asleep")) /\ UNCHANGED <<queue, taken>>
    BY <2>1, <2>3, WorkerGoes DEF callers, holding
  <2> QED
    BY <1>2, <2>2, <2>3 DEF runLock
<1>3. CASE runHandle(w)
  <2>1. Types /\ Where /\ Where'
    BY <1>3, HandleMoves DEF IInv, Where
  <2>2. /\ wPc[w] \in {"handle", "drainHandle"} /\ taken' = [taken EXCEPT ![w] = <<>>]
        /\ wGoto(w, "loop") \/ wGoto(w, "drain")
        /\ handled' = [handled EXCEPT ![taken[w][1]] = @ + 1]
        /\ UNCHANGED <<queue, flags, waiting, callers, freed>>
    BY <1>3 DEF runHandle
  <2>3. Types'
    <3>1. taken[w][1] \in Packets
      BY <2>1, <2>2, OnePacket DEF holding, Types, TypeOK
    <3>2. handled' \in [Packets -> Nat]
      BY <2>1, <2>2, <3>1 DEF Types, TypeOK
    <3>3. /\ wPc' \in [Workers -> {"off", "loop", "lock", "asleep", "taken", "signal", "handle", "finish",
                                   "drain", "drainHandle", "free", "done"}]
          /\ \A v \in Workers : wPc'[v] \in holding <=> v # w /\ wPc[v] \in holding
      BY <2>1, <2>2 DEF wGoto, holding, Types, TypeOK
    <3>4. <<>> \in Seq(Packets) /\ Len(<<>>) = 0
      OBVIOUS
    <3>5. taken' \in [Workers -> Seq(Packets)] /\ \A v \in Workers : taken'[v] = IF v = w THEN <<>> ELSE taken[v]
      BY <2>1, <2>2, <3>4 DEF Types
    <3>6. \A v \in Workers : taken'[v] \in Seq(Packets) /\ Len(taken'[v]) = IF wPc'[v] \in holding THEN 1 ELSE 0
      BY <2>1, <3>3, <3>4, <3>5 DEF Types, TypeOK
    <3> QED
      BY <2>1, <2>2, <3>2, <3>3, <3>5, <3>6 DEF flags, callers, Types, TypeOK
  <2>4. entering' \subseteq entering
    BY <2>2 DEF entering, flags, callers
  <2>5. RoomLeft'
    <3>1. Types /\ RoomLeft
      BY DEF IInv
    <3>2. Len(queue') <= Len(queue)
      BY <2>2, <3>1, ElementsOf DEF Types, TypeOK
    <3> QED
      BY <2>3, <2>4, <3>1, <3>2, RoomKept
  <2> QED
    BY <2>1, <2>3, <2>5 DEF IInv, Where
<1>4. CASE runDrain(w)
  <2>1. wPc[w] = "drain" /\ wPc[w] \notin holding /\ UNCHANGED <<flags, waiting, callers, fates>>
    BY <1>4 DEF runDrain, holding
  <2>2. CASE ~noPacket /\ wGoto(w, "drainHandle") /\ pop(w)
    BY <2>1, <2>2, PopStep
  <2>3. CASE wGoto(w, "done") /\ UNCHANGED <<queue, taken>>
    BY <2>1, <2>3, WorkerGoes DEF callers, holding
  <2> QED
    BY <1>4, <2>2, <2>3 DEF runDrain
<1>5. CASE runFree(w)
  <2>1. /\ wPc[w] = "free" /\ wGoto(w, "done") /\ free(elements(queue)) /\ queue' = <<>>
        /\ UNCHANGED <<flags, waiting, taken, callers, handled>>
    BY <1>5 DEF runFree
  <2>2. freed' \in [Packets -> Nat] /\ <<>> \in Seq(Packets)
    BY <2>1, FreeCounts DEF IInv, Types, TypeOK
  <2>3. Types'
    BY <2>1, <2>2 DEF wGoto, holding, flags, callers, IInv, Types, TypeOK
  <2> QED
    BY <2>1, <2>3, FreeStep DEF flags, callers
<1> QED
  BY <1>1, <1>2, <1>3, <1>4, <1>5 DEF Run

LEMMA OwnerStep ==
  ASSUME IInv, start \/ stopBegin \/ stopEnd \/ destroy
  PROVE  IInv'
<1> USE DEF IInv
<1>1. CASE start \/ stopBegin \/ stopEnd
  <2>1. UNCHANGED <<queue, taken, pPc, pushes, handled, freed>> /\ (stop => stop')
    BY <1>1 DEF start, stopBegin, stopEnd, workers, callers, fates
  <2>2. Types'
    <3>1. CASE start
      <4>1. \A w \in Workers : wPc[w] \notin holding
        BY <3>1 DEF start, holding, Types
      <4> QED
        BY <3>1, <4>1 DEF start, holding, callers, fates, Types, TypeOK
    <3>2. CASE stopBegin
      BY <3>2 DEF stopBegin, workers, callers, fates, Types, TypeOK
    <3>3. CASE stopEnd
      BY <3>3 DEF stopEnd, broadcast, holding, callers, fates, Types, TypeOK
    <3> QED
      BY <1>1, <3>1, <3>2, <3>3
  <2>3. \A k \in Packets : pushing(k)' => pushing(k)
    BY <2>1 DEF pushing
  <2>4. Where'
    BY <2>1, <2>3, MovesNothing DEF Where
  <2>5. entering' \subseteq entering
    BY <2>1 DEF entering
  <2>6. RoomLeft'
    BY <2>1, <2>2, <2>5, RoomKept, ElementsOf DEF Types, TypeOK
  <2> QED
    BY <2>2, <2>4, <2>6 DEF Where
<1>2. CASE destroy
  <2>1. freed' \in [Packets -> Nat] /\ <<>> \in Seq(Packets)
    BY <1>2, FreeCounts DEF destroy, Types, TypeOK
  <2>2. Types'
    BY <1>2, <2>1 DEF destroy, workers, callers, Types, TypeOK
  <2> QED
    BY <1>2, <2>2, FreeStep DEF destroy, workers, callers
<1> QED
  BY <1>1, <1>2

LEMMA StepInvariant == IInv /\ [Next]_vars => IInv'
<1> SUFFICES ASSUME IInv, [Next]_vars PROVE IInv'
  OBVIOUS
<1>1. CASE \E p \in Pushers : pushCheckStop(p) \/ Push(p)
  BY <1>1, CallerStep
<1>2. CASE \E w \in Workers : Run(w)
  BY <1>2, WorkerStep
<1>3. CASE start \/ stopBegin \/ stopEnd \/ destroy
  BY <1>3, OwnerStep
<1>4. CASE UNCHANGED vars
  <2>1. UNCHANGED <<queue, started, stop, waitFinish, stopPc, destroyed, waiting, wPc, taken, pPc, pushes, handled, freed>>
    BY <1>4 DEF vars, flags, workers, callers, fates
  <2>2. Types'
    BY <2>1 DEF IInv, Types, TypeOK
  <2>3. \A k \in Packets : pushing(k)' => pushing(k)
    BY <2>1 DEF pushing
  <2>4. Where'
    BY <2>1, <2>3, MovesNothing DEF IInv, Where
  <2>5. RoomLeft'
    BY <2>1 DEF IInv, RoomLeft, entering
  <2> QED
    BY <2>2, <2>4, <2>5 DEF IInv, Where
<1> QED
  BY <1>1, <1>2, <1>3, <1>4 DEF Next, Terminated

LEMMA AlwaysInvariant == Spec => []IInv
BY InitInvariant, StepInvariant, PTL DEF Spec

\* A sequence without repetition has a packet once at most, and the workers too.
LEMMA PlacesCount ==
  ASSUME IInv, NEW k \in Packets
  PROVE  places(k) = (IF inQueue(k) THEN 1 ELSE 0) + (IF isTaken(k) THEN 1 ELSE 0) + handled[k] + freed[k]
<1> DEFINE Q == {i \in 1..Len(queue) : queue[i] = k}
           T == {w \in Workers : taken[w] = <<k>>}
<1>1. Q = {} \/ \E i : Q = {i}
  <2>1. Once(queue)
    BY DEF IInv, HeldOnce
  <2>2. \A i \in Q, j \in Q : i = j
    BY <2>1 DEF Once
  <2> QED
    BY <2>2
<1>2. Q # {} <=> inQueue(k)
  BY DEF inQueue, elements
<1>3. T = {} \/ \E w : T = {w}
  <2>1. \A v \in T, w \in T : v = w
    BY OnePacket DEF IInv, HeldOnce
  <2> QED
    BY <2>1
<1>4. T # {} <=> isTaken(k)
  BY DEF isTaken
<1>5. places(k) = Cardinality(Q) + Cardinality(T) + handled[k] + freed[k]
  BY DEF places
<1> HIDE DEF Q, T
<1>6. Cardinality(Q) = IF inQueue(k) THEN 1 ELSE 0
  BY <1>1, <1>2, FS_EmptySet, FS_Singleton
<1>7. Cardinality(T) = IF isTaken(k) THEN 1 ELSE 0
  BY <1>3, <1>4, FS_EmptySet, FS_Singleton
<1> QED
  BY <1>5, <1>6, <1>7

-----------------------------------------------------------------------------

\* Every variable has its type in every state: a worker holds a packet exactly while it has
\* popped one and not yet handed it over (PacketQueueThread::run, packetqueuethread.cpp:135-192).
THEOREM TypesKept == Spec => []TypeOK
<1>1. IInv => TypeOK
  BY DEF IInv, Types
<1> QED
  BY <1>1, AlwaysInvariant, PTL

\* Whatever the pushers, the workers and stop() do, a packet is in one place only, and is
\* handled once or deleted once; and the queue is longer than its limit by no more than the
\* calls that passed the test together (packetqueuethread.cpp:60-192).
THEOREM QueueIsSafe == Spec => []QueueSafe
<1>1. IInv => OwnedOnce
  <2> SUFFICES ASSUME IInv, NEW k \in Packets
               PROVE  places(k) <= 1 /\ (~made(k) \/ pushing(k) => places(k) = 0)
    BY DEF OwnedOnce
  <2>1. handled[k] \in Nat /\ freed[k] \in Nat
    BY DEF IInv, Types, TypeOK
  <2>2. places(k) = (IF inQueue(k) THEN 1 ELSE 0) + (IF isTaken(k) THEN 1 ELSE 0) + handled[k] + freed[k]
    BY PlacesCount
  <2>3. /\ handled[k] + freed[k] <= 1 /\ ~(inQueue(k) /\ isTaken(k))
        /\ inQueue(k) \/ isTaken(k) => handled[k] = 0 /\ freed[k] = 0
    BY DEF IInv, HeldOnce, EndedOnce
  <2>4. ~made(k) \/ pushing(k) => ~inQueue(k) /\ ~isTaken(k) /\ handled[k] = 0 /\ freed[k] = 0
    BY DEF IInv, CallerFirst, atCaller
  <2> QED
    BY <2>1, <2>2, <2>3, <2>4
<1>2. IInv => QueueBounded
  <2> SUFFICES ASSUME IInv, MaxQueueLen > 0
               PROVE  Len(queue) <= MaxQueueLen - 1 + Cardinality(Pushers) + Cardinality(Batching)
    BY DEF QueueBounded
  <2>1. entering \in SUBSET Pushers /\ Len(queue) \in Nat
    BY DEF entering, IInv, Types, TypeOK
  <2>2. /\ Cardinality(entering) \in Nat /\ Cardinality(entering \cap Batching) \in Nat
        /\ Cardinality(Pushers) \in Nat /\ Cardinality(Batching) \in Nat
    BY <2>1, PushersFinite
  <2> QED
    BY <2>1, <2>2, QueueAssumption DEF IInv, RoomLeft
<1>3. IInv => QueueSafe
  BY <1>1, <1>2 DEF QueueSafe
<1> QED
  BY <1>3, AlwaysInvariant, PTL
=============================================================================
