----------------------------- MODULE PacketQueue -----------------------------
(***************************************************************************)
(* tbnet::PacketQueue with its pointers: a chain of packets by _next from  *)
(* _head to _tail, and a count. There are two queues, as a TCPConnection   *)
(* has _outputQueue and _myQueue. Their users lock; an action is a call.   *)
(* A packet that is taken out keeps its _next.                             *)
(***************************************************************************)
EXTENDS Naturals, SequencesExt

CONSTANT QueuedPackets

ASSUME PacketQueueAssumption == QueuedPackets \subseteq Nat \ {0} /\ IsFiniteSet(QueuedPackets)

NoPacket == 0
Two == {"output", "my"}

VARIABLES
  headOf, tailOf, sizeOf,   \* _head, _tail and _size of each queue
  nextOf,                   \* _next of each packet
  given,                    \* the packets that the last call returned or freed
  isLate                    \* those whose _expireTime is set and over

queueVars == <<headOf, tailOf, sizeOf, nextOf, given, isLate>>

QueueTypeOK ==
  /\ {headOf, tailOf} \subseteq [Two -> QueuedPackets \cup {NoPacket}]
  /\ sizeOf \in [Two -> Nat]
  /\ nextOf \in [QueuedPackets -> QueuedPackets \cup {NoPacket}]
  /\ given \in Seq(QueuedPackets) /\ isLate \subseteq QueuedPackets

QueueInit ==
  /\ headOf = [q \in Two |-> NoPacket] /\ tailOf = headOf /\ sizeOf = [q \in Two |-> 0]
  /\ nextOf = [p \in QueuedPackets |-> NoPacket] /\ given = <<>>
  /\ isLate \in SUBSET QueuedPackets

-----------------------------------------------------------------------------

\* The packets from p on by the pointers n, should that be no circle.
Chains == {s \in SeqOf(QueuedPackets, Cardinality(QueuedPackets)) : s # <<>> /\ IsInjective(s)}
isChainFrom(n, p, s) ==
  /\ s[1] = p
  /\ \A i \in 1..Len(s) : n[s[i]] = (IF i = Len(s) THEN NoPacket ELSE s[i + 1])
chainFrom(n, p) == IF p = NoPacket THEN <<>> ELSE CHOOSE s \in Chains : isChainFrom(n, p, s)

queued(q) == chainFrom(nextOf, headOf[q])

\* p can be reached by no queue: a user has it.
atHand(p) == \A q \in Two : \A j \in 1..Len(queued(q)) : queued(q)[j] # p

pushQueued(q, p) ==
  /\ atHand(p)
  /\ nextOf' = [x \in QueuedPackets |->
                  CASE x = p -> NoPacket [] x # p /\ x = tailOf[q] -> p [] OTHER -> nextOf[x]]
  /\ headOf' = IF tailOf[q] = NoPacket THEN [headOf EXCEPT ![q] = p] ELSE headOf
  /\ tailOf' = [tailOf EXCEPT ![q] = p] /\ sizeOf' = [sizeOf EXCEPT ![q] = @ + 1]
  /\ given' = <<>> /\ UNCHANGED isLate

\* The tail when the head has moved to p.
\* Seeded fault: it is left behind when the queue becomes empty.
tailAfterKept(q, p) == tailOf
tailAfter(q, p) == IF p = NoPacket THEN [tailOf EXCEPT ![q] = NoPacket] ELSE tailOf

popQueued(q) ==
  /\ headOf[q] # NoPacket
  /\ given' = <<headOf[q]>>
  /\ headOf' = [headOf EXCEPT ![q] = nextOf[@]] /\ tailOf' = tailAfter(q, nextOf[headOf[q]])
  /\ sizeOf' = [sizeOf EXCEPT ![q] = @ - 1]
  /\ UNCHANGED <<nextOf, isLate>>

emptied(f, q, nothing) == [f EXCEPT ![q] = nothing]

\* Every packet is freed, in the order of the chain.
clearQueued(q) ==
  /\ headOf[q] # NoPacket /\ given' = queued(q)
  /\ headOf' = emptied(headOf, q, NoPacket) /\ tailOf' = emptied(tailOf, q, NoPacket)
  /\ sizeOf' = emptied(sizeOf, q, 0)
  /\ UNCHANGED <<nextOf, isLate>>

moveTo(q, r) ==
  /\ headOf[q] # NoPacket
  /\ headOf' = [headOf EXCEPT ![q] = NoPacket,
                              ![r] = IF tailOf[r] = NoPacket THEN headOf[q] ELSE @]
  /\ nextOf' = IF tailOf[r] = NoPacket THEN nextOf ELSE [nextOf EXCEPT ![tailOf[r]] = headOf[q]]
  /\ tailOf' = [tailOf EXCEPT ![q] = NoPacket, ![r] = tailOf[q]]
  /\ sizeOf' = [sizeOf EXCEPT ![q] = 0, ![r] = @ + sizeOf[q]]
  /\ given' = <<>> /\ UNCHANGED isLate

\* How many late packets are in front.
lateInFront(q) ==
  LET n == SelectInSeq(queued(q), LAMBDA p : p \notin isLate)
  IN IF n = 0 THEN Len(queued(q)) ELSE n - 1

\* They are cut off: the last one of them points to nothing.
getTimeoutPackets(q) ==
  LET n == lateInFront(q)
      rest == nextOf[queued(q)[n]]
  IN /\ headOf[q] # NoPacket /\ n > 0
     /\ headOf' = [headOf EXCEPT ![q] = rest] /\ tailOf' = tailAfter(q, rest)
     /\ sizeOf' = [sizeOf EXCEPT ![q] = @ - n]
     /\ nextOf' = [nextOf EXCEPT ![queued(q)[n]] = NoPacket]
     /\ given' = chainFrom(nextOf', headOf[q])
     /\ UNCHANGED isLate

QueueNext ==
  \E q \in Two :
    \/ \E p \in QueuedPackets : pushQueued(q, p)
    \/ popQueued(q) \/ clearQueued(q) \/ getTimeoutPackets(q)
    \/ \E r \in Two \ {q} : moveTo(q, r)

-----------------------------------------------------------------------------

\* _tail is the last packet and _size the length of the chain: empty(), which looks
\* at the count, and pop(), which looks at the head, agree.
QueueEndsMeet ==
  \A q \in Two :
    /\ sizeOf[q] = Len(queued(q))
    /\ tailOf[q] = IF queued(q) = <<>> THEN NoPacket ELSE Last(queued(q))

\* The queues are sequences: packets come out in the order in which they went in,
\* none is lost or linked into two chains, and no list that is given out reaches a
\* packet that is still queued.
Sequences == INSTANCE PacketSequences
  WITH Queues <- Two, Packets <- QueuedPackets, content <- [q \in Two |-> queued(q)],
       taken <- given, lateOnes <- isLate
QueueIsSequence == Sequences!Spec
=============================================================================
