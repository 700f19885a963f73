--------------------------- MODULE PacketSequences ---------------------------
(***************************************************************************)
(* What a set of PacketQueues promises: each is a sequence of packets, and *)
(* what an operation takes out comes in the order of the queue.            *)
(***************************************************************************)
EXTENDS SequencesExt

CONSTANTS Queues, Packets

VARIABLES
  content,    \* the packets of each queue
  taken,      \* what the last operation took out
  lateOnes    \* the packets whose time is over

append(q, p) ==
  /\ \A r \in Queues : p \notin ToSet(content[r])
  /\ taken' = <<>> /\ content' = [content EXCEPT ![q] = Append(@, p)]

removeFront(q, n) ==
  /\ n <= Len(content[q])
  /\ taken' = SubSeq(content[q], 1, n)
  /\ content' = [content EXCEPT ![q] = SubSeq(@, n + 1, Len(@))]

moveAll(q, r) ==
  /\ taken' = <<>>
  /\ content' = [content EXCEPT ![q] = <<>>, ![r] = @ \o content[q]]

lateInFront(q) ==
  LET n == SelectInSeq(content[q], LAMBDA p : p \notin lateOnes)
  IN IF n = 0 THEN Len(content[q]) ELSE n - 1

Init == content = [q \in Queues |-> <<>>] /\ taken = <<>> /\ lateOnes \subseteq Packets

Next ==
  /\ UNCHANGED lateOnes
  /\ \E q \in Queues :
       \/ \E p \in Packets : append(q, p)
       \/ removeFront(q, 1) \/ removeFront(q, Len(content[q])) \/ removeFront(q, lateInFront(q))
       \/ \E r \in Queues \ {q} : moveAll(q, r)

Spec == Init /\ [][Next]_<<content, taken, lateOnes>>
=============================================================================
