----------------------------- MODULE DataBuffer -----------------------------
(***************************************************************************)
(* tbnet::DataBuffer, a block of memory with a window of data in it. A     *)
(* buffer is [size, start, data]: size is _pend - _pstart, 0 without       *)
(* memory; start is _pdata - _pstart; data are the units between _pdata    *)
(* and _pfree. A unit stands for four bytes, an int; its number is n.      *)
(***************************************************************************)
EXTENDS Naturals, Sequences

CONSTANTS
  InitialSize,   \* the 256 bytes of the first expand()
  ShrinkSize     \* MAX_BUFFER_SIZE

noBuffer == [size |-> 0, start |-> 0, data |-> <<>>]

dataLen(b) == Len(b.data)
freeLen(b) == b.size - b.start - Len(b.data)

\* start <= data <= free <= end
isBuffer(b) == b.start + Len(b.data) <= b.size

drop(s, n) == SubSeq(s, n + 1, Len(s))

clear(b) == [b EXCEPT !.start = 0, !.data = <<>>]
advance(b, n) == [b EXCEPT !.start = @ + n, !.data = drop(@, n)]
drainData(b, n) == IF n >= dataLen(b) THEN clear(b) ELSE advance(b, n)
pourData(b, s) == [b EXCEPT !.data = @ \o s]
stripData(b, n) == [b EXCEPT !.data = SubSeq(@, 1, Len(@) - n)]

\* from, 2 from, 4 from, ... until there is room for need units beside used.
doubled(from, used, need) ==
  LET size[k \in 0..used + need] ==
        IF k = 0 THEN from ELSE IF size[k - 1] - used >= need THEN size[k - 1] ELSE 2 * size[k - 1]
  IN size[used + need]

moved(b, size) == [size |-> size, start |-> 0, data |-> b.data]

\* Seeded fault: the space before the data counts, but the data stay where they are.
expandInPlace(b, need) ==
  IF b.size = 0 THEN moved(b, doubled(InitialSize, 0, need))
  ELSE IF b.size - dataLen(b) >= need THEN b
  ELSE moved(b, doubled(2 * b.size, dataLen(b), need))

\* Room for need more units: a new block, the data moved to its beginning, or both.
expand(b, need) ==
  LET room == b.size - dataLen(b)
  IN CASE b.size = 0 -> moved(b, doubled(InitialSize, 0, need))
       [] b.size > 0 /\ freeLen(b) >= need -> b
       [] b.size > 0 /\ freeLen(b) < need /\ room >= need /\ room * 4 >= dataLen(b) ->
            moved(b, b.size)
       [] OTHER -> moved(b, doubled(2 * b.size, dataLen(b), need))

ensureFree(b, n) == expand(b, n)

shrink(b) ==
  IF b.size <= ShrinkSize \/ dataLen(b) > ShrinkSize THEN b ELSE moved(b, ShrinkSize)

writeInt(b, u) == pourData(expand(b, 1), <<u>>)
fillInt(b, at, n) == [b EXCEPT !.data[at].n = n]

\* A string is its length and then its bytes, copied at once; a vector its length
\* and then its elements, one by one.
writeString(b, len, s) == pourData(writeInt(expand(b, Len(s) + 1), len), s)
writeVector(b, len, s) ==
  LET after[k \in 0..Len(s)] == IF k = 0 THEN writeInt(b, len) ELSE writeInt(after[k - 1], s[k])
  IN after[Len(s)]

\* How many units a string or a vector at the front takes; the length of a string
\* is cut to what is there.
stringSize(b) ==
  LET n == Head(b.data).n
  IN 1 + IF n > dataLen(b) - 1 THEN dataLen(b) - 1 ELSE n
vectorSize(b) == 1 + Head(b.data).n
=============================================================================
