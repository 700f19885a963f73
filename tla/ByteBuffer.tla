----------------------------- MODULE ByteBuffer -----------------------------
(***************************************************************************)
(* ByteBuffer: a buffer of fixed size that is its own or wrapped memory of *)
(* the caller, and a position at which numbers, strings and vectors are    *)
(* put and got. A cell stands for a uint32_t or a char; put() writes the   *)
(* size of a string or a vector as a size_t, of one cell or of two, and    *)
(* get() reads it as a uint32_t.                                           *)
(***************************************************************************)
EXTENDS Integers, Sequences, SequencesExt

CONSTANTS
  Values,    \* what is put: records of kind and value, a sequence of numbers
  Junk,      \* bound of what is in memory that malloc() or the caller gives
  MaxSize,   \* bound of size_
  MaxLive    \* bound of the blocks that are not freed

VARIABLES
  byteBuffer, \* data_ is NULL, a block or the caller's, the cells (size_ of them), position_ and own_
  sizeCells,  \* sizeof(size_t) of the build, in cells
  live,       \* ghost: the blocks from malloc and new that are not freed
  leaked,     \* ghost: reset(size) came after wrap(), or getString() has failed
  displaced,  \* ghost: reset(size) or a get() with an index left position_ behind size_
  trace       \* ghost: what was put from the start on, and what of it was got back

bufferVars == <<byteBuffer, sizeCells, live, leaked, displaced, trace>>

Cells == 0..3
Kinds3 == {"number", "string", "vector"}

BufferTypeOK ==
  /\ byteBuffer.data \in {"null", "block", "caller"} /\ byteBuffer.own \in BOOLEAN
  /\ byteBuffer.cells \in Seq(Cells) /\ Len(byteBuffer.cells) <= MaxSize /\ byteBuffer.position \in 0..MaxSize + 1
  /\ sizeCells \in {1, 2} /\ live \in 0..MaxLive + 1 /\ leaked \in BOOLEAN /\ displaced \in BOOLEAN
  /\ trace.state \in {"writing", "reading", "off"}

sizeOf(b) == Len(b.cells)
newBuffer(cells) ==
  [data |-> IF cells = <<>> THEN "null" ELSE "block", cells |-> cells, position |-> 0, own |-> TRUE]
newTrace == [state |-> "off", written |-> <<>>, got |-> <<>>]

BufferInit ==
  /\ byteBuffer = newBuffer(<<>>) /\ sizeCells \in {1, 2} /\ live = 0
  /\ leaked = FALSE /\ displaced = FALSE /\ trace = newTrace

-----------------------------------------------------------------------------
(* The memory *)

filled(n) == {[i \in 1..n |-> c] : c \in Junk}
blocksOf(cells) == IF cells = <<>> THEN 0 ELSE 1
\* free() frees a block that is its own.
freed == IF byteBuffer.own /\ byteBuffer.data # "null" THEN 1 ELSE 0

\* assign(), operator= and reset(), which ends with an empty buffer.
copy(cells) ==
  /\ byteBuffer' = newBuffer(cells) /\ live' = live - freed + blocksOf(cells)
  /\ displaced' = FALSE /\ trace' = newTrace /\ UNCHANGED <<sizeCells, leaked>>

wrap(cells) ==
  /\ byteBuffer' = [data |-> "caller", cells |-> cells, position |-> 0, own |-> FALSE] /\ live' = live - freed
  /\ displaced' = FALSE /\ trace' = newTrace /\ UNCHANGED <<sizeCells, leaked>>

\* reset(size) sets neither position_ nor own_.
resetSize(cells) ==
  /\ byteBuffer' = [byteBuffer EXCEPT !.cells = cells, !.data = newBuffer(cells).data]
  /\ live' = live - freed + blocksOf(cells)
  /\ leaked' = (leaked \/ ~byteBuffer.own)
  /\ displaced' = (displaced \/ byteBuffer.position > Len(cells)) /\ trace' = newTrace /\ UNCHANGED sizeCells

-----------------------------------------------------------------------------
(* The position *)

\* position(p), which throws behind the end. At the start it begins to read what was written.
setPosition(p) ==
  /\ p <= sizeOf(byteBuffer) /\ byteBuffer' = [byteBuffer EXCEPT !.position = p] /\ displaced' = FALSE
  /\ trace' = IF p = 0 /\ trace.state # "off" THEN [trace EXCEPT !.state = "reading", !.got = <<>>] ELSE newTrace
  /\ UNCHANGED <<sizeCells, live, leaked>>

fits(b, n) == b.position + n <= sizeOf(b)

\* put() of so many cells, or the exception, after which nothing more is put.
putCells(b, cells) ==
  IF b.failed \/ ~fits(b, Len(cells)) THEN [b EXCEPT !.failed = TRUE]
  ELSE [b EXCEPT !.position = @ + Len(cells),
                 !.cells = [i \in DOMAIN @ |-> IF i \in b.position + 1..b.position + Len(cells)
                                               THEN cells[i - b.position] ELSE @[i]]]
size_t(n) == IF sizeCells = 1 THEN <<n>> ELSE <<n, 0>>
\* The calls of put() below that of a number, a string or a vector.
pieces(v) ==
  CASE v.kind = "number" -> <<v.value>>
    [] v.kind = "string" -> <<size_t(Len(v.value) + 1), Append(v.value, 0)>>
    [] v.kind = "vector" -> <<size_t(Len(v.value))>> \o [i \in 1..Len(v.value) |-> <<v.value[i]>>]

withFlag(b) == b @@ [failed |-> FALSE]
withoutFlag(b) == [data |-> b.data, cells |-> b.cells, position |-> b.position, own |-> b.own]

put(v) ==
  LET b == FoldLeft(putCells, withFlag(byteBuffer), pieces(v))
  IN /\ byteBuffer' = withoutFlag(b)
     /\ trace' = IF b.failed \/ (byteBuffer.position > 0 /\ trace.state # "writing") THEN newTrace
                 ELSE [state |-> "writing", got |-> <<>>,
                       written |-> IF byteBuffer.position = 0 THEN <<v>> ELSE Append(trace.written, v)]
     /\ UNCHANGED <<sizeCells, live, leaked, displaced>>

\* get() of so many cells; the last result stays when it throws.
getCells(b, n) ==
  IF b.failed \/ ~fits(b, n) THEN [b EXCEPT !.failed = TRUE]
  ELSE [b EXCEPT !.position = @ + n, !.result = SubSeq(b.cells, b.position + 1, b.position + n)]
cStr(cells) == IF Contains(cells, 0) THEN SubSeq(cells, 1, SelectInSeq(cells, LAMBDA c : c = 0) - 1) ELSE cells

\* get() of a number, a string or a vector: the buffer after it, if it failed, and the value.
getValue(kind) ==
  LET one == getCells(byteBuffer @@ [failed |-> FALSE, result |-> <<>>], 1)
      n == one.result[1]
      rest == getCells(one, n)
      each[i \in 0..3] == IF i = 0 THEN one ELSE getCells(each[i - 1], 1)
      elements == SubSeq(one.cells, one.position + 1, each[n].position)
  IN IF one.failed \/ kind = "number" THEN one
     ELSE IF n = 0 THEN [one EXCEPT !.result = <<>>]
     ELSE IF kind = "string" THEN [rest EXCEPT !.result = cStr(@)]
     ELSE [each[n] EXCEPT !.result = elements]

\* getString() does not delete its array when the get() in it throws.
get(kind) ==
  LET b == getValue(kind)
      lost == kind = "string" /\ b.failed /\ b.position > byteBuffer.position
  IN /\ live < MaxLive /\ byteBuffer' = withoutFlag(b)
     /\ live' = live + (IF lost THEN 1 ELSE 0) /\ leaked' = (leaked \/ lost)
     /\ trace' = IF \/ b.failed \/ trace.state # "reading" \/ Len(trace.got) >= Len(trace.written)
                    \/ trace.written[Len(trace.got) + 1].kind # kind
                 THEN newTrace ELSE [trace EXCEPT !.got = Append(@, [kind |-> kind, value |-> b.result])]
     /\ UNCHANGED <<sizeCells, displaced>>

\* get() with an index sets position_ before it is known to be within the buffer.
getAt(index, n) ==
  LET b == getCells([byteBuffer EXCEPT !.position = index] @@ [failed |-> FALSE, result |-> <<>>], n)
  IN /\ byteBuffer' = withoutFlag(b) /\ displaced' = (index > sizeOf(byteBuffer)) /\ trace' = newTrace
     /\ UNCHANGED <<sizeCells, live, leaked>>

\* getRef() looks first; an index below 0 is the position.
getRef(index, n) ==
  LET from == IF index < 0 THEN byteBuffer.position ELSE index
  IN /\ from + n <= sizeOf(byteBuffer) /\ byteBuffer' = [byteBuffer EXCEPT !.position = from + n]
     /\ displaced' = FALSE /\ trace' = newTrace /\ UNCHANGED <<sizeCells, live, leaked>>

BufferNext ==
  \/ live < MaxLive /\ \E n \in 0..MaxSize : \E cells \in filled(n) : copy(cells) \/ resetSize(cells)
  \/ \E n \in 1..MaxSize : \E cells \in filled(n) : wrap(cells)
  \/ \E p \in 0..MaxSize : setPosition(p)
  \/ \E v \in Values : put(v)
  \/ \E kind \in Kinds3 : get(kind)
  \/ \E index \in 0..MaxSize + 1, n \in 1..2 : getAt(index, n)
  \/ \E index \in -1..MaxSize, n \in 1..2 : getRef(index, n)

-----------------------------------------------------------------------------
(* Properties *)

\* What is put from the start on can be got back in the same order, if a size_t has the
\* width of a uint32_t or no string and no vector came before; otherwise the upper half
\* of a size is taken for the first element (bytebuffer.cpp:200-219, bytebuffer.h:155-180).
ReadsBack ==
  \A i \in 1..Len(trace.got) :
    \/ trace.got[i] = trace.written[i]
    \/ sizeCells = 2 /\ \E j \in 1..i : trace.written[j].kind # "number"

\* Every block is freed by the buffer that holds it and no other is, unless reset(size)
\* came after wrap(), when the block is taken for the caller's, or getString() threw
\* (bytebuffer.cpp:94-101, :144-170, :208-219).
BlocksAreHeld == leaked \/ live = (IF byteBuffer.data = "block" /\ byteBuffer.own THEN 1 ELSE 0)

\* The position stays in the buffer, failed calls included, but after reset(size) and
\* after a get() with an index that is none (bytebuffer.cpp:163-183, :236-241).
PositionInside == displaced \/ byteBuffer.position <= sizeOf(byteBuffer)

BufferSafe == ReadsBack /\ BlocksAreHeld /\ PositionInside
=============================================================================
