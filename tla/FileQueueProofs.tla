--------------------------- MODULE FileQueueProofs ---------------------------
(***************************************************************************)
(* Proofs about FileQueue, for any number of threads, file size, items,    *)
(* crashes, stops and failing writes. First its types and what a handler   *)
(* is called with, on the invariant of how the headers, the files and the  *)
(* threads hang together; then what CFileQueue promises about its items:   *)
(* no accepted item is passed by the reader or lost by a crash, and the    *)
(* order and the number of the handler's calls.                            *)
(***************************************************************************)
EXTENDS FileQueue, FiniteSetTheorems, SequenceTheorems, WellFoundedInduction,
        TLAPS

-----------------------------------------------------------------------------
(* Headers and files *)

FilesOK(fs) ==
  /\ DOMAIN fs \subseteq Nat
  /\ \A f \in DOMAIN fs : fs[f] \in Seq(Units)

\* What was in the files of fs that gs has too is in them at the same place.
Keeps(fs, gs) ==
  \A f \in DOMAIN fs \cap DOMAIN gs :
    /\ Len(fs[f]) <= Len(gs[f])
    /\ \A k \in 1..Len(fs[f]) : gs[f][k] = fs[f][k]

Grows(fs, gs) == DOMAIN fs \subseteq DOMAIN gs /\ Keeps(fs, gs)

\* A non-empty set of numbers has a least element (Min is a CHOOSE).
LEMMA Least ==
  ASSUME NEW S \in SUBSET Nat, S # {}
  PROVE  Min(S) \in S /\ \A x \in S : Min(S) <= x
<1>1. PICK m \in S : \A n \in S : <<n, m>> \notin OpToRel(<, Nat)
  BY NatLessThanWellFounded, WFMin, Zenon
<1>2. \A n \in S : m <= n
  <2> SUFFICES ASSUME NEW n \in S PROVE m <= n
    OBVIOUS
  <2>1. m \in Nat /\ n \in Nat
    OBVIOUS
  <2>2. ~(n < m)
    BY <1>1, <2>1 DEF OpToRel
  <2> QED BY <2>1, <2>2
<1> QED BY <1>2, Zenon DEF Min

LEMMA ItemsArePayloads == Items \subseteq Payloads
BY FileAssumption DEF Items, Payloads

\* What a unit's data are.
LEMMA PayloadType ==
  ASSUME NEW u \in Units
  PROVE  payload(u) \in Payloads
BY FileAssumption DEF Units, Items, Payloads, payload

LEMMA CreatedFile ==
  ASSUME NEW fs, FilesOK(fs), NEW w \in Nat
  PROVE  /\ FilesOK(created(fs, w))
         /\ DOMAIN created(fs, w) = DOMAIN fs \cup {w}
         /\ \A f \in DOMAIN fs : created(fs, w)[f] = fs[f]
         /\ w \notin DOMAIN fs => created(fs, w)[w] = <<>>
         /\ Grows(fs, created(fs, w))
<1>1. DOMAIN created(fs, w) = DOMAIN fs \cup {w}
  BY DEF created
<1>2. \A f \in DOMAIN fs : created(fs, w)[f] = fs[f]
  BY DEF created
<1>3. w \notin DOMAIN fs => created(fs, w)[w] = <<>>
  BY DEF created
<1>4. \A f \in DOMAIN created(fs, w) : created(fs, w)[f] \in Seq(Units)
  BY <1>1, <1>2, <1>3, EmptySeq DEF FilesOK
<1>5. \A f \in DOMAIN fs : Len(fs[f]) <= Len(created(fs, w)[f])
  BY <1>2 DEF FilesOK
<1> QED BY <1>1, <1>2, <1>3, <1>4, <1>5 DEF FilesOK, Grows, Keeps

\* One record, a part of one, or nothing.
LEMMA UnitsOfWrite ==
  ASSUME NEW i \in Items, NEW j \in Payloads, NEW outcome \in {"whole", "short", "none"}
  PROVE  units(i, j, outcome) \in Seq(Units)
<1>1. [part |-> "head", item |-> i] \in Units
  BY DEF Units
<1>2. [part |-> "tail", item |-> j] \in Units
  BY DEF Units
<1>3. CASE outcome = "whole"
  BY <1>1, <1>2, <1>3 DEF units
<1>4. CASE outcome = "short"
  BY <1>1, <1>4 DEF units
<1>5. CASE outcome = "none"
  BY <1>5 DEF units
<1> QED BY <1>3, <1>4, <1>5

\* gs is fs with the units s at the end of file w.
Appended(fs, gs, w, s) ==
  /\ FilesOK(gs) /\ s \in Seq(Units) /\ Grows(fs, gs)
  /\ DOMAIN gs = DOMAIN fs \cup {w}
  /\ \A f \in DOMAIN fs \ {w} : gs[f] = fs[f]
  /\ w \in DOMAIN fs => gs[w] = fs[w] \o s
  /\ w \notin DOMAIN fs => gs[w] = s

LEMMA AppendedFile ==
  ASSUME NEW fs, FilesOK(fs), NEW h, h.write_seqno \in Nat, NEW i \in Items,
         NEW j \in Payloads, NEW outcome \in {"whole", "short", "none"}
  PROVE  Appended(fs, append(fs, h, i, j, outcome), h.write_seqno, units(i, j, outcome))
<1> DEFINE gs == append(fs, h, i, j, outcome)
           w == h.write_seqno
           cs == created(fs, w)
           new == units(i, j, outcome)
<1>1. /\ FilesOK(cs) /\ DOMAIN cs = DOMAIN fs \cup {w}
      /\ \A f \in DOMAIN fs : cs[f] = fs[f]
  BY CreatedFile
<1>2. new \in Seq(Units)
  BY UnitsOfWrite
<1>3. gs = [cs EXCEPT ![w] = cs[w] \o new]
  BY DEF append
<1>4. DOMAIN gs = DOMAIN fs \cup {w}
  BY <1>1, <1>3
<1>5. gs[w] = cs[w] \o new
  BY <1>1, <1>3
<1>6. \A f \in DOMAIN fs \ {w} : gs[f] = fs[f]
  BY <1>1, <1>3
<1>7. cs[w] \in Seq(Units)
  BY <1>1 DEF FilesOK
<1>8. gs[w] \in Seq(Units)
  BY <1>2, <1>5, <1>7, ConcatProperties
<1>9. FilesOK(gs)
  BY <1>1, <1>4, <1>6, <1>8 DEF FilesOK
<1>10. w \in DOMAIN fs => /\ Len(fs[w]) <= Len(gs[w])
                          /\ \A k \in 1..Len(fs[w]) : gs[w][k] = fs[w][k]
  BY <1>1, <1>2, <1>5, <1>7, ConcatProperties
<1>11. Grows(fs, gs)
  BY <1>4, <1>6, <1>10 DEF Grows, Keeps, FilesOK
<1>12. w \notin DOMAIN fs => cs[w] \o new = new
  BY <1>2, CreatedFile, ConcatEmptySeq
<1> QED BY <1>1, <1>2, <1>4, <1>5, <1>6, <1>9, <1>11, <1>12 DEF Appended

LEMMA CreatedIsAppended ==
  ASSUME NEW fs, FilesOK(fs), NEW w \in Nat
  PROVE  Appended(fs, created(fs, w), w, <<>>)
<1> DEFINE gs == created(fs, w)
<1>1. /\ FilesOK(gs) /\ DOMAIN gs = DOMAIN fs \cup {w}
      /\ \A f \in DOMAIN fs : gs[f] = fs[f]
      /\ w \notin DOMAIN fs => gs[w] = <<>>
      /\ Grows(fs, gs)
  BY CreatedFile
<1> HIDE DEF gs
<1>2. w \in DOMAIN fs => fs[w] \o <<>> = fs[w]
  BY ConcatEmptySeq DEF FilesOK
<1>3. <<>> \in Seq(Units)
  OBVIOUS
<1>4. Appended(fs, gs, w, <<>>)
  BY <1>1, <1>2, <1>3 DEF Appended
<1> QED BY <1>4 DEF gs

\* Where the next unit of a file goes.
End(fs, w) == IF w \in DOMAIN fs THEN Len(fs[w]) ELSE 0

\* What is in file w afterwards.
Extended(fs, gs, w, s) ==
  /\ End(fs, w) \in Nat /\ Len(s) \in Nat
  /\ w \in DOMAIN gs /\ Len(gs[w]) = End(fs, w) + Len(s)
  /\ w \in DOMAIN fs => \A k \in 1..End(fs, w) : gs[w][k] = fs[w][k]
  /\ \A k \in 1..Len(s) : gs[w][End(fs, w) + k] = s[k]

LEMMA AppendedUnits ==
  ASSUME NEW fs, NEW gs, NEW w \in Nat, NEW s, FilesOK(fs), Appended(fs, gs, w, s)
  PROVE  Extended(fs, gs, w, s)
<1> DEFINE n == End(fs, w)
<1>0. n \in Nat /\ (w \in DOMAIN fs => n = Len(fs[w])) /\ (w \notin DOMAIN fs => n = 0)
  BY LenProperties DEF FilesOK, End
<1> HIDE DEF n
<1>1. s \in Seq(Units) /\ Len(s) \in Nat /\ w \in DOMAIN gs
  BY LenProperties DEF Appended
<1>2. ASSUME w \in DOMAIN fs
      PROVE  /\ Len(gs[w]) = n + Len(s) /\ \A k \in 1..n : gs[w][k] = fs[w][k]
             /\ \A k \in 1..Len(s) : gs[w][n + k] = s[k]
  <2> DEFINE q == fs[w]
  <2>1. gs[w] = q \o s /\ q \in Seq(Units) /\ Len(q) = n
    BY <1>0, <1>2 DEF Appended, FilesOK
  <2> HIDE DEF q
  <2>2. /\ Len(q \o s) = Len(q) + Len(s)
        /\ \A k \in 1..(Len(q) + Len(s)) :
             (q \o s)[k] = IF k <= Len(q) THEN q[k] ELSE s[k - Len(q)]
    BY <1>1, <2>1, ConcatProperties
  <2>3. Len(gs[w]) = n + Len(s) /\ \A k \in 1..n : gs[w][k] = q[k]
    BY <1>0, <1>1, <2>1, <2>2
  <2>4. ASSUME NEW k \in 1..Len(s) PROVE gs[w][n + k] = s[k]
    <3>1. n + k \in 1..(n + Len(s)) /\ ~(n + k <= n) /\ (n + k) - n = k
      BY <1>0, <1>1
    <3> QED BY <2>1, <2>2, <3>1
  <2> QED BY <1>1, <1>2, <2>3, <2>4 DEF q
<1>3. ASSUME w \notin DOMAIN fs
      PROVE  /\ Len(gs[w]) = n + Len(s)
             /\ \A k \in 1..Len(s) : gs[w][n + k] = s[k]
  <2>1. gs[w] = s /\ n = 0
    BY <1>0, <1>3 DEF Appended
  <2>2. ASSUME NEW k \in 1..Len(s) PROVE gs[w][n + k] = s[k]
    <3>1. n + k = k
      BY <1>1, <2>1
    <3> QED BY <2>1, <3>1
  <2>3. Len(gs[w]) = n + Len(s)
    BY <1>1, <2>1
  <2> QED BY <1>3, <2>2, <2>3
<1>4. Len(gs[w]) = n + Len(s)
  BY <1>2, <1>3
<1>5. w \in DOMAIN fs => \A k \in 1..n : gs[w][k] = fs[w][k]
  BY <1>2
<1>6. \A k \in 1..Len(s) : gs[w][n + k] = s[k]
  BY <1>2, <1>3
<1> QED BY <1>0, <1>1, <1>4, <1>5, <1>6 DEF n, Extended

\* What a rotation changes of a header.
LEMMA RotatedHeader ==
  ASSUME NEW h \in Headers
  PROVE  /\ rotated(h) \in Headers
         /\ rotated(h).read_seqno = h.read_seqno
         /\ rotated(h).read_offset = h.read_offset
         /\ rotated(h).pos = h.pos
         /\ rotated(h).exit_status = h.exit_status
         /\ \/ rotated(h) = h
            \/ /\ rotated(h).write_seqno = h.write_seqno + 1
               /\ rotated(h).write_filesize = 0
               /\ h.write_filesize > 0
<1>1. CASE h.write_filesize >= MaxFileSize
  <2>1. rotated(h) = [h EXCEPT !.write_seqno = h.write_seqno + 1, !.write_filesize = 0]
    BY <1>1 DEF rotated
  <2>2. h.write_filesize > 0
    BY <1>1, FileAssumption DEF Headers
  <2>3. h.write_seqno + 1 \in Nat \ {0}
    BY DEF Headers
  <2>4. [h EXCEPT !.write_seqno = h.write_seqno + 1, !.write_filesize = 0] \in Headers
    BY <2>3 DEF Headers
  <2> QED BY <2>1, <2>2, <2>4 DEF Headers
<1>2. CASE ~(h.write_filesize >= MaxFileSize)
  BY <1>2 DEF rotated
<1> QED BY <1>1, <1>2

\* What the count of a write changes of a header.
LEMMA CountedHeader ==
  ASSUME NEW h \in Headers, NEW outcome
  PROVE  /\ counted(h, outcome) \in Headers
         /\ counted(h, outcome).read_seqno = h.read_seqno
         /\ counted(h, outcome).read_offset = h.read_offset
         /\ counted(h, outcome).write_seqno = h.write_seqno
         /\ counted(h, outcome).pos = h.pos
         /\ counted(h, outcome).exit_status = h.exit_status
         /\ outcome = "none" => counted(h, outcome).write_filesize = h.write_filesize
<1> DEFINE b == h.queued \/ outcome = "whole"
           n == IF outcome = "none" THEN h.write_filesize ELSE h.write_filesize + 2
<1>1. b \in BOOLEAN
  BY Zenon
<1>2. n \in Nat
  BY DEF Headers
<1>3. counted(h, outcome) = [h EXCEPT !.write_filesize = n, !.queued = b]
  BY Zenon DEF counted
<1>4. outcome = "none" => n = h.write_filesize
  OBVIOUS
<1> HIDE DEF b, n
<1>5. [h EXCEPT !.write_filesize = n, !.queued = b] \in Headers
  BY <1>1, <1>2 DEF Headers
<1> QED BY <1>3, <1>4, <1>5 DEF Headers

-----------------------------------------------------------------------------
(* The first invariant: the types, what the threads and the process are at, *)
(* and how the headers and the files hang together                          *)

\* The files from the one that h reads to the one that it writes exist, once the
\* first of them does.
Chained(fs, h) ==
  /\ h.read_seqno <= h.write_seqno
  /\ h.read_seqno \in DOMAIN fs =>
       \A f \in Nat : h.read_seqno <= f /\ f <= h.write_seqno => f \in DOMAIN fs

\* An entry of pos is not ahead of the reader, and names a record.
Names(fs, p, last) ==
  p.seqno # 0 =>
    /\ p.seqno <= last
    /\ p.seqno \in DOMAIN fs => /\ p.offset + 2 <= Len(fs[p.seqno])
                                /\ fs[p.seqno][p.offset + 1].part = "head"
Named(fs, h) == \A t \in Threads : Names(fs, h.pos[t], h.read_seqno)

\* The queue was never opened.
Unopened ==
  /\ DOMAIN files = {} /\ proc = "down" /\ disk.read_seqno = disk.write_seqno
  /\ disk.read_offset = 0 /\ disk.pos = NoPositions

\* Only a pop leaves header.dat behind m_head.
SamePlace ==
  /\ mem.read_seqno = disk.read_seqno /\ mem.read_offset = disk.read_offset
  /\ mem.write_seqno = disk.write_seqno

Linked ==
  /\ Chained(files, mem) /\ Chained(files, disk)
  /\ Named(files, mem) /\ Named(files, disk)
  /\ disk.write_seqno \in DOMAIN files \/ Unopened
  /\ proc # "down" => mem.write_seqno \in DOMAIN files
  /\ inside \notin Threads => SamePlace
  /\ proc = "recover" => mem.pos = disk.pos

InStep ==
  /\ proc = "down" => mem = disk
  /\ proc # "up" => inside = "none" /\ \A t \in Threads : pc[t] = "off"
  /\ inside = "writer" => pushed > 0
  /\ proc = "recover" => disk.exit_status = 0 /\ mem.exit_status = 0
\* Where a thread is, and what it holds.
ThreadInStep(t) ==
  /\ pc[t] = "save" <=> inside = t
  /\ hand[t] # <<>> => pc[t] \in {"save", "handle", "finish"}
  /\ pc[t] = "finish" => hand[t] # <<>>

Pcs == {"off", "start", "asleep", "woken", "save", "handle", "finish", "done"}

HeaderTypes == mem \in Headers /\ disk \in Headers

ThreadTypes ==
  /\ inside \in {"none", "writer"} \cup Threads
  /\ pc \in [Threads -> Pcs]
  /\ hand \in [Threads -> {<<>>} \cup Items \X Payloads]
  /\ \A t \in Threads : pc[t] = "handle" => hand[t] # <<>>

OtherTypes ==
  /\ proc \in {"down", "recover", "up"}
  /\ stop \in BOOLEAN /\ toRecover \subseteq Threads
  /\ pushed \in 0..MaxPush /\ crashes \in 0..MaxCrashes
  /\ stops \in 0..MaxStops /\ faults \in 0..MaxFaults
  /\ accepted \subseteq Items /\ knownLost \subseteq Items
  /\ handled \in [Items -> Nat] /\ torn \in BOOLEAN

Frame ==
  /\ HeaderTypes /\ FilesOK(files) /\ ThreadTypes /\ OtherTypes
  /\ InStep /\ (\A t \in Threads : ThreadInStep(t)) /\ Linked

LEMMA FrameTypes == Frame => TypeOK
BY Zenon DEF Frame, HeaderTypes, FilesOK, ThreadTypes, OtherTypes, TypeOK, Pcs

\* A thread is none of the names that inside has otherwise.
LEMMA NotAThread == "none" \notin Threads /\ "writer" \notin Threads
BY FileAssumption

LEMMA StillChained ==
  ASSUME NEW fs, NEW gs, NEW h \in Headers, NEW g \in Headers, Chained(fs, h),
         DOMAIN fs \subseteq DOMAIN gs,
         \A f \in DOMAIN gs \ DOMAIN fs : f > h.read_seqno,
         g.read_seqno = h.read_seqno,
         g.write_seqno = h.write_seqno \/
           (g.write_seqno = h.write_seqno + 1 /\ g.write_seqno \in DOMAIN gs)
  PROVE  Chained(gs, g)
<1>1. /\ h.read_seqno \in Nat /\ h.write_seqno \in Nat
  BY DEF Headers
<1>2. g.read_seqno <= g.write_seqno
  BY <1>1 DEF Chained
<1>3. ASSUME g.read_seqno \in DOMAIN gs, NEW f \in Nat, g.read_seqno <= f, f <= g.write_seqno
      PROVE  f \in DOMAIN gs
  <2>1. h.read_seqno \in DOMAIN fs
    BY <1>1, <1>3
  <2>2. CASE f <= h.write_seqno
    BY <1>3, <2>1, <2>2 DEF Chained
  <2>3. CASE ~(f <= h.write_seqno)
    BY <1>1, <1>3, <2>3
  <2> QED BY <2>2, <2>3
<1> QED BY <1>2, <1>3 DEF Chained

LEMMA StillNames ==
  ASSUME NEW fs, NEW gs, FilesOK(fs), FilesOK(gs), Keeps(fs, gs),
         NEW last \in Nat, NEW next \in Nat, last <= next,
         \A f \in DOMAIN gs \ DOMAIN fs : f > last,
         NEW p \in [seqno : Nat, offset : Nat], Names(fs, p, last)
  PROVE  Names(gs, p, next)
<1> SUFFICES ASSUME p.seqno # 0
             PROVE  /\ p.seqno <= next
                    /\ p.seqno \in DOMAIN gs =>
                         /\ p.offset + 2 <= Len(gs[p.seqno])
                         /\ gs[p.seqno][p.offset + 1].part = "head"
  BY DEF Names
<1>1. p.seqno <= last /\ p.seqno \in Nat /\ p.offset \in Nat
  BY DEF Names
<1>2. p.seqno \in DOMAIN gs => p.seqno \in DOMAIN fs
  BY <1>1
<1>3. p.seqno \in DOMAIN fs => /\ Len(fs[p.seqno]) \in Nat
                               /\ p.offset + 2 <= Len(fs[p.seqno])
                               /\ fs[p.seqno][p.offset + 1].part = "head"
  BY LenProperties DEF Names, FilesOK
<1>4. p.seqno \in DOMAIN gs => Len(gs[p.seqno]) \in Nat
  BY LenProperties DEF FilesOK
<1>5. ASSUME p.seqno \in DOMAIN gs
      PROVE  /\ p.offset + 2 <= Len(gs[p.seqno])
             /\ gs[p.seqno][p.offset + 1].part = "head"
  <2>1. /\ Len(fs[p.seqno]) <= Len(gs[p.seqno])
        /\ \A k \in 1..Len(fs[p.seqno]) : gs[p.seqno][k] = fs[p.seqno][k]
    BY <1>2, <1>5 DEF Keeps
  <2>2. p.offset + 1 \in 1..Len(fs[p.seqno])
    BY <1>1, <1>2, <1>3, <1>5
  <2> QED BY <1>1, <1>2, <1>3, <1>4, <1>5, <2>1, <2>2
<1> QED BY <1>1, <1>5

LEMMA StillNamed ==
  ASSUME NEW fs, NEW gs, FilesOK(fs), FilesOK(gs), Keeps(fs, gs),
         NEW h \in Headers, NEW g \in Headers, Named(fs, h),
         h.read_seqno <= g.read_seqno,
         \A f \in DOMAIN gs \ DOMAIN fs : f > h.read_seqno,
         \A t \in Threads : g.pos[t] = h.pos[t] \/ g.pos[t] = NoPos
  PROVE  Named(gs, g)
<1> SUFFICES ASSUME NEW t \in Threads
             PROVE  Names(gs, g.pos[t], g.read_seqno)
  BY DEF Named
<1>1. h.read_seqno \in Nat /\ g.read_seqno \in Nat /\ h.pos[t] \in [seqno : Nat, offset : Nat]
  BY DEF Headers
<1>2. Names(fs, h.pos[t], h.read_seqno)
  BY DEF Named
<1>3. Names(gs, h.pos[t], g.read_seqno)
  BY <1>1, <1>2, StillNames
<1>4. Names(gs, NoPos, g.read_seqno)
  BY DEF Names, NoPos
<1> QED BY <1>3, <1>4

LEMMA InitFrame == Init => Frame
<1> SUFFICES ASSUME Init PROVE Frame
  OBVIOUS
<1> USE DEF Init
<1>1. NoPositions \in [Threads -> [seqno : Nat, offset : Nat]]
  BY DEF NoPositions, NoPos
<1>2. NewHeader \in Headers
  BY <1>1 DEF NewHeader, Headers
<1>3. HeaderTypes
  BY <1>2 DEF HeaderTypes
<1>4. DOMAIN files = {}
  OBVIOUS
<1>5. FilesOK(files)
  BY <1>4 DEF FilesOK
<1>6. ThreadTypes
  BY DEF ThreadTypes, Pcs
<1>7. /\ 0 \in 0..MaxPush /\ 0 \in 0..MaxCrashes /\ 0 \in 0..MaxStops
      /\ 0 \in 0..MaxFaults
  BY FileAssumption
<1>8. OtherTypes
  BY <1>7 DEF OtherTypes
<1>9. InStep /\ \A t \in Threads : ThreadInStep(t)
  BY NotAThread DEF InStep, ThreadInStep
<1>10. Chained(files, NewHeader)
  BY <1>4 DEF Chained, NewHeader
<1>11. Named(files, NewHeader)
  BY DEF Named, Names, NewHeader, NoPositions, NoPos
<1>12. Unopened
  BY <1>4 DEF Unopened, NewHeader
<1>13. Linked
  BY <1>10, <1>11, <1>12 DEF Linked, SamePlace
<1> QED BY <1>3, <1>5, <1>6, <1>8, <1>9, <1>13 DEF Frame

\* The constructor.
LEMMA OpenFrame == Frame /\ open => Frame'
<1> SUFFICES ASSUME Frame, open PROVE Frame'
  OBVIOUS
<1> DEFINE fs == created(files, disk.write_seqno)
           n == Len(fs[disk.write_seqno])
           h == [disk EXCEPT !.write_filesize = n]
<1>1. mem \in Headers /\ disk \in Headers /\ FilesOK(files)
  BY DEF Frame, HeaderTypes
<1>2. disk.write_seqno \in Nat /\ disk.read_seqno \in Nat
  BY <1>1 DEF Headers
<1>3. /\ FilesOK(fs) /\ DOMAIN fs = DOMAIN files \cup {disk.write_seqno}
      /\ Grows(files, fs)
  BY <1>1, <1>2, CreatedFile
<1>4. n \in Nat
  BY <1>3, LenProperties DEF FilesOK
<1>5. proc = "down" /\ files' = fs /\ disk' = disk /\ inside' = inside /\ hand' = hand
  BY DEF open
<1>6. /\ pushed' = pushed /\ crashes' = crashes /\ stops' = stops /\ faults' = faults
      /\ accepted' = accepted /\ handled' = handled /\ torn' = torn /\ knownLost' = knownLost
  BY DEF open, bounds, history
<1>7. \/ /\ proc' = "recover" /\ toRecover' = Threads /\ mem' = h /\ pc' = pc /\ stop' = stop
         /\ disk.exit_status = 0
      \/ /\ proc' = "up" /\ startThreads /\ toRecover' = toRecover
         /\ mem' = h \/ mem' = [h EXCEPT !.exit_status = 0]
  BY Zenon DEF open
<1> HIDE DEF n
<1>8. h \in Headers /\ [h EXCEPT !.exit_status = 0] \in Headers
  BY <1>1, <1>4 DEF Headers
<1>9. HeaderTypes'
  BY <1>1, <1>5, <1>7, <1>8 DEF HeaderTypes
<1>10. /\ mem'.read_seqno = disk.read_seqno /\ mem'.read_offset = disk.read_offset
       /\ mem'.write_seqno = disk.write_seqno /\ mem'.pos = disk.pos
  BY <1>1, <1>7 DEF Headers
<1>10a. h.exit_status = disk.exit_status
  BY <1>1 DEF Headers
<1> HIDE DEF h
<1>11. ThreadTypes /\ OtherTypes /\ InStep /\ (\A t \in Threads : ThreadInStep(t)) /\ Linked
  BY DEF Frame
<1>12. \A t \in Threads : hand[t] = <<>> /\ pc[t] = "off"
  BY <1>5, <1>11 DEF InStep, ThreadInStep
<1>13. pc' \in [Threads -> Pcs] /\ \A t \in Threads : pc'[t] \in {"off", "start"}
  BY <1>7, <1>11, <1>12 DEF startThreads, Pcs, ThreadTypes
<1>14. ThreadTypes'
  BY <1>5, <1>11, <1>13 DEF ThreadTypes
<1>15. OtherTypes'
  BY <1>6, <1>7, <1>11 DEF OtherTypes, startThreads
<1>16. inside = "none"
  BY <1>5, <1>11 DEF InStep
<1>17. InStep'
  <2>1. CASE proc' = "recover"
    BY <1>5, <1>7, <1>10a, <1>12, <1>16, <2>1 DEF InStep
  <2>2. CASE proc' = "up"
    BY <1>5, <1>16, <2>2 DEF InStep
  <2> QED BY <1>7, <2>1, <2>2
<1>18. ASSUME NEW t \in Threads PROVE ThreadInStep(t)'
  BY <1>5, <1>12, <1>13, <1>16, NotAThread DEF ThreadInStep
<1>19. \A f \in DOMAIN fs \ DOMAIN files : Unopened /\ f = disk.write_seqno
  BY <1>3, <1>11 DEF Linked
<1>20. Chained(fs, disk) /\ Named(fs, disk)
  <2>1. CASE Unopened
    <3>1. Chained(fs, disk)
      <4>1. disk.read_seqno <= disk.write_seqno
        BY <1>2, <2>1 DEF Unopened
      <4>2. \A f \in Nat : disk.read_seqno <= f /\ f <= disk.write_seqno => f \in DOMAIN fs
        BY <1>2, <1>3, <2>1 DEF Unopened
      <4> QED BY <4>1, <4>2 DEF Chained
    <3>2. \A t \in Threads : disk.pos[t] = NoPos
      BY <2>1 DEF Unopened, NoPositions
    <3> QED BY <3>1, <3>2 DEF Named, Names, NoPos
  <2>2. CASE ~Unopened
    <3>1. DOMAIN fs \ DOMAIN files = {}
      BY <1>19, <2>2
    <3> QED BY <1>1, <1>2, <1>3, <1>11, <3>1, StillChained, StillNamed DEF Linked, Grows
  <2> QED BY <2>1, <2>2
<1>21. Chained(fs, mem') /\ Named(fs, mem')
  BY <1>10, <1>20 DEF Chained, Named
<1>22. Linked'
  BY <1>3, <1>5, <1>10, <1>20, <1>21 DEF Linked, SamePlace
<1> QED BY <1>3, <1>5, <1>9, <1>14, <1>15, <1>17, <1>18, <1>22 DEF Frame

\* The end of the recovery.
LEMMA RecoverDoneFrame == Frame /\ recoverDone => Frame'
<1> SUFFICES ASSUME Frame, recoverDone PROVE Frame'
  OBVIOUS
<1> DEFINE h == [mem EXCEPT !.pos = NoPositions]
<1>1. mem \in Headers /\ disk \in Headers /\ FilesOK(files)
  BY DEF Frame, HeaderTypes
<1>2. NoPositions \in [Threads -> [seqno : Nat, offset : Nat]]
  BY DEF NoPositions, NoPos
<1>3. h \in Headers /\ [h EXCEPT !.exit_status = 0] \in Headers
  BY <1>1, <1>2 DEF Headers
<1>4. /\ proc = "recover" /\ proc' = "up" /\ disk' = h /\ mem' = [h EXCEPT !.exit_status = 0]
      /\ startThreads /\ files' = files /\ inside' = inside /\ hand' = hand
      /\ toRecover' = toRecover
  BY DEF recoverDone
<1>5. /\ pushed' = pushed /\ crashes' = crashes /\ stops' = stops /\ faults' = faults
      /\ accepted' = accepted /\ handled' = handled /\ torn' = torn /\ knownLost' = knownLost
  BY DEF recoverDone, bounds, history
<1>6. \A g \in {mem', disk'} : /\ g.read_seqno = mem.read_seqno /\ g.read_offset = mem.read_offset
                               /\ g.write_seqno = mem.write_seqno /\ g.pos = NoPositions
  BY <1>1, <1>4 DEF Headers
<1>7. HeaderTypes'
  BY <1>3, <1>4 DEF HeaderTypes
<1> HIDE DEF h
<1>8. ThreadTypes /\ OtherTypes /\ InStep /\ (\A t \in Threads : ThreadInStep(t)) /\ Linked
  BY DEF Frame
<1>9. \A t \in Threads : hand[t] = <<>>
  BY <1>4, <1>8 DEF InStep, ThreadInStep
<1>10. pc' \in [Threads -> Pcs] /\ \A t \in Threads : pc'[t] = "start"
  BY <1>4 DEF startThreads, Pcs
<1>11. ThreadTypes'
  BY <1>4, <1>8, <1>10 DEF ThreadTypes
<1>12. OtherTypes'
  BY <1>4, <1>5, <1>8 DEF OtherTypes, startThreads
<1>13. inside = "none"
  BY <1>4, <1>8 DEF InStep
<1>14. InStep'
  BY <1>4, <1>13 DEF InStep
<1>15. \A t \in Threads : ThreadInStep(t)'
  BY <1>4, <1>9, <1>10, <1>13, NotAThread DEF ThreadInStep
<1>16. ASSUME NEW g \in {mem', disk'} PROVE Chained(files, g) /\ Named(files, g)
  BY <1>6, <1>8 DEF Linked, Chained, Named, Names, NoPositions, NoPos
<1>17. mem.write_seqno \in DOMAIN files
  BY <1>4, <1>8 DEF Linked
<1>18. Linked'
  BY <1>4, <1>6, <1>16, <1>17 DEF Linked, SamePlace
<1> QED BY <1>1, <1>4, <1>7, <1>11, <1>12, <1>14, <1>15, <1>18 DEF Frame

\* The destructor.
LEMMA DestroyFrame == Frame /\ destroy => Frame'
<1> SUFFICES ASSUME Frame, destroy PROVE Frame'
  OBVIOUS
<1>1. mem \in Headers /\ disk \in Headers /\ FilesOK(files)
  BY DEF Frame, HeaderTypes
<1>2. NoPositions \in [Threads -> [seqno : Nat, offset : Nat]]
  BY DEF NoPositions, NoPos
<1>3. closed \in Headers
  BY <1>1, <1>2 DEF closed, Headers
<1>4. /\ closed.read_seqno = mem.read_seqno /\ closed.read_offset = mem.read_offset
      /\ closed.write_seqno = mem.write_seqno /\ closed.pos = NoPositions
  BY <1>1 DEF closed, Headers
<1>5. /\ proc = "up" /\ proc' = "down" /\ disk' = closed /\ mem' = closed /\ inside = "none"
      /\ \A t \in Threads : pc[t] = "done"
      /\ files' = files /\ inside' = inside /\ hand' = hand /\ stop' = stop
      /\ toRecover' = toRecover /\ pc' = [t \in Threads |-> "off"]
  BY DEF destroy
<1>6. /\ pushed' = pushed /\ crashes' = crashes /\ stops' = stops /\ faults' = faults
      /\ accepted' = accepted /\ handled' = handled /\ torn' = torn /\ knownLost' = knownLost
  BY DEF destroy, bounds, history
<1>7. HeaderTypes'
  BY <1>3, <1>5 DEF HeaderTypes
<1>8. ThreadTypes /\ OtherTypes /\ InStep /\ (\A t \in Threads : ThreadInStep(t)) /\ Linked
  BY DEF Frame
<1>9. \A t \in Threads : hand[t] = <<>>
  BY <1>5, <1>8 DEF ThreadInStep
<1>10. pc' \in [Threads -> Pcs] /\ \A t \in Threads : pc'[t] = "off"
  BY <1>5 DEF Pcs
<1>11. ThreadTypes'
  BY <1>5, <1>8, <1>10 DEF ThreadTypes
<1>12. OtherTypes'
  BY <1>5, <1>6, <1>8 DEF OtherTypes
<1>13. InStep'
  BY <1>5, <1>10 DEF InStep
<1>14. \A t \in Threads : ThreadInStep(t)'
  BY <1>5, <1>9, <1>10, NotAThread DEF ThreadInStep
<1>15. Chained(files, closed) /\ Named(files, closed)
  BY <1>4, <1>8 DEF Linked, Chained, Named, Names, NoPositions, NoPos
<1>16. mem.write_seqno \in DOMAIN files
  BY <1>5, <1>8 DEF Linked
<1>17. Linked'
  BY <1>4, <1>5, <1>15, <1>16 DEF Linked, SamePlace
<1> QED BY <1>1, <1>5, <1>7, <1>11, <1>12, <1>13, <1>14, <1>17 DEF Frame

\* The process dies.
LEMMA CrashFrame == Frame /\ crash => Frame'
<1> SUFFICES ASSUME Frame, crash PROVE Frame'
  OBVIOUS
<1>1. mem \in Headers /\ disk \in Headers /\ FilesOK(files)
  BY DEF Frame, HeaderTypes
<1>2. /\ proc # "down" /\ crashes < MaxCrashes /\ crashes' = crashes + 1
      /\ proc' = "down" /\ mem' = disk /\ inside' = "none" /\ toRecover' = {}
      /\ pc' = [t \in Threads |-> "off"] /\ hand' = [t \in Threads |-> <<>>]
      /\ stop' = FALSE
      /\ knownLost' = knownLost \cup {hand[t][1] : t \in {s \in Threads : heldBehind(s)}}
      /\ disk' = disk /\ files' = files
      /\ pushed' = pushed /\ stops' = stops /\ faults' = faults
      /\ accepted' = accepted /\ handled' = handled /\ torn' = torn
  BY DEF crash
<1>3. ThreadTypes /\ OtherTypes /\ InStep /\ (\A t \in Threads : ThreadInStep(t)) /\ Linked
  BY DEF Frame
<1>4. HeaderTypes'
  BY <1>1, <1>2 DEF HeaderTypes
<1>5. ThreadTypes'
  BY <1>2 DEF ThreadTypes, Pcs
<1>6. knownLost' \subseteq Items
  <2>1. ASSUME NEW t \in Threads, heldBehind(t) PROVE hand[t][1] \in Items
    <3>1. hand[t] # <<>> /\ hand[t] \in {<<>>} \cup Items \X Payloads
      BY <1>3, <2>1 DEF heldBehind, ThreadTypes
    <3> QED BY <3>1
  <2> QED BY <1>2, <1>3, <2>1 DEF OtherTypes
<1>7. crashes' \in 0..MaxCrashes
  BY <1>2, <1>3, FileAssumption DEF OtherTypes
<1>8. OtherTypes'
  BY <1>2, <1>3, <1>6, <1>7 DEF OtherTypes
<1>9. InStep' /\ \A t \in Threads : ThreadInStep(t)'
  BY <1>2, NotAThread DEF InStep, ThreadInStep
<1>10. disk.write_seqno \in DOMAIN files
  BY <1>2, <1>3 DEF Linked, Unopened
<1>11. Linked'
  BY <1>2, <1>3, <1>10 DEF Linked, SamePlace
<1> QED BY <1>1, <1>2, <1>4, <1>5, <1>8, <1>9, <1>11 DEF Frame

\* A step that leaves the headers and the files alone, and keeps the process.
LEMMA QuietLinked ==
  ASSUME Frame, mem' = mem, disk' = disk, files' = files, proc' = proc, proc = "up",
         inside' = inside
  PROVE  HeaderTypes' /\ FilesOK(files)' /\ Linked'
BY DEF Frame, HeaderTypes, Linked, SamePlace, Unopened

LEMMA StopFrame == Frame /\ stopQueue => Frame'
<1> SUFFICES ASSUME Frame, stopQueue PROVE Frame'
  OBVIOUS
<1>1. /\ proc = "up" /\ inside = "none" /\ stops < MaxStops /\ stops' = stops + 1 /\ stop' = TRUE
      /\ pc' = [t \in Threads |-> IF pc[t] = "asleep" THEN "woken" ELSE pc[t]]
      /\ proc' = proc /\ mem' = mem /\ disk' = disk /\ files' = files /\ inside' = inside
      /\ hand' = hand /\ toRecover' = toRecover
      /\ pushed' = pushed /\ crashes' = crashes /\ faults' = faults
      /\ accepted' = accepted /\ handled' = handled /\ torn' = torn /\ knownLost' = knownLost
  BY DEF stopQueue, history
<1>2. ThreadTypes /\ OtherTypes /\ InStep /\ (\A t \in Threads : ThreadInStep(t)) /\ Linked
  BY DEF Frame
<1>3. HeaderTypes' /\ FilesOK(files)' /\ Linked'
  BY <1>1, QuietLinked
<1>4. ThreadTypes'
  BY <1>1, <1>2 DEF ThreadTypes, Pcs
<1>5. stops' \in 0..MaxStops
  BY <1>1, <1>2, FileAssumption DEF OtherTypes
<1>6. OtherTypes'
  BY <1>1, <1>2, <1>5 DEF OtherTypes
<1>7. InStep' /\ \A t \in Threads : ThreadInStep(t)'
  BY <1>1, <1>2 DEF InStep, ThreadInStep
<1> QED BY <1>3, <1>4, <1>6, <1>7 DEF Frame

LEMMA HandleFrame == \A t \in Threads : Frame /\ handleQueue(t) => Frame'
<1> SUFFICES ASSUME NEW t \in Threads, Frame, handleQueue(t) PROVE Frame'
  OBVIOUS
<1>1. /\ pc[t] = "handle" /\ pc' = [pc EXCEPT ![t] = "finish"]
      /\ handled' = IF hand[t][1] = hand[t][2] THEN [handled EXCEPT ![hand[t][1]] = @ + 1]
                                              ELSE handled
      /\ proc' = proc /\ mem' = mem /\ disk' = disk /\ files' = files /\ inside' = inside
      /\ hand' = hand /\ toRecover' = toRecover /\ stop' = stop
      /\ pushed' = pushed /\ crashes' = crashes /\ faults' = faults /\ stops' = stops
      /\ accepted' = accepted /\ torn' = torn /\ knownLost' = knownLost
  BY DEF handleQueue, bounds
<1>2. ThreadTypes /\ OtherTypes /\ InStep /\ (\A s \in Threads : ThreadInStep(s)) /\ Linked
  BY DEF Frame
<1>3. proc = "up"
  BY <1>1, <1>2 DEF InStep
<1>4. HeaderTypes' /\ FilesOK(files)' /\ Linked'
  BY <1>1, <1>3, QuietLinked
<1>5. hand[t] # <<>> /\ hand[t] \in {<<>>} \cup Items \X Payloads
  BY <1>1, <1>2 DEF ThreadTypes
<1>6. hand[t][1] \in Items
  BY <1>5
<1>7. handled' \in [Items -> Nat]
  BY <1>1, <1>2, <1>6 DEF OtherTypes
<1>8. pc \in [Threads -> Pcs]
  BY <1>2 DEF ThreadTypes
<1>9. pc' \in [Threads -> Pcs] /\ pc'[t] = "finish" /\ \A s \in Threads \ {t} : pc'[s] = pc[s]
  BY <1>1, <1>8 DEF Pcs
<1>10. ThreadTypes'
  BY <1>1, <1>2, <1>9 DEF ThreadTypes
<1>11. OtherTypes'
  BY <1>1, <1>2, <1>7 DEF OtherTypes
<1>12. InStep'
  BY <1>1, <1>2, <1>3 DEF InStep
<1>13. ASSUME NEW s \in Threads PROVE ThreadInStep(s)'
  BY <1>1, <1>2, <1>5, <1>9 DEF ThreadInStep
<1> QED BY <1>4, <1>10, <1>11, <1>12, <1>13 DEF Frame

LEMMA SaveFrame == \A t \in Threads : Frame /\ saveHead(t) => Frame'
<1> SUFFICES ASSUME NEW t \in Threads, Frame, saveHead(t) PROVE Frame'
  OBVIOUS
<1>1. /\ pc[t] = "save" /\ disk' = mem /\ inside' = "none" /\ pc' = [pc EXCEPT ![t] = got(t)]
      /\ proc' = proc /\ mem' = mem /\ files' = files /\ hand' = hand /\ stop' = stop
      /\ toRecover' = toRecover
      /\ pushed' = pushed /\ crashes' = crashes /\ faults' = faults /\ stops' = stops
      /\ accepted' = accepted /\ handled' = handled /\ torn' = torn /\ knownLost' = knownLost
  BY DEF saveHead, bounds, history
<1>2. /\ ThreadTypes /\ OtherTypes /\ InStep /\ (\A s \in Threads : ThreadInStep(s)) /\ Linked
      /\ mem \in Headers /\ FilesOK(files)
  BY DEF Frame, HeaderTypes
<1>3. proc = "up" /\ inside = t
  BY <1>1, <1>2 DEF InStep, ThreadInStep
<1>4. HeaderTypes'
  BY <1>1, <1>2 DEF HeaderTypes
<1>5. Linked'
  BY <1>1, <1>2, <1>3 DEF Linked, SamePlace
<1>6. pc \in [Threads -> Pcs]
  BY <1>2 DEF ThreadTypes
<1>7. got(t) = IF hand[t] = <<>> THEN "start" ELSE "handle"
  BY DEF got
<1>8. /\ pc' \in [Threads -> Pcs] /\ \A s \in Threads \ {t} : pc'[s] = pc[s]
      /\ pc'[t] = IF hand[t] = <<>> THEN "start" ELSE "handle"
  BY <1>1, <1>6, <1>7 DEF Pcs
<1>9. ThreadTypes'
  BY <1>1, <1>2, <1>8 DEF ThreadTypes
<1>10. OtherTypes'
  BY <1>1, <1>2 DEF OtherTypes
<1>11. InStep'
  BY <1>1, <1>2, <1>3 DEF InStep
<1>12. ASSUME NEW s \in Threads PROVE ThreadInStep(s)'
  BY <1>1, <1>2, <1>3, <1>8, NotAThread DEF ThreadInStep
<1> QED BY <1>1, <1>2, <1>4, <1>5, <1>9, <1>10, <1>11, <1>12 DEF Frame

\* The files grow, by a file behind the last one at most, and the header moves on
\* to that file.
LEMMA GrownLinks ==
  ASSUME NEW fs, NEW gs, FilesOK(fs), FilesOK(gs), Grows(fs, gs),
         NEW h \in Headers, NEW g \in Headers, Chained(fs, h), Named(fs, h),
         DOMAIN gs \subseteq DOMAIN fs \cup {h.write_seqno + 1},
         g.read_seqno = h.read_seqno,
         \A t \in Threads : g.pos[t] = h.pos[t] \/ g.pos[t] = NoPos,
         g.write_seqno = h.write_seqno \/
           (g.write_seqno = h.write_seqno + 1 /\ g.write_seqno \in DOMAIN gs)
  PROVE  Chained(gs, g) /\ Named(gs, g)
<1>1. h.read_seqno \in Nat /\ h.write_seqno \in Nat /\ h.read_seqno <= h.write_seqno
  BY DEF Headers, Chained
<1>2. \A f \in DOMAIN gs \ DOMAIN fs : f > h.read_seqno
  BY <1>1
<1>3. Chained(gs, g)
  BY <1>2, StillChained DEF Grows
<1>4. Named(gs, g)
  BY <1>1, <1>2, StillNamed DEF Grows
<1> QED BY <1>3, <1>4

\* The step to a new file keeps the header and the files together.
LEMMA LeftFull ==
  ASSUME Frame, leaveFull, proc # "down", proc' = proc, inside = "none"
  PROVE  /\ HeaderTypes' /\ FilesOK(files') /\ Linked'
         /\ disk'.exit_status = mem.exit_status /\ mem'.exit_status = mem.exit_status
<1> DEFINE h == rotated(mem)
           gs == created(files, h.write_seqno)
<1>1. mem' = h /\ disk' = h /\ files' = gs
  BY DEF leaveFull
<1>2. mem \in Headers /\ FilesOK(files) /\ Chained(files, mem) /\ Named(files, mem)
      /\ mem.write_seqno \in DOMAIN files
  BY DEF Frame, HeaderTypes, Linked
<1>3. /\ h \in Headers /\ h.read_seqno = mem.read_seqno /\ h.read_offset = mem.read_offset
      /\ h.pos = mem.pos /\ h.exit_status = mem.exit_status
      /\ h = mem \/ h.write_seqno = mem.write_seqno + 1
  BY <1>2, RotatedHeader
<1>4. h.write_seqno \in Nat
  BY <1>3 DEF Headers
<1>5. FilesOK(gs) /\ DOMAIN gs = DOMAIN files \cup {h.write_seqno} /\ Grows(files, gs)
  BY <1>2, <1>4, CreatedFile
<1> HIDE DEF h, gs
<1>6. Chained(gs, h) /\ Named(gs, h)
  BY <1>2, <1>3, <1>5, GrownLinks
<1>7. Linked'
  BY <1>1, <1>5, <1>6 DEF Linked, SamePlace
<1> QED BY <1>1, <1>3, <1>5, <1>7 DEF HeaderTypes

LEMMA RotateFrame == Frame /\ pushRotate => Frame'
<1> SUFFICES ASSUME Frame, pushRotate PROVE Frame'
  OBVIOUS
<1>1. /\ proc = "up" /\ inside = "none" /\ pushed < MaxPush /\ pushed' = pushed + 1
      /\ inside' = "writer"
      /\ proc' = proc /\ pc' = pc /\ hand' = hand /\ stop' = stop /\ toRecover' = toRecover
      /\ crashes' = crashes /\ faults' = faults /\ stops' = stops
      /\ accepted' = accepted /\ handled' = handled /\ torn' = torn /\ knownLost' = knownLost
      /\ (mem' = mem /\ files' = files /\ disk' = disk) \/ leaveFull
  BY DEF pushRotate, threads, history
<1>2. /\ HeaderTypes /\ FilesOK(files) /\ ThreadTypes /\ OtherTypes /\ InStep
      /\ (\A s \in Threads : ThreadInStep(s)) /\ Linked
  BY DEF Frame
<1>3. HeaderTypes' /\ FilesOK(files') /\ Linked'
  <2>1. CASE mem' = mem /\ files' = files /\ disk' = disk
    <3>1. SamePlace
      BY <1>1, <1>2, NotAThread DEF Linked
    <3> QED BY <1>1, <1>2, <2>1, <3>1 DEF HeaderTypes, Linked, SamePlace, Unopened
  <2>2. CASE leaveFull
    BY <1>1, <2>2, LeftFull
  <2> QED BY <1>1, <2>1, <2>2
<1>4. ThreadTypes'
  BY <1>1, <1>2 DEF ThreadTypes
<1>5. pushed' \in 0..MaxPush /\ pushed' > 0
  BY <1>1, <1>2, FileAssumption DEF OtherTypes
<1>6. OtherTypes'
  BY <1>1, <1>2, <1>5 DEF OtherTypes
<1>7. InStep'
  BY <1>1, <1>5 DEF InStep
<1>8. \A s \in Threads : ThreadInStep(s)'
  BY <1>1, <1>2, NotAThread DEF ThreadInStep
<1> QED BY <1>3, <1>4, <1>6, <1>7, <1>8 DEF Frame

LEMMA RecoverRotateFrame == Frame /\ recoverRotate => Frame'
<1> SUFFICES ASSUME Frame, recoverRotate PROVE Frame'
  OBVIOUS
<1>1. /\ proc = "recover" /\ leaveFull /\ inside' = inside
      /\ proc' = proc /\ pc' = pc /\ hand' = hand /\ stop' = stop /\ toRecover' = toRecover
      /\ pushed' = pushed /\ crashes' = crashes /\ faults' = faults /\ stops' = stops
      /\ accepted' = accepted /\ handled' = handled /\ torn' = torn /\ knownLost' = knownLost
  BY DEF recoverRotate, threads, bounds, history
<1>2. /\ ThreadTypes /\ OtherTypes /\ InStep /\ (\A s \in Threads : ThreadInStep(s))
      /\ inside = "none" /\ mem.exit_status = 0
  BY <1>1 DEF Frame, InStep
<1>3. /\ HeaderTypes' /\ FilesOK(files') /\ Linked'
      /\ disk'.exit_status = 0 /\ mem'.exit_status = 0
  BY <1>1, <1>2, LeftFull
<1>4. ThreadTypes' /\ OtherTypes'
  BY <1>1, <1>2 DEF ThreadTypes, OtherTypes
<1>5. InStep'
  BY <1>1, <1>2, <1>3 DEF InStep
<1>6. \A s \in Threads : ThreadInStep(s)'
  BY <1>1, <1>2 DEF ThreadInStep
<1> QED BY <1>3, <1>4, <1>5, <1>6 DEF Frame

LEMMA WriteFrame == Frame /\ pushWrite => Frame'
<1> SUFFICES ASSUME Frame, pushWrite PROVE Frame'
  OBVIOUS
<1>1. /\ inside = "writer" /\ inside' = "none" /\ signal
      /\ proc' = proc /\ disk' = disk /\ hand' = hand /\ stop' = stop /\ toRecover' = toRecover
      /\ crashes' = crashes /\ pushed' = pushed /\ stops' = stops
      /\ handled' = handled /\ knownLost' = knownLost
  BY DEF pushWrite
<1>2. PICK outcome \in outcomes :
        /\ files' = append(files, mem, pushed, pushed, outcome)
        /\ mem' = counted(mem, outcome)
        /\ fault(outcome)
        /\ accepted' = IF outcome = "whole" THEN accepted \cup {pushed} ELSE accepted
  BY DEF pushWrite
<1>3. /\ ThreadTypes /\ OtherTypes /\ InStep /\ (\A s \in Threads : ThreadInStep(s)) /\ Linked
      /\ mem \in Headers /\ disk \in Headers /\ FilesOK(files)
  BY DEF Frame, HeaderTypes
<1>4. proc = "up" /\ pushed \in Items /\ pushed \in Payloads
  BY <1>1, <1>3, FileAssumption DEF InStep, OtherTypes, Items, Payloads
<1>5. outcome \in {"whole", "short", "none"} /\ (outcome # "whole" => faults < MaxFaults)
  BY <1>2 DEF outcomes
<1>6. faults' \in 0..MaxFaults /\ torn' \in BOOLEAN
  BY <1>2, <1>3, <1>5, FileAssumption DEF fault, OtherTypes
<1>7. accepted' \subseteq Items
  BY <1>2, <1>3, <1>4 DEF OtherTypes
<1>8. OtherTypes'
  BY <1>1, <1>3, <1>6, <1>7 DEF OtherTypes
<1>9. /\ mem' \in Headers /\ mem'.read_seqno = mem.read_seqno /\ mem'.read_offset = mem.read_offset
      /\ mem'.write_seqno = mem.write_seqno /\ mem'.pos = mem.pos
  BY <1>2, <1>3, CountedHeader
<1>10. HeaderTypes'
  BY <1>1, <1>3, <1>9 DEF HeaderTypes
<1>11. /\ pc' \in [Threads -> Pcs]
       /\ \A s \in Threads : pc'[s] = pc[s] \/ (pc[s] = "asleep" /\ pc'[s] = "woken")
  BY <1>1, <1>3 DEF signal, ThreadTypes, Pcs
<1>12. ThreadTypes'
  BY <1>1, <1>3, <1>11 DEF ThreadTypes
<1>13. InStep'
  BY <1>1, <1>4 DEF InStep
<1>14. ASSUME NEW s \in Threads PROVE ThreadInStep(s)'
  <2>1. pc'[s] = pc[s] \/ (pc[s] = "asleep" /\ pc'[s] = "woken")
    BY <1>11
  <2>2. ThreadInStep(s)
    BY <1>3
  <2> QED BY <1>1, <2>1, <2>2, NotAThread DEF ThreadInStep
<1>15. mem.write_seqno \in DOMAIN files /\ mem.write_seqno \in Nat
  BY <1>3, <1>4 DEF Linked, Headers
<1>16. FilesOK(files') /\ DOMAIN files' = DOMAIN files /\ Grows(files, files')
  <2>1. DOMAIN files \cup {mem.write_seqno} = DOMAIN files
    BY <1>15
  <2> DEFINE gs == append(files, mem, pushed, pushed, outcome)
  <2>2. Appended(files, gs, mem.write_seqno, units(pushed, pushed, outcome))
    BY <1>3, <1>4, <1>5, <1>15, AppendedFile
  <2> HIDE DEF gs
  <2>3. files' = gs
    BY <1>2 DEF gs
  <2> QED BY <2>1, <2>2, <2>3 DEF Appended
<1>17. Chained(files', mem') /\ Named(files', mem')
  <2>1. Chained(files, mem) /\ Named(files, mem)
    BY <1>3 DEF Linked
  <2> QED BY <1>3, <1>9, <1>16, <2>1, GrownLinks
<1>18. Chained(files', disk) /\ Named(files', disk)
  <2>1. Chained(files, disk) /\ Named(files, disk)
    BY <1>3 DEF Linked
  <2> QED BY <1>3, <1>16, <2>1, GrownLinks
<1>19. Linked'
  BY <1>1, <1>3, <1>4, <1>9, <1>16, <1>17, <1>18, NotAThread DEF Linked, SamePlace, Unopened
<1> QED BY <1>8, <1>10, <1>12, <1>13, <1>14, <1>16, <1>19 DEF Frame

\* What an entry of pos that names a record gives.
LEMMA NamedItem ==
  ASSUME Frame, NEW h \in Headers, Named(files, h), NEW t \in Threads,
         isRecovered(h, h.pos[t])
  PROVE  LET p == h.pos[t]
         IN /\ p.seqno \in DOMAIN files /\ p.seqno \in Nat /\ p.offset \in Nat
            /\ p.offset + 1 \in 1..Len(files[p.seqno])
            /\ p.offset + 2 \in 1..Len(files[p.seqno])
            /\ files[p.seqno][p.offset + 1].part = "head"
            /\ itemAt(p)[1] = files[p.seqno][p.offset + 1].item
            /\ itemAt(p)[2] = payload(files[p.seqno][p.offset + 2])
            /\ itemAt(p)[1] \in Items /\ itemAt(p)[2] \in Payloads
<1> DEFINE p == h.pos[t]
           s == files[p.seqno]
<1>1. p \in [seqno : Nat, offset : Nat]
  BY DEF Headers
<1>2. p.seqno # 0 /\ p.seqno \in DOMAIN files
  BY DEF isRecovered
<1>3. p.offset + 2 <= Len(s) /\ s[p.offset + 1].part = "head"
  BY <1>2 DEF Named, Names
<1>4. s \in Seq(Units) /\ Len(s) \in Nat
  BY <1>2, LenProperties DEF Frame, FilesOK
<1>5. p.offset + 1 \in 1..Len(s) /\ p.offset + 2 \in 1..Len(s)
  BY <1>1, <1>3, <1>4
<1>6. s[p.offset + 1] \in Units /\ s[p.offset + 2] \in Units
  BY <1>4, <1>5, ElementOfSeq
<1>7. s[p.offset + 1].item \in Items
  BY <1>3, <1>6 DEF Units
<1>8. payload(s[p.offset + 2]) \in Payloads
  BY <1>6, PayloadType
<1>9. itemAt(p) = <<s[p.offset + 1].item, payload(s[p.offset + 2])>>
  BY DEF itemAt
<1> QED BY <1>1, <1>2, <1>3, <1>5, <1>7, <1>8, <1>9

LEMMA RecoverFrame == \A t \in Threads : Frame /\ recoverOne(t) => Frame'
<1> SUFFICES ASSUME NEW t \in Threads, Frame, recoverOne(t) PROVE Frame'
  OBVIOUS
<1> DEFINE p == mem.pos[t]
<1>1. /\ proc = "recover" /\ toRecover' = toRecover \ {t}
      /\ proc' = proc /\ inside' = inside /\ pc' = pc /\ hand' = hand /\ stop' = stop
      /\ pushed' = pushed /\ crashes' = crashes /\ stops' = stops
      /\ accepted' = accepted /\ handled' = handled
  BY DEF recoverOne, threads
<1>2. /\ ThreadTypes /\ OtherTypes /\ InStep /\ (\A s \in Threads : ThreadInStep(s)) /\ Linked
      /\ mem \in Headers /\ disk \in Headers /\ FilesOK(files)
  BY DEF Frame, HeaderTypes
<1>3. ThreadTypes'
  BY <1>1, <1>2 DEF ThreadTypes
<1>4. \A s \in Threads : ThreadInStep(s)'
  BY <1>1, <1>2 DEF ThreadInStep
<1>5. SamePlace /\ mem.pos = disk.pos /\ disk.exit_status = 0 /\ inside = "none"
  BY <1>1, <1>2, NotAThread DEF Linked, InStep
<1>6. CASE ~isRecovered(mem, p)
  <2>1. /\ files' = files /\ mem' = mem /\ disk' = disk /\ faults' = faults
        /\ torn' = torn /\ knownLost' = knownLost
    BY <1>6, Zenon DEF recoverOne
  <2>2. HeaderTypes' /\ FilesOK(files)'
    BY <1>2, <2>1 DEF HeaderTypes
  <2>3. OtherTypes'
    BY <1>1, <1>2, <2>1 DEF OtherTypes
  <2>4. Linked'
    BY <1>1, <1>2, <2>1 DEF Linked, SamePlace, Unopened
  <2>5. InStep'
    BY <1>1, <1>2, <2>1 DEF InStep
  <2> QED BY <1>3, <1>4, <2>2, <2>3, <2>4, <2>5 DEF Frame
<1>7. CASE isRecovered(mem, p)
  <2>1. PICK outcome \in outcomes :
          /\ files' = append(files, mem, itemAt(p)[1], itemAt(p)[2], outcome)
          /\ mem' = counted(mem, outcome)
          /\ fault(outcome)
          /\ knownLost' = IF outcome = "whole" THEN knownLost
                                               ELSE knownLost \cup {itemAt(p)[1]}
    BY <1>7, Zenon DEF recoverOne
  <2>2. disk' = disk
    BY DEF recoverOne
  <2>3. itemAt(p)[1] \in Items /\ itemAt(p)[2] \in Payloads
    BY <1>2, <1>7, NamedItem DEF Linked
  <2>4. outcome \in {"whole", "short", "none"} /\ (outcome # "whole" => faults < MaxFaults)
    BY <2>1 DEF outcomes
  <2>5. mem.write_seqno \in Nat
    BY <1>2 DEF Headers
  <2>6. Appended(files, files', mem.write_seqno, units(itemAt(p)[1], itemAt(p)[2], outcome))
    BY <1>2, <2>1, <2>3, <2>4, <2>5, AppendedFile
  <2>7. FilesOK(files') /\ Grows(files, files')
        /\ DOMAIN files' = DOMAIN files \cup {mem.write_seqno}
    BY <2>6 DEF Appended
  <2>8. /\ mem' \in Headers /\ mem'.read_seqno = mem.read_seqno /\ mem'.read_offset = mem.read_offset
        /\ mem'.write_seqno = mem.write_seqno /\ mem'.pos = mem.pos
        /\ mem'.exit_status = mem.exit_status
    BY <1>2, <2>1, CountedHeader
  <2>10. /\ disk'.read_seqno = mem.read_seqno /\ disk'.read_offset = mem.read_offset
         /\ disk'.write_seqno = mem.write_seqno /\ disk'.pos = mem.pos /\ disk' \in Headers
    BY <1>2, <1>5, <2>2 DEF SamePlace
  <2>11. disk'.exit_status = 0 /\ mem'.exit_status = 0
    <3>1. mem.exit_status = 0
      BY <1>1, <1>2 DEF InStep
    <3> QED BY <1>5, <2>1, <2>2, <2>8, <3>1
  <2>12. HeaderTypes'
    BY <2>8, <2>10 DEF HeaderTypes
  <2>13. faults' \in 0..MaxFaults /\ torn' \in BOOLEAN
    BY <1>2, <2>1, <2>4, FileAssumption DEF fault, OtherTypes
  <2>14. knownLost' \subseteq Items
    BY <1>2, <2>1, <2>3 DEF OtherTypes
  <2>15. OtherTypes'
    BY <1>1, <1>2, <2>13, <2>14 DEF OtherTypes
  <2>16. InStep'
    BY <1>1, <1>2, <2>11 DEF InStep
  <2>17. Chained(files, mem) /\ Named(files, mem) /\ mem.write_seqno \in DOMAIN files
    BY <1>1, <1>2 DEF Linked
  <2>18. DOMAIN files' \subseteq DOMAIN files \cup {mem.write_seqno + 1}
    BY <2>7, <2>17
  <2>19. \A g \in {mem', disk'} : Chained(files', g) /\ Named(files', g)
    BY <1>2, <2>2, <2>7, <2>8, <2>10, <2>17, <2>18, GrownLinks
  <2>20. Linked'
    BY <1>1, <2>7, <2>8, <2>10, <2>19 DEF Linked, SamePlace
  <2> QED BY <1>3, <1>4, <2>7, <2>12, <2>15, <2>16, <2>20 DEF Frame
<1> QED BY <1>6, <1>7

-----------------------------------------------------------------------------
(* pop *)

\* The files that pop deletes end two before the one that it stops at.
LEMMA WithoutFiles ==
  ASSUME NEW fs, FilesOK(fs), NEW from \in Nat, NEW to \in Nat
  PROVE  LET gs == without(fs, deleted(from, to))
         IN /\ FilesOK(gs) /\ DOMAIN gs \subseteq DOMAIN fs
            /\ \A f \in DOMAIN fs : f \in DOMAIN gs <=> ~(from <= f + 1 /\ f + 1 < to)
            /\ \A f \in DOMAIN gs : gs[f] = fs[f]
<1> DEFINE D == deleted(from, to)
           gs == without(fs, D)
<1>1. \A f \in Nat : f \in D <=> from <= f + 1 /\ f + 1 < to
  <2> SUFFICES ASSUME NEW f \in Nat PROVE f \in D <=> from <= f + 1 /\ f + 1 < to
    OBVIOUS
  <2>1. ASSUME f \in D PROVE from <= f + 1 /\ f + 1 < to
    BY <2>1 DEF deleted
  <2>2. ASSUME from <= f + 1 /\ f + 1 < to PROVE f \in D
    <3>1. f + 1 \in from..(to - 1) /\ f = (f + 1) - 1
      BY <2>2
    <3> QED BY <3>1 DEF deleted
  <2> QED BY <2>1, <2>2
<1> HIDE DEF D
<1>2. DOMAIN gs = DOMAIN fs \ D /\ \A f \in DOMAIN gs : gs[f] = fs[f]
  BY DEF without
<1> HIDE DEF gs
<1>3. FilesOK(gs)
  BY <1>2 DEF FilesOK
<1>4. \A f \in DOMAIN fs : f \in DOMAIN gs <=> ~(from <= f + 1 /\ f + 1 < to)
  BY <1>1, <1>2 DEF FilesOK
<1> QED BY <1>2, <1>3, <1>4 DEF gs, D

\* Where the reader stops.
LEMMA ReachedFile ==
  ASSUME FilesOK(files), NEW h \in Headers, Chained(files, h)
  PROVE  /\ reached(h) \in Nat /\ h.read_seqno <= reached(h) /\ reached(h) <= h.write_seqno
         /\ reached(h) = h.write_seqno \/ unreadIn(h, reached(h)) # <<>>
         /\ \A x \in Nat : h.read_seqno <= x /\ x < reached(h) => unreadIn(h, x) = <<>>
<1> DEFINE a == h.read_seqno
           w == h.write_seqno
           S == {f \in a..w : f = w \/ unreadIn(h, f) # <<>>}
<1>1. a \in Nat /\ w \in Nat /\ a <= w
  BY DEF Headers, Chained
<1>2. w \in S
  BY <1>1
<1>3. S \in SUBSET Nat /\ S # {}
  BY <1>1, <1>2
<1>4. reached(h) = Min(S)
  BY DEF reached
<1>5. reached(h) \in S /\ \A x \in S : reached(h) <= x
  BY <1>3, <1>4, Least
<1>6. \A x \in S : x \in Nat /\ a <= x /\ x <= w /\ (x = w \/ unreadIn(h, x) # <<>>)
  BY <1>1
<1>7. reached(h) \in Nat /\ reached(h) <= w
  BY <1>5, <1>6
<1>8. ASSUME NEW x \in Nat, a <= x, x < reached(h), unreadIn(h, x) # <<>> PROVE FALSE
  <2>1. x \in a..w
    BY <1>1, <1>7, <1>8
  <2>2. x \in S
    BY <1>8, <2>1
  <2>3. reached(h) <= x
    BY <1>5, <2>2
  <2> QED BY <1>7, <1>8, <2>3
<1> QED BY <1>5, <1>6, <1>8

\* The four results <<g, gs, x>> of pop: the reader stands in file f at offset o.
PopEnded(h, f, o, g, gs, x) ==
  /\ f = h.write_seqno /\ Len(files[f]) <= o /\ x = <<>>
  /\ gs = without(files, deleted(h.read_seqno, f))
  /\ g.read_seqno = f /\ g.read_offset = o /\ g.pos = h.pos

PopTaken(t, h, f, o, g, gs, x) ==
  /\ o + 2 <= Len(files[f]) /\ files[f][o + 1].part = "head"
  /\ x = <<files[f][o + 1].item, payload(files[f][o + 2])>>
  /\ gs = without(files, deleted(h.read_seqno, f))
  /\ g.read_seqno = f /\ g.read_offset = o + 2
  /\ g.pos = [h.pos EXCEPT ![t] = [seqno |-> f, offset |-> o]]

PopSkipped(h, f, o, g, gs, x) ==
  /\ o < Len(files[f]) /\ ~(o + 2 <= Len(files[f]) /\ files[f][o + 1].part = "head")
  /\ f < h.write_seqno /\ x = <<>>
  /\ gs = without(files, deleted(h.read_seqno, f + 1))
  /\ g.read_seqno = f + 1 /\ g.read_offset = 0 /\ g.pos = h.pos

PopCleared(h, f, o, g, gs, x) ==
  /\ o < Len(files[f]) /\ ~(o + 2 <= Len(files[f]) /\ files[f][o + 1].part = "head")
  /\ f = h.write_seqno /\ x = <<>>
  /\ gs = created(without(files, deleted(h.read_seqno, f)), f + 1)
  /\ g.read_seqno = f + 1 /\ g.read_offset = 0 /\ g.pos = h.pos
  /\ g.write_seqno = f + 1 /\ g.write_filesize = 0

PopResult(t, h, f, o, g, gs, x) ==
  /\ g \in Headers /\ g.exit_status = h.exit_status
  /\ f \in DOMAIN files /\ h.read_seqno <= f /\ f <= h.write_seqno
  /\ o = IF f = h.read_seqno THEN h.read_offset ELSE 0
  /\ \A y \in Nat : h.read_seqno <= y /\ y < f => unreadIn(h, y) = <<>>
  /\ \/ /\ PopEnded(h, f, o, g, gs, x) \/ PopTaken(t, h, f, o, g, gs, x)
           \/ PopSkipped(h, f, o, g, gs, x)
        /\ g.write_seqno = h.write_seqno /\ g.write_filesize = h.write_filesize
     \/ PopCleared(h, f, o, g, gs, x)

LEMMA PopResults ==
  ASSUME FilesOK(files), NEW h \in Headers, Chained(files, h), h.read_seqno \in DOMAIN files,
         NEW t \in Threads, NEW r, r = popped(t, h)
  PROVE  \E f, o \in Nat : PopResult(t, h, f, o, r[1], r[2], r[3])
<1> DEFINE f == reached(h)
           o == IF f = h.read_seqno THEN h.read_offset ELSE 0
           g == atFile(h, f)
           s == files[f]
           u == unreadIn(g, f)
           fs == without(files, deleted(h.read_seqno, f))
<1>1. /\ f \in Nat /\ h.read_seqno <= f /\ f <= h.write_seqno
      /\ f = h.write_seqno \/ unreadIn(h, f) # <<>>
      /\ \A x \in Nat : h.read_seqno <= x /\ x < f => unreadIn(h, x) = <<>>
  BY ReachedFile
<1> HIDE DEF f
<1>2. h.read_seqno \in Nat /\ h.read_offset \in Nat /\ h.write_seqno \in Nat
  BY DEF Headers
<1>3. o \in Nat
  BY <1>2
<1>4. f \in DOMAIN files
  BY <1>1, <1>2 DEF Chained
<1>5. s \in Seq(Units) /\ Len(s) \in Nat
  BY <1>4, LenProperties DEF FilesOK
<1>6. g = [h EXCEPT !.read_seqno = f, !.read_offset = o]
  BY DEF atFile
<1>7. f \in Nat \ {0}
  BY <1>1, <1>2 DEF Headers
<1> HIDE DEF o
<1>8. /\ g \in Headers /\ g.read_seqno = f /\ g.read_offset = o /\ g.write_seqno = h.write_seqno
      /\ g.write_filesize = h.write_filesize /\ g.pos = h.pos /\ g.exit_status = h.exit_status
  BY <1>3, <1>6, <1>7 DEF Headers
<1> HIDE DEF g
<1>9. u = SubSeq(s, o + 1, Len(s))
  BY <1>8 DEF unreadIn
<1>10. o < Len(s) => /\ Len(u) = Len(s) - o /\ u[1] = s[o + 1]
                     /\ Len(u) >= 2 => u[2] = s[o + 2]
  <2> SUFFICES ASSUME o < Len(s)
               PROVE  /\ Len(u) = Len(s) - o /\ u[1] = s[o + 1]
                      /\ Len(u) >= 2 => u[2] = s[o + 2]
    OBVIOUS
  <2>1. \A k \in (o + 1)..Len(s) : s[k] \in Units
    BY <1>3, <1>5
  <2>2. /\ Len(u) = Len(s) - (o + 1) + 1
        /\ \A k \in 1..(Len(s) - (o + 1) + 1) : u[k] = s[o + 1 + k - 1]
    BY <1>3, <1>5, <1>9, <2>1, SubSeqProperties
  <2>3. u[1] = s[o + 1 + 1 - 1]
    BY <1>3, <1>5, <2>2
  <2>4. Len(u) >= 2 => u[2] = s[o + 1 + 2 - 1]
    BY <1>3, <1>5, <2>2
  <2> HIDE DEF u, s
  <2> QED BY <1>3, <1>5, <2>2, <2>3, <2>4
<1>11. Len(s) <= o => u = <<>>
  BY <1>3, <1>5, <1>9
<1>12. o < Len(s) => u # <<>>
  BY <1>3, <1>5, <1>10
<1> HIDE DEF u, s
<1>13. Len(s) <= o => f = h.write_seqno
  <2>1. CASE f = h.write_seqno
    BY <2>1
  <2>2. CASE f # h.write_seqno
    <3>1. unreadIn(h, f) # <<>>
      BY <1>1, <2>2
    <3>2. unreadIn(h, f) = u
      <4>1. f = h.read_seqno => unreadIn(h, f) = SubSeq(s, o + 1, Len(s))
        BY DEF unreadIn, s, o
      <4>2. f # h.read_seqno => unreadIn(h, f) = s /\ o = 0
        BY DEF unreadIn, s, o
      <4>3. SubSeq(s, 0 + 1, Len(s)) = s
        BY <1>5, SubSeqFull
      <4> QED BY <1>9, <4>1, <4>2, <4>3
    <3> QED BY <1>11, <3>1, <3>2
  <2> QED BY <2>1, <2>2
<1>14. readable(u) <=> o + 2 <= Len(s) /\ s[o + 1].part = "head"
  BY <1>3, <1>5, <1>10, <1>11 DEF readable

<1>15. /\ FilesOK(fs) /\ f \in DOMAIN fs
  <2>1. f \in Nat /\ h.read_seqno \in Nat /\ ~(f + 1 < f)
    BY <1>7, <1>2
  <2> QED BY <1>4, <2>1, WithoutFiles
<1>16. r = IF u = <<>>
             THEN <<ended(g), fs, <<>> >>
           ELSE IF readable(u)
             THEN <<[g EXCEPT !.pos[t] = [seqno |-> f, offset |-> g.read_offset],
                              !.read_offset = @ + 2],
                    fs, <<u[1].item, payload(u[2])>> >>
           ELSE IF f < g.write_seqno
             THEN <<atFile(g, f + 1), without(files, deleted(h.read_seqno, f + 1)), <<>> >>
           ELSE <<clear(g), created(fs, g.write_seqno + 1), <<>> >>
  BY DEF popped, u, g, f
<1> HIDE DEF fs
<1> DEFINE A == r[1]
<1>17. o = IF f = h.read_seqno THEN h.read_offset ELSE 0
  BY DEF o
<1>18. /\ A \in Headers /\ A.exit_status = h.exit_status
       /\ \/ /\ PopEnded(h, f, o, A, r[2], r[3]) \/ PopTaken(t, h, f, o, A, r[2], r[3])
                \/ PopSkipped(h, f, o, A, r[2], r[3])
             /\ A.write_seqno = h.write_seqno /\ A.write_filesize = h.write_filesize
          \/ PopCleared(h, f, o, A, r[2], r[3])
  <2>1. CASE u = <<>>
    <3>1. r = <<ended(g), fs, <<>> >>
      BY <1>16, <2>1
    <3>2. A = [g EXCEPT !.queued = FALSE] /\ r[2] = fs /\ r[3] = <<>>
      BY <3>1 DEF ended
    <3>3. /\ A \in Headers /\ A.exit_status = h.exit_status /\ A.read_seqno = f
          /\ A.read_offset = o /\ A.pos = h.pos /\ A.write_seqno = h.write_seqno
          /\ A.write_filesize = h.write_filesize
      BY <1>8, <3>2 DEF Headers
    <3>4. Len(s) <= o
      BY <1>3, <1>5, <1>12, <2>1
    <3>5. f = h.write_seqno
      BY <1>13, <3>4
    <3>6. PopEnded(h, f, o, A, r[2], r[3])
      BY <3>2, <3>3, <3>4, <3>5 DEF PopEnded, fs, s
    <3> QED BY <3>3, <3>6
  <2>2. CASE u # <<>> /\ readable(u)
    <3> DEFINE p == [seqno |-> f, offset |-> o]
    <3>1. r = <<[g EXCEPT !.pos[t] = [seqno |-> f, offset |-> g.read_offset],
                          !.read_offset = @ + 2],
                fs, <<u[1].item, payload(u[2])>> >>
      BY <1>16, <2>2
    <3>2. /\ A = [g EXCEPT !.pos = [g.pos EXCEPT ![t] = p], !.read_offset = g.read_offset + 2]
          /\ r[2] = fs /\ r[3] = <<u[1].item, payload(u[2])>>
      BY <1>8, <3>1 DEF Headers
    <3>3. [g.pos EXCEPT ![t] = p] \in [Threads -> [seqno : Nat, offset : Nat]]
      BY <1>3, <1>7, <1>8 DEF Headers
    <3>4. /\ A \in Headers /\ A.exit_status = h.exit_status /\ A.read_seqno = f
          /\ A.read_offset = o + 2 /\ A.pos = [h.pos EXCEPT ![t] = p]
          /\ A.write_seqno = h.write_seqno /\ A.write_filesize = h.write_filesize
      <4> DEFINE n == o + 2
                 q == [g.pos EXCEPT ![t] = p]
      <4>1. n \in Nat
        BY <1>3
      <4>2. A = [g EXCEPT !.pos = q, !.read_offset = n]
        BY <1>8, <3>2
      <4>3. q = [h.pos EXCEPT ![t] = p] /\ q \in [Threads -> [seqno : Nat, offset : Nat]]
        BY <1>8, <3>3
      <4> HIDE DEF n, q, A
      <4>4. /\ A \in Headers /\ A.exit_status = g.exit_status /\ A.read_seqno = g.read_seqno
            /\ A.read_offset = n /\ A.pos = q /\ A.write_seqno = g.write_seqno
            /\ A.write_filesize = g.write_filesize
        BY <1>8, <4>1, <4>2, <4>3 DEF Headers
      <4>5. /\ A \in Headers /\ A.exit_status = h.exit_status /\ A.read_seqno = f
            /\ A.pos = [h.pos EXCEPT ![t] = p]
            /\ A.write_seqno = h.write_seqno /\ A.write_filesize = h.write_filesize
        BY <1>8, <4>3, <4>4
      <4>6. A.read_offset = o + 2
        BY <4>4 DEF n
      <4> QED BY <4>5, <4>6
    <3>5. o + 2 <= Len(s) /\ s[o + 1].part = "head"
      BY <1>14, <2>2
    <3>6. u[1] = s[o + 1] /\ u[2] = s[o + 2]
      BY <1>3, <1>5, <1>10, <3>5
    <3>7. PopTaken(t, h, f, o, A, r[2], r[3])
      BY <3>2, <3>4, <3>5, <3>6 DEF PopTaken, fs, s
    <3> QED BY <3>4, <3>7
  <2>3. CASE u # <<>> /\ ~readable(u)
    <3>1. o < Len(s) /\ ~(o + 2 <= Len(s) /\ s[o + 1].part = "head")
      BY <1>3, <1>5, <1>11, <1>14, <2>3
    <3>2. CASE f < h.write_seqno
      <4>1. r = <<atFile(g, f + 1), without(files, deleted(h.read_seqno, f + 1)), <<>> >>
        BY <1>8, <1>16, <2>3, <3>2
      <4>2. A = [g EXCEPT !.read_seqno = f + 1, !.read_offset = 0]
        <5>1. f + 1 # g.read_seqno
          BY <1>7, <1>8
        <5>2. atFile(g, f + 1) = [g EXCEPT !.read_seqno = f + 1, !.read_offset = 0]
          BY <5>1 DEF atFile
        <5> QED BY <4>1, <5>2
      <4>3. r[2] = without(files, deleted(h.read_seqno, f + 1)) /\ r[3] = <<>>
        BY <4>1
      <4>4. f + 1 \in Nat \ {0}
        BY <1>7
      <4>5. /\ A \in Headers /\ A.exit_status = h.exit_status /\ A.read_seqno = f + 1
            /\ A.read_offset = 0 /\ A.pos = h.pos
            /\ A.write_seqno = h.write_seqno /\ A.write_filesize = h.write_filesize
        <5> HIDE DEF A
        <5> DEFINE n == f + 1
        <5> HIDE DEF n
        <5>1. n \in Nat \ {0} /\ A = [g EXCEPT !.read_seqno = n, !.read_offset = 0]
          BY <4>2, <4>4 DEF n
        <5>2. /\ A \in Headers /\ A.exit_status = g.exit_status /\ A.read_seqno = n
              /\ A.read_offset = 0 /\ A.pos = g.pos
              /\ A.write_seqno = g.write_seqno /\ A.write_filesize = g.write_filesize
          BY <1>8, <5>1 DEF Headers
        <5> QED BY <1>8, <5>2 DEF n
      <4>6. PopSkipped(h, f, o, A, r[2], r[3])
        BY <3>1, <3>2, <4>3, <4>5 DEF PopSkipped, s
      <4> QED BY <4>5, <4>6
    <3>3. CASE ~(f < h.write_seqno)
      <4>1. f = h.write_seqno
        BY <1>1, <1>2, <3>3
      <4>2. r = <<clear(g), created(fs, g.write_seqno + 1), <<>> >>
        BY <1>8, <1>16, <2>3, <3>3
      <4>3. A = [g EXCEPT !.write_seqno = f + 1, !.read_seqno = f + 1, !.read_offset = 0,
                          !.write_filesize = 0, !.queued = FALSE]
        BY <1>8, <4>1, <4>2 DEF clear
      <4>4. r[2] = created(fs, f + 1) /\ r[3] = <<>>
        BY <1>8, <4>1, <4>2
      <4>5. f + 1 \in Nat \ {0}
        BY <1>7
      <4>6. /\ A \in Headers /\ A.exit_status = h.exit_status /\ A.read_seqno = f + 1
            /\ A.read_offset = 0 /\ A.pos = h.pos
            /\ A.write_seqno = f + 1 /\ A.write_filesize = 0
        <5> HIDE DEF A
        <5> DEFINE n == f + 1
        <5> HIDE DEF n
        <5>1. /\ n \in Nat \ {0}
              /\ A = [g EXCEPT !.write_seqno = n, !.read_seqno = n, !.read_offset = 0,
                               !.write_filesize = 0, !.queued = FALSE]
          BY <4>3, <4>5 DEF n
        <5>2. /\ A \in Headers /\ A.exit_status = g.exit_status /\ A.read_seqno = n
              /\ A.read_offset = 0 /\ A.pos = g.pos
              /\ A.write_seqno = n /\ A.write_filesize = 0
          BY <1>8, <5>1 DEF Headers
        <5> QED BY <1>8, <5>2 DEF n
      <4>7. PopCleared(h, f, o, A, r[2], r[3])
        BY <3>1, <4>1, <4>4, <4>6 DEF PopCleared, fs, s
      <4> QED BY <4>6, <4>7
    <3> QED BY <3>2, <3>3
  <2> QED BY <2>1, <2>2, <2>3
<1>19. PopResult(t, h, f, o, r[1], r[2], r[3])
  BY <1>1, <1>4, <1>17, <1>18 DEF PopResult
<1> QED BY <1>3, <1>7, <1>19

\* What pop does to the files: those before the one ahead of file n go, from the
\* one before the reader's on.
Advanced(h, g, gs, n) ==
  /\ h.read_seqno <= n /\ n <= g.read_seqno /\ n <= h.write_seqno
  /\ g.read_seqno <= g.write_seqno
  /\ g.write_seqno = h.write_seqno \/
       (g.write_seqno = h.write_seqno + 1 /\ g.write_seqno \in DOMAIN gs)
  /\ \A y \in DOMAIN files : y \in DOMAIN gs <=> ~(h.read_seqno <= y + 1 /\ y + 1 < n)
  /\ \A y \in DOMAIN gs \ DOMAIN files :
       y = h.write_seqno + 1 /\ g.write_seqno = y /\ gs[y] = <<>>
  /\ \A y \in DOMAIN gs \cap DOMAIN files : gs[y] = files[y]

LEMMA PopFiles ==
  ASSUME FilesOK(files), NEW h \in Headers, NEW t \in Threads, NEW f \in Nat, NEW o \in Nat,
         NEW g, NEW gs, NEW x, PopResult(t, h, f, o, g, gs, x)
  PROVE  /\ FilesOK(gs)
         /\ \E n \in Nat : Advanced(h, g, gs, n) /\ (n = f \/ PopSkipped(h, f, o, g, gs, x))
<1>1. /\ g \in Headers /\ f \in DOMAIN files /\ h.read_seqno <= f /\ f <= h.write_seqno
  BY DEF PopResult
<1>2. h.read_seqno \in Nat /\ h.write_seqno \in Nat /\ g.read_seqno \in Nat /\ g.write_seqno \in Nat
  BY <1>1 DEF Headers
<1>3. CASE PopEnded(h, f, o, g, gs, x) \/ PopTaken(t, h, f, o, g, gs, x)
  <2>1. gs = without(files, deleted(h.read_seqno, f)) /\ g.read_seqno = f
    BY <1>3 DEF PopEnded, PopTaken
  <2>2. g.write_seqno = h.write_seqno
    <3>1. CASE PopCleared(h, f, o, g, gs, x)
      BY <1>2, <2>1, <3>1 DEF PopCleared
    <3> QED BY <3>1 DEF PopResult
  <2>3. /\ FilesOK(gs) /\ DOMAIN gs \subseteq DOMAIN files
        /\ \A y \in DOMAIN files : y \in DOMAIN gs <=> ~(h.read_seqno <= y + 1 /\ y + 1 < f)
        /\ \A y \in DOMAIN gs : gs[y] = files[y]
    <3> DEFINE ws == without(files, deleted(h.read_seqno, f))
    <3>1. /\ FilesOK(ws) /\ DOMAIN ws \subseteq DOMAIN files
          /\ \A y \in DOMAIN files : y \in DOMAIN ws <=> ~(h.read_seqno <= y + 1 /\ y + 1 < f)
          /\ \A y \in DOMAIN ws : ws[y] = files[y]
      BY <1>2, WithoutFiles
    <3> HIDE DEF ws
    <3>2. gs = ws
      BY <2>1 DEF ws
    <3> QED BY <3>1, <3>2
  <2>4. Advanced(h, g, gs, f)
    BY <1>1, <1>2, <2>1, <2>2, <2>3 DEF Advanced
  <2> QED BY <2>3, <2>4
<1>4. CASE PopSkipped(h, f, o, g, gs, x)
  <2>1. /\ gs = without(files, deleted(h.read_seqno, f + 1)) /\ g.read_seqno = f + 1
        /\ f < h.write_seqno
    BY <1>4 DEF PopSkipped
  <2>2. g.write_seqno = h.write_seqno
    <3>1. CASE PopCleared(h, f, o, g, gs, x)
      BY <1>2, <2>1, <3>1 DEF PopCleared
    <3> QED BY <3>1 DEF PopResult
  <2>3. /\ FilesOK(gs) /\ DOMAIN gs \subseteq DOMAIN files
        /\ \A y \in DOMAIN files : y \in DOMAIN gs <=> ~(h.read_seqno <= y + 1 /\ y + 1 < f + 1)
        /\ \A y \in DOMAIN gs : gs[y] = files[y]
    <3> DEFINE m == f + 1
               ws == without(files, deleted(h.read_seqno, m))
    <3>1. m \in Nat
      OBVIOUS
    <3> HIDE DEF m
    <3>2. /\ FilesOK(ws) /\ DOMAIN ws \subseteq DOMAIN files
          /\ \A y \in DOMAIN files : y \in DOMAIN ws <=> ~(h.read_seqno <= y + 1 /\ y + 1 < m)
          /\ \A y \in DOMAIN ws : ws[y] = files[y]
      BY <1>2, <3>1, WithoutFiles
    <3> HIDE DEF ws
    <3>3. gs = ws /\ m = f + 1
      BY <2>1 DEF ws, m
    <3> QED BY <3>2, <3>3
  <2>4. Advanced(h, g, gs, f + 1)
    BY <1>1, <1>2, <2>1, <2>2, <2>3 DEF Advanced
  <2> QED BY <1>4, <2>3, <2>4
<1>5. CASE PopCleared(h, f, o, g, gs, x)
  <2> DEFINE ws == without(files, deleted(h.read_seqno, f))
  <2>1. /\ gs = created(ws, f + 1) /\ g.read_seqno = f + 1 /\ g.write_seqno = f + 1
        /\ f = h.write_seqno
    BY <1>5 DEF PopCleared
  <2>2. /\ FilesOK(ws) /\ DOMAIN ws \subseteq DOMAIN files
        /\ \A y \in DOMAIN files : y \in DOMAIN ws <=> ~(h.read_seqno <= y + 1 /\ y + 1 < f)
        /\ \A y \in DOMAIN ws : ws[y] = files[y]
    BY <1>2, WithoutFiles
  <2> HIDE DEF ws
  <2>3. /\ FilesOK(gs) /\ DOMAIN gs = DOMAIN ws \cup {f + 1}
        /\ \A y \in DOMAIN ws : gs[y] = ws[y]
        /\ f + 1 \notin DOMAIN ws => gs[f + 1] = <<>>
    <3> DEFINE m == f + 1
               cs == created(ws, m)
    <3>1. m \in Nat
      OBVIOUS
    <3> HIDE DEF m
    <3>2. /\ FilesOK(cs) /\ DOMAIN cs = DOMAIN ws \cup {m}
          /\ \A y \in DOMAIN ws : cs[y] = ws[y]
          /\ m \notin DOMAIN ws => cs[m] = <<>>
      BY <2>2, <3>1, CreatedFile
    <3> HIDE DEF cs
    <3>3. gs = cs /\ m = f + 1
      BY <2>1 DEF cs, m
    <3> QED BY <3>2, <3>3
  <2>4. \A y \in DOMAIN files : y \in Nat
    BY DEF FilesOK
  <2>5. \A y \in DOMAIN files : y \in DOMAIN gs <=> ~(h.read_seqno <= y + 1 /\ y + 1 < f)
    <3> SUFFICES ASSUME NEW y \in DOMAIN files
                 PROVE  y \in DOMAIN gs <=> ~(h.read_seqno <= y + 1 /\ y + 1 < f)
      OBVIOUS
    <3>1. CASE y = f + 1
      BY <2>3, <2>4, <3>1
    <3>2. CASE y # f + 1
      BY <2>2, <2>3, <3>2
    <3> QED BY <3>1, <3>2
  <2>6. \A y \in DOMAIN gs \ DOMAIN files : y = f + 1 /\ gs[y] = <<>>
    BY <2>2, <2>3
  <2>7. \A y \in DOMAIN gs \cap DOMAIN files : gs[y] = files[y]
    <3> SUFFICES ASSUME NEW y \in DOMAIN gs \cap DOMAIN files PROVE gs[y] = files[y]
      OBVIOUS
    <3>1. ~(h.read_seqno <= y + 1 /\ y + 1 < f)
      BY <2>5
    <3>2. y \in DOMAIN ws
      BY <2>2, <3>1
    <3> QED BY <2>2, <2>3, <3>2
  <2>8. Advanced(h, g, gs, f)
    BY <1>1, <1>2, <2>1, <2>3, <2>5, <2>6, <2>7 DEF Advanced
  <2> QED BY <2>3, <2>8
<1> QED BY <1>3, <1>4, <1>5 DEF PopResult

LEMMA AdvancedLinks ==
  ASSUME FilesOK(files), NEW h \in Headers, NEW g \in Headers, NEW gs, FilesOK(gs),
         Chained(files, h), h.read_seqno \in DOMAIN files, NEW n \in Nat, Advanced(h, g, gs, n)
  PROVE  /\ Keeps(files, gs) /\ g.write_seqno \in DOMAIN gs /\ h.write_seqno \in DOMAIN gs
         /\ Chained(gs, g) /\ Chained(gs, h)
         /\ h.read_seqno <= g.read_seqno
         /\ \A y \in DOMAIN gs \ DOMAIN files : y > h.write_seqno
<1>1. /\ h.read_seqno \in Nat /\ h.write_seqno \in Nat /\ g.read_seqno \in Nat
      /\ g.write_seqno \in Nat /\ h.read_seqno <= h.write_seqno
  BY DEF Headers, Chained
<1>2. \A y \in Nat : h.read_seqno <= y /\ y <= h.write_seqno => y \in DOMAIN files
  BY DEF Chained
<1>3. \A y \in DOMAIN gs \cap DOMAIN files : gs[y] = files[y] /\ Len(files[y]) \in Nat
  BY LenProperties DEF Advanced, FilesOK
<1>4. Keeps(files, gs)
  BY <1>3 DEF Keeps
<1>5. \A y \in DOMAIN gs \ DOMAIN files : y > h.write_seqno
  BY <1>1 DEF Advanced
<1>6. \A y \in Nat : n <= y + 1 /\ h.read_seqno <= y /\ y <= h.write_seqno => y \in DOMAIN gs
  BY <1>1, <1>2 DEF Advanced
<1>7. h.write_seqno \in DOMAIN gs
  BY <1>1, <1>6 DEF Advanced
<1>8. g.write_seqno \in DOMAIN gs
  BY <1>7 DEF Advanced
<1>9. Chained(gs, g)
  <2>1. ASSUME NEW y \in Nat, g.read_seqno <= y, y <= g.write_seqno PROVE y \in DOMAIN gs
    <3>1. CASE y <= h.write_seqno
      BY <1>1, <1>6, <2>1, <3>1 DEF Advanced
    <3>2. CASE ~(y <= h.write_seqno)
      <4>1. y = g.write_seqno
        BY <1>1, <2>1, <3>2 DEF Advanced
      <4> QED BY <1>8, <4>1
    <3> QED BY <3>1, <3>2
  <2> QED BY <2>1 DEF Chained, Advanced
<1>10. Chained(gs, h)
  <2>1. ASSUME h.read_seqno \in DOMAIN gs, NEW y \in Nat, h.read_seqno <= y, y <= h.write_seqno
        PROVE  y \in DOMAIN gs
    <3>1. y \in DOMAIN files
      BY <1>2, <2>1
    <3>2. ~(h.read_seqno <= h.read_seqno + 1 /\ h.read_seqno + 1 < n)
      BY <2>1 DEF Advanced
    <3>3. ~(y + 1 < n)
      BY <1>1, <2>1, <3>2
    <3> QED BY <3>1, <3>3 DEF Advanced
  <2> QED BY <1>1, <2>1 DEF Chained
<1>11. h.read_seqno <= g.read_seqno
  BY <1>1 DEF Advanced
<1> QED BY <1>4, <1>5, <1>7, <1>8, <1>9, <1>10, <1>11

\* The header as a thread finds it, its own entry of pos cleared when it comes from
\* the handler.
Found(t) == IF pc[t] = "finish" THEN finish(mem, t) ELSE mem

LEMMA FoundHeader ==
  ASSUME Frame, NEW t \in Threads
  PROVE  /\ Found(t) \in Headers
         /\ Found(t).read_seqno = mem.read_seqno /\ Found(t).read_offset = mem.read_offset
         /\ Found(t).write_seqno = mem.write_seqno
         /\ Found(t).write_filesize = mem.write_filesize
         /\ Found(t).exit_status = mem.exit_status
         /\ \A s \in Threads : Found(t).pos[s] = IF s = t /\ pc[t] = "finish" THEN NoPos
                                                                            ELSE mem.pos[s]
         /\ Chained(files, Found(t)) /\ Named(files, Found(t))
<1>1. mem \in Headers /\ Chained(files, mem) /\ Named(files, mem)
  BY DEF Frame, HeaderTypes, Linked
<1>2. CASE pc[t] = "finish"
  <2> DEFINE q == [mem.pos EXCEPT ![t] = NoPos]
  <2>1. Found(t) = [mem EXCEPT !.pos = q]
    BY <1>1, <1>2 DEF Found, finish, Headers
  <2>2. mem.pos \in [Threads -> [seqno : Nat, offset : Nat]]
    BY <1>1 DEF Headers
  <2>3. q \in [Threads -> [seqno : Nat, offset : Nat]]
    BY <2>2 DEF NoPos
  <2>4. \A s \in Threads : q[s] = IF s = t THEN NoPos ELSE mem.pos[s]
    BY <2>2
  <2> HIDE DEF q
  <2>5. /\ Found(t) \in Headers
        /\ Found(t).read_seqno = mem.read_seqno /\ Found(t).read_offset = mem.read_offset
        /\ Found(t).write_seqno = mem.write_seqno
        /\ Found(t).write_filesize = mem.write_filesize
        /\ Found(t).exit_status = mem.exit_status /\ Found(t).pos = q
    BY <1>1, <2>1, <2>3 DEF Headers
  <2>6. Chained(files, Found(t))
    BY <1>1, <2>5 DEF Chained
  <2>7. Named(files, Found(t))
    <3>1. ASSUME NEW s \in Threads PROVE Names(files, q[s], mem.read_seqno)
      <4>1. Names(files, NoPos, mem.read_seqno)
        BY DEF Names, NoPos
      <4>2. Names(files, mem.pos[s], mem.read_seqno)
        BY <1>1 DEF Named
      <4> QED BY <2>4, <4>1, <4>2
    <3> QED BY <2>5, <3>1 DEF Named
  <2> QED BY <1>2, <2>4, <2>5, <2>6, <2>7
<1>3. CASE pc[t] # "finish"
  BY <1>1, <1>3 DEF Found
<1> QED BY <1>2, <1>3

RunStays(t) ==
  /\ mem' = Found(t) /\ files' = files /\ inside' = inside
  /\ hand' = [hand EXCEPT ![t] = <<>>]
  /\ \E label \in {"start", "asleep", "done"} : pc' = [pc EXCEPT ![t] = label]

RunPops(t, f, o, x) ==
  /\ mem.read_seqno \in DOMAIN files /\ ~stop
  /\ PopResult(t, Found(t), f, o, mem', files', x)
  /\ inside' = t /\ pc' = [pc EXCEPT ![t] = "save"] /\ hand' = [hand EXCEPT ![t] = x]

LEMMA RunCases ==
  ASSUME Frame, NEW t \in Threads, runLocked(t)
  PROVE  /\ inside = "none" /\ pc[t] \in {"start", "woken", "finish"}
         /\ proc' = proc /\ disk' = disk /\ stop' = stop /\ toRecover' = toRecover
         /\ pushed' = pushed /\ crashes' = crashes /\ stops' = stops /\ faults' = faults
         /\ accepted' = accepted /\ handled' = handled /\ torn' = torn /\ knownLost' = knownLost
         /\ RunStays(t) \/ \E f, o \in Nat : \E x : RunPops(t, f, o, x)
<1> DEFINE h == Found(t)
           r == popped(t, h)
<1>1. /\ inside = "none" /\ pc[t] \in {"start", "woken", "finish"}
      /\ proc' = proc /\ disk' = disk /\ stop' = stop /\ toRecover' = toRecover
      /\ pushed' = pushed /\ crashes' = crashes /\ stops' = stops /\ faults' = faults
      /\ accepted' = accepted /\ handled' = handled /\ torn' = torn /\ knownLost' = knownLost
  BY DEF runLocked, bounds, history
<1>2. stop \in BOOLEAN /\ FilesOK(files)
  BY DEF Frame, OtherTypes
<1>3. h \in Headers /\ h.read_seqno = mem.read_seqno /\ Chained(files, h)
  BY FoundHeader
<1>4. \/ RunStays(t)
      \/ /\ ~stop /\ h.read_seqno \in DOMAIN files
         /\ mem' = r[1] /\ files' = r[2] /\ hand' = [hand EXCEPT ![t] = r[3]]
         /\ pc' = [pc EXCEPT ![t] = "save"] /\ inside' = t
  BY <1>2, <1>3, Zenon DEF runLocked, Found, RunStays, Headers
<1>5. CASE RunStays(t)
  BY <1>1, <1>5
<1>6. CASE /\ ~stop /\ h.read_seqno \in DOMAIN files
           /\ mem' = r[1] /\ files' = r[2] /\ hand' = [hand EXCEPT ![t] = r[3]]
           /\ pc' = [pc EXCEPT ![t] = "save"] /\ inside' = t
  <2> HIDE DEF h
  <2>1. PICK f, o \in Nat : PopResult(t, h, f, o, r[1], r[2], r[3])
    BY <1>2, <1>3, <1>6, PopResults
  <2> HIDE DEF r
  <2>2. PopResult(t, h, f, o, mem', files', r[3])
    BY <1>6, <2>1
  <2>3. RunPops(t, f, o, r[3])
    BY <1>3, <1>6, <2>2 DEF RunPops, h
  <2> QED BY <1>1, <2>3
<1> QED BY <1>4, <1>5, <1>6

LEMMA RunStaysFrame ==
  ASSUME Frame, NEW t \in Threads, runLocked(t), RunStays(t)
  PROVE  Frame'
<1> DEFINE h == Found(t)
<1>1. /\ inside = "none" /\ pc[t] \in {"start", "woken", "finish"}
      /\ proc' = proc /\ disk' = disk /\ stop' = stop /\ toRecover' = toRecover
      /\ pushed' = pushed /\ crashes' = crashes /\ stops' = stops /\ faults' = faults
      /\ accepted' = accepted /\ handled' = handled /\ torn' = torn /\ knownLost' = knownLost
  BY RunCases
<1>2. /\ ThreadTypes /\ OtherTypes /\ InStep /\ (\A s \in Threads : ThreadInStep(s)) /\ Linked
      /\ mem \in Headers /\ disk \in Headers /\ FilesOK(files)
  BY DEF Frame, HeaderTypes
<1>3. /\ h \in Headers /\ h.read_seqno = mem.read_seqno /\ h.read_offset = mem.read_offset
      /\ h.write_seqno = mem.write_seqno /\ Chained(files, h) /\ Named(files, h)
  BY FoundHeader
<1> HIDE DEF h
<1>4. mem' = h /\ files' = files /\ inside' = inside /\ hand' = [hand EXCEPT ![t] = <<>>]
  BY DEF RunStays, h
<1>5. PICK label \in {"start", "asleep", "done"} : pc' = [pc EXCEPT ![t] = label]
  BY DEF RunStays
<1>6. proc = "up"
  BY <1>1, <1>2 DEF InStep, OtherTypes
<1>7. pc \in [Threads -> Pcs] /\ hand \in [Threads -> {<<>>} \cup Items \X Payloads]
  BY <1>2 DEF ThreadTypes
<1>8. /\ pc' \in [Threads -> Pcs] /\ pc'[t] = label /\ \A s \in Threads \ {t} : pc'[s] = pc[s]
  BY <1>5, <1>7 DEF Pcs
<1>9. /\ hand' \in [Threads -> {<<>>} \cup Items \X Payloads] /\ hand'[t] = <<>>
      /\ \A s \in Threads \ {t} : hand'[s] = hand[s]
  BY <1>4, <1>7
<1>10. \A s \in Threads : pc'[s] = "handle" => hand'[s] # <<>>
  BY <1>2, <1>8, <1>9 DEF ThreadTypes
<1>11. ThreadTypes'
  BY <1>2, <1>4, <1>8, <1>9, <1>10 DEF ThreadTypes
<1>12. HeaderTypes'
  BY <1>1, <1>2, <1>3, <1>4 DEF HeaderTypes
<1>13. OtherTypes'
  BY <1>1, <1>2 DEF OtherTypes
<1>14. InStep'
  BY <1>1, <1>4, <1>6 DEF InStep
<1>15. ASSUME NEW s \in Threads PROVE ThreadInStep(s)'
  BY <1>1, <1>2, <1>4, <1>8, <1>9, NotAThread DEF ThreadInStep
<1>16. Linked'
  BY <1>1, <1>2, <1>3, <1>4, <1>6 DEF Linked, SamePlace, Unopened
<1> QED BY <1>2, <1>4, <1>11, <1>12, <1>13, <1>14, <1>15, <1>16 DEF Frame

LEMMA RunPopsFrame ==
  ASSUME Frame, NEW t \in Threads, runLocked(t), NEW f \in Nat, NEW o \in Nat, NEW x,
         RunPops(t, f, o, x)
  PROVE  Frame'
<1> DEFINE h == Found(t)
<1>1. /\ inside = "none" /\ pc[t] \in {"start", "woken", "finish"}
      /\ proc' = proc /\ disk' = disk /\ stop' = stop /\ toRecover' = toRecover
      /\ pushed' = pushed /\ crashes' = crashes /\ stops' = stops /\ faults' = faults
      /\ accepted' = accepted /\ handled' = handled /\ torn' = torn /\ knownLost' = knownLost
  BY RunCases
<1>2. /\ ThreadTypes /\ OtherTypes /\ InStep /\ (\A s \in Threads : ThreadInStep(s)) /\ Linked
      /\ mem \in Headers /\ disk \in Headers /\ FilesOK(files)
  BY DEF Frame, HeaderTypes
<1>3. /\ h \in Headers /\ h.read_seqno = mem.read_seqno /\ h.read_offset = mem.read_offset
      /\ h.write_seqno = mem.write_seqno /\ Chained(files, h) /\ Named(files, h)
  BY FoundHeader
<1> HIDE DEF h
<1>4. /\ h.read_seqno \in DOMAIN files /\ inside' = t
      /\ pc' = [pc EXCEPT ![t] = "save"] /\ hand' = [hand EXCEPT ![t] = x]
      /\ PopResult(t, h, f, o, mem', files', x)
  BY <1>3 DEF RunPops, h
<1>5. proc = "up"
  BY <1>1, <1>2 DEF InStep, OtherTypes
<1>6. PICK n \in Nat : Advanced(h, mem', files', n)
  BY <1>2, <1>3, <1>4, PopFiles
<1>7. FilesOK(files') /\ mem' \in Headers
  BY <1>2, <1>3, <1>4, PopFiles DEF PopResult
<1>8. /\ Keeps(files, files') /\ mem'.write_seqno \in DOMAIN files'
      /\ h.write_seqno \in DOMAIN files'
      /\ Chained(files', mem') /\ Chained(files', h) /\ h.read_seqno <= mem'.read_seqno
      /\ \A y \in DOMAIN files' \ DOMAIN files : y > h.write_seqno
  BY <1>2, <1>3, <1>4, <1>6, <1>7, AdvancedLinks
<1>9. x \in {<<>>} \cup Items \X Payloads
  <2>1. CASE PopTaken(t, h, f, o, mem', files', x)
    <3>1. files[f] \in Seq(Units) /\ Len(files[f]) \in Nat
      BY <1>2, <1>4, LenProperties DEF FilesOK, PopResult
    <3>2. o + 1 \in 1..Len(files[f]) /\ o + 2 \in 1..Len(files[f])
      BY <2>1, <3>1 DEF PopTaken
    <3>3. files[f][o + 1] \in Units /\ files[f][o + 2] \in Units
      BY <3>1, <3>2, ElementOfSeq
    <3>4. files[f][o + 1].item \in Items
      BY <2>1, <3>3 DEF Units, PopTaken
    <3>5. payload(files[f][o + 2]) \in Payloads
      BY <3>3, PayloadType
    <3> QED BY <2>1, <3>4, <3>5 DEF PopTaken
  <2>2. CASE ~PopTaken(t, h, f, o, mem', files', x)
    BY <1>4, <2>2 DEF PopResult, PopEnded, PopSkipped, PopCleared
  <2> QED BY <2>1, <2>2
<1>10. pc \in [Threads -> Pcs] /\ hand \in [Threads -> {<<>>} \cup Items \X Payloads]
  BY <1>2 DEF ThreadTypes
<1>11. /\ pc' \in [Threads -> Pcs] /\ pc'[t] = "save" /\ \A s \in Threads \ {t} : pc'[s] = pc[s]
  BY <1>4, <1>10 DEF Pcs
<1>12. /\ hand' \in [Threads -> {<<>>} \cup Items \X Payloads]
       /\ \A s \in Threads \ {t} : hand'[s] = hand[s]
  BY <1>4, <1>9, <1>10
<1>13. \A s \in Threads : pc'[s] = "handle" => hand'[s] # <<>>
  BY <1>2, <1>11, <1>12 DEF ThreadTypes
<1>14. ThreadTypes'
  BY <1>4, <1>11, <1>12, <1>13 DEF ThreadTypes
<1>15. HeaderTypes'
  BY <1>1, <1>2, <1>7 DEF HeaderTypes
<1>16. OtherTypes'
  BY <1>1, <1>2 DEF OtherTypes
<1>17. InStep'
  BY <1>1, <1>4, <1>5, NotAThread DEF InStep
<1>18. ASSUME NEW s \in Threads PROVE ThreadInStep(s)'
  BY <1>1, <1>2, <1>4, <1>11, <1>12, NotAThread DEF ThreadInStep
<1>19. SamePlace /\ disk.write_seqno \in DOMAIN files
  BY <1>1, <1>2, <1>5, NotAThread DEF Linked, Unopened
<1>20. /\ h.read_seqno \in Nat /\ h.write_seqno \in Nat /\ mem'.read_seqno \in Nat
       /\ h.read_seqno <= h.write_seqno
  BY <1>3, <1>7 DEF Headers, Chained
<1>21. \A y \in DOMAIN files' \ DOMAIN files : y > h.read_seqno
  BY <1>7, <1>8, <1>20 DEF FilesOK
<1>22. Named(files', disk)
  BY <1>2, <1>3, <1>7, <1>8, <1>19, <1>20, <1>21, StillNamed DEF Linked, SamePlace
<1>23. Chained(files', disk)
  BY <1>3, <1>8, <1>19 DEF SamePlace, Chained
<1>24. Named(files', mem')
  <2> SUFFICES ASSUME NEW s \in Threads
               PROVE  Names(files', mem'.pos[s], mem'.read_seqno)
    BY DEF Named
  <2>1. Names(files', h.pos[s], mem'.read_seqno)
    <3>1. h.pos[s] \in [seqno : Nat, offset : Nat]
      BY <1>3 DEF Headers
    <3>2. Names(files, h.pos[s], h.read_seqno)
      BY <1>3 DEF Named
    <3> QED BY <1>2, <1>7, <1>8, <1>20, <1>21, <3>1, <3>2, StillNames
  <2>2. CASE PopTaken(t, h, f, o, mem', files', x)
    <3>1. h.pos \in [Threads -> [seqno : Nat, offset : Nat]]
      BY <1>3 DEF Headers
    <3>2. mem'.pos = [h.pos EXCEPT ![t] = [seqno |-> f, offset |-> o]] /\ mem'.read_seqno = f
      BY <2>2 DEF PopTaken
    <3>3. CASE s # t
      BY <2>1, <3>1, <3>2, <3>3
    <3>4. CASE s = t
      <4>1. mem'.pos[s] = [seqno |-> f, offset |-> o]
        BY <3>1, <3>2, <3>4
      <4>2. f \in DOMAIN files
        BY <1>4 DEF PopResult
      <4>3. o + 2 <= Len(files[f]) /\ files[f][o + 1].part = "head"
        BY <2>2 DEF PopTaken
      <4>4. f \in DOMAIN files' => files'[f] = files[f]
        BY <1>6, <4>2 DEF Advanced
      <4> QED BY <3>2, <4>1, <4>3, <4>4 DEF Names
    <3> QED BY <3>3, <3>4
  <2>3. CASE ~PopTaken(t, h, f, o, mem', files', x)
    <3>1. mem'.pos = h.pos
      BY <1>4, <2>3 DEF PopResult, PopEnded, PopSkipped, PopCleared
    <3> QED BY <2>1, <3>1
  <2> QED BY <2>2, <2>3
<1>25. Linked'
  BY <1>1, <1>3, <1>4, <1>5, <1>8, <1>19, <1>22, <1>23, <1>24 DEF Linked, SamePlace
<1> QED BY <1>7, <1>14, <1>15, <1>16, <1>17, <1>18, <1>25 DEF Frame

LEMMA RunFrame == \A t \in Threads : Frame /\ runLocked(t) => Frame'
<1> SUFFICES ASSUME NEW t \in Threads, Frame, runLocked(t) PROVE Frame'
  OBVIOUS
<1>1. RunStays(t) \/ \E f, o \in Nat : \E x : RunPops(t, f, o, x)
  BY RunCases
<1> QED BY <1>1, RunStaysFrame, RunPopsFrame

LEMMA StutterFrame == Frame /\ UNCHANGED vars => Frame'
<1> SUFFICES ASSUME Frame, UNCHANGED vars PROVE Frame'
  OBVIOUS
<1>1. HeaderTypes' /\ FilesOK(files') /\ ThreadTypes' /\ OtherTypes'
  BY DEF Frame, HeaderTypes, FilesOK, ThreadTypes, OtherTypes, vars, threads, bounds, history
<1>2. InStep' /\ \A t \in Threads : ThreadInStep(t)'
  BY DEF Frame, InStep, ThreadInStep, vars, threads, bounds, history
<1>3. Linked'
  BY DEF Frame, Linked, SamePlace, Unopened, Chained, Named, Names, vars, threads, bounds, history
<1> QED BY <1>1, <1>2, <1>3 DEF Frame

LEMMA FrameKept == Frame /\ [Next]_vars => Frame'
<1> SUFFICES ASSUME Frame, [Next]_vars PROVE Frame'
  OBVIOUS
<1>1. CASE \E t \in Threads : recoverOne(t) \/ thread(t)
  BY <1>1, RecoverFrame, RunFrame, SaveFrame, HandleFrame DEF thread
<1>2. CASE Terminated \/ UNCHANGED vars
  BY <1>2, StutterFrame DEF Terminated
<1>3. CASE open \/ recoverRotate \/ recoverDone \/ destroy \/ crash \/ pushRotate \/ pushWrite
           \/ stopQueue
  BY <1>3, OpenFrame, RecoverRotateFrame, RecoverDoneFrame, DestroyFrame, CrashFrame, RotateFrame,
     WriteFrame, StopFrame
<1> QED BY <1>1, <1>2, <1>3 DEF Next

\* The values of the queue's variables are those its header, its files and its
\* threads can have.
THEOREM TypesKept == Spec => []TypeOK
<1>1. Spec => []Frame
  BY InitFrame, FrameKept, PTL DEF Spec
<1> QED BY <1>1, FrameTypes, PTL

-----------------------------------------------------------------------------
(* What is in the files was written, and what is taken from them was accepted *)

Tails(fs, S) ==
  \A f \in DOMAIN fs : \A k \in 1..Len(fs[f]) : fs[f][k].part = "tail" => fs[f][k].item \in S

Written ==
  /\ accepted \subseteq 1..pushed
  /\ inside = "writer" => pushed \notin accepted
  /\ Tails(files, accepted \cup {0})
  /\ \A t \in Threads : hand[t] # <<>> => hand[t][2] \in accepted \cup {0}
  /\ \A i \in Items : handled[i] > 0 => i \in accepted

LEMMA UnitsWritten ==
  ASSUME NEW i, NEW j, NEW outcome \in {"whole", "short", "none"}
  PROVE  /\ Len(units(i, j, outcome)) \in {0, 1, 2}
         /\ \A k \in 1..Len(units(i, j, outcome)) : units(i, j, outcome)[k].part = "tail" =>
              /\ k = 2 /\ outcome = "whole" /\ units(i, j, outcome)[k].item = j
              /\ units(i, j, outcome)[1].item = i
         /\ Len(units(i, j, outcome)) > 0 => units(i, j, outcome)[1].part = "head"
<1>1. CASE outcome = "whole"
  <2> DEFINE s == << [part |-> "head", item |-> i], [part |-> "tail", item |-> j] >>
  <2>1. units(i, j, outcome) = s
    BY <1>1 DEF units
  <2>2. Len(s) = 2 /\ s[1] = [part |-> "head", item |-> i] /\ s[2] = [part |-> "tail", item |-> j]
    OBVIOUS
  <2> HIDE DEF s
  <2>3. s[1].part = "head" /\ s[1].item = i /\ s[2].part = "tail" /\ s[2].item = j
    BY <2>2
  <2>4. \A k \in 1..2 : k = 1 \/ k = 2
    OBVIOUS
  <2> QED BY <1>1, <2>1, <2>2, <2>3, <2>4
<1>2. CASE outcome = "short"
  <2> DEFINE s == << [part |-> "head", item |-> i] >>
  <2>1. units(i, j, outcome) = s
    BY <1>2 DEF units
  <2>2. Len(s) = 1 /\ s[1] = [part |-> "head", item |-> i]
    OBVIOUS
  <2> HIDE DEF s
  <2>3. s[1].part = "head"
    BY <2>2
  <2>4. \A k \in 1..1 : k = 1
    OBVIOUS
  <2> QED BY <2>1, <2>2, <2>3, <2>4
<1>3. CASE outcome = "none"
  <2>1. units(i, j, outcome) = <<>>
    BY <1>3 DEF units
  <2>2. Len(units(i, j, outcome)) = 0
    BY <2>1
  <2>3. ~\E k \in 1..0 : TRUE
    OBVIOUS
  <2> QED BY <2>2, <2>3
<1> QED BY <1>1, <1>2, <1>3

LEMMA TailsAppended ==
  ASSUME NEW fs, NEW gs, NEW w \in Nat, NEW s, NEW S, FilesOK(fs), Appended(fs, gs, w, s),
         Tails(fs, S), \A k \in 1..Len(s) : s[k].part = "tail" => s[k].item \in S
  PROVE  Tails(gs, S)
<1> DEFINE n == End(fs, w)
<1>1. Extended(fs, gs, w, s)
  BY AppendedUnits
<1>2. /\ n \in Nat /\ Len(s) \in Nat /\ Len(gs[w]) = n + Len(s)
      /\ w \in DOMAIN fs => (\A k \in 1..n : gs[w][k] = fs[w][k]) /\ n = Len(fs[w])
      /\ w \notin DOMAIN fs => n = 0
      /\ \A k \in 1..Len(s) : gs[w][n + k] = s[k]
  BY <1>1 DEF Extended, End
<1> HIDE DEF n
<1>3. ASSUME NEW f \in DOMAIN gs, NEW k \in 1..Len(gs[f]), gs[f][k].part = "tail"
      PROVE  gs[f][k].item \in S
  <2>1. CASE f # w
    <3>1. f \in DOMAIN fs /\ gs[f] = fs[f]
      BY <2>1 DEF Appended
    <3> QED BY <1>3, <3>1 DEF Tails
  <2>2. CASE f = w /\ k <= n
    <3>1. w \in DOMAIN fs /\ k \in 1..Len(fs[w]) /\ gs[w][k] = fs[w][k]
      BY <1>2, <1>3, <2>2
    <3> QED BY <1>3, <2>2, <3>1 DEF Tails
  <2>3. CASE f = w /\ ~(k <= n)
    <3> DEFINE l == k - n
    <3>1. l \in 1..Len(s) /\ n + l = k
      BY <1>2, <1>3, <2>3
    <3> HIDE DEF l
    <3> QED BY <1>2, <1>3, <2>3, <3>1
  <2> QED BY <2>1, <2>2, <2>3
<1> QED BY <1>3, Zenon DEF Tails

LEMMA MoreTails ==
  ASSUME NEW fs, NEW S, NEW T, Tails(fs, S), S \subseteq T
  PROVE  Tails(fs, T)
BY DEF Tails

\* The item that a thread takes, and the files it leaves.
LEMMA TailsPopped ==
  ASSUME FilesOK(files), NEW h \in Headers, NEW t \in Threads, NEW f \in Nat, NEW o \in Nat,
         NEW g, NEW gs, NEW x, PopResult(t, h, f, o, g, gs, x), NEW S, 0 \in S, Tails(files, S)
  PROVE  Tails(gs, S) /\ (x # <<>> => x[2] \in S)
<1>1. PICK n \in Nat : Advanced(h, g, gs, n)
  BY PopFiles
<1>2. ASSUME NEW y \in DOMAIN gs, NEW k \in 1..Len(gs[y]), gs[y][k].part = "tail"
      PROVE  gs[y][k].item \in S
  <2>1. CASE y \in DOMAIN files
    <3>1. gs[y] = files[y]
      BY <1>1, <2>1 DEF Advanced
    <3> QED BY <1>2, <2>1, <3>1 DEF Tails
  <2>2. CASE y \notin DOMAIN files
    <3>1. gs[y] = <<>>
      BY <1>1, <2>2 DEF Advanced
    <3>2. Len(gs[y]) = 0
      BY <3>1
    <3> QED BY <3>2
  <2> QED BY <2>1, <2>2
<1>3. ASSUME x # <<>> PROVE x[2] \in S
  <2>1. PopTaken(t, h, f, o, g, gs, x)
    BY <1>3 DEF PopResult, PopEnded, PopSkipped, PopCleared
  <2>2. f \in DOMAIN files /\ Len(files[f]) \in Nat
    BY LenProperties DEF PopResult, FilesOK
  <2>3. o + 2 \in 1..Len(files[f]) /\ x[2] = payload(files[f][o + 2])
    BY <2>1, <2>2 DEF PopTaken
  <2>4. files[f][o + 2].part = "tail" => files[f][o + 2].item \in S
    BY <2>2, <2>3 DEF Tails
  <2> QED BY <2>3, <2>4 DEF payload
<1>4. Tails(gs, S)
  BY <1>2, Zenon DEF Tails
<1> QED BY <1>3, <1>4

LEMMA InitWritten == Init => Written
<1> SUFFICES ASSUME Init PROVE Written
  OBVIOUS
<1>1. DOMAIN files = {}
  BY DEF Init
<1> QED BY <1>1, NotAThread DEF Init, Written, Tails

\* Recovery puts back what was in the files.
LEMMA RecoverWritten ==
  ASSUME Frame, Written, NEW t \in Threads, recoverOne(t)
  PROVE  Written'
<1> DEFINE p == mem.pos[t]
           S == accepted \cup {0}
<1>1. /\ inside' = inside /\ hand' = hand /\ pushed' = pushed
      /\ accepted' = accepted /\ handled' = handled
  BY DEF recoverOne, threads
<1>2. mem \in Headers /\ FilesOK(files) /\ Named(files, mem) /\ Tails(files, S)
  BY DEF Frame, HeaderTypes, Linked, Written
<1>3. CASE ~isRecovered(mem, p)
  <2>1. files' = files
    BY <1>3 DEF recoverOne
  <2> QED BY <1>1, <2>1 DEF Written
<1>4. CASE isRecovered(mem, p)
  <2> DEFINE i == itemAt(p)[1]
             j == itemAt(p)[2]
  <2>1. PICK outcome \in {"whole", "short", "none"} : files' = append(files, mem, i, j, outcome)
    BY <1>4, Zenon DEF recoverOne, outcomes
  <2>2. /\ p.seqno \in DOMAIN files /\ p.offset + 2 \in 1..Len(files[p.seqno])
        /\ j = payload(files[p.seqno][p.offset + 2])
        /\ i \in Items /\ j \in Payloads
    BY <1>2, <1>4, NamedItem
  <2>3. files[p.seqno][p.offset + 2].part = "tail" => files[p.seqno][p.offset + 2].item \in S
    BY <1>2, <2>2 DEF Tails
  <2>4. j \in S
    BY <2>2, <2>3 DEF payload
  <2>5. mem.write_seqno \in Nat
    BY <1>2 DEF Headers
  <2> HIDE DEF i, j, S
  <2>6. Appended(files, files', mem.write_seqno, units(i, j, outcome))
    BY <1>2, <2>1, <2>2, <2>5, AppendedFile
  <2>7. \A k \in 1..Len(units(i, j, outcome)) :
          units(i, j, outcome)[k].part = "tail" => units(i, j, outcome)[k].item \in S
    BY <2>4, UnitsWritten
  <2>8. Tails(files', S)
    BY <1>2, <2>5, <2>6, <2>7, TailsAppended
  <2> QED BY <1>1, <2>8 DEF Written, S
<1> QED BY <1>3, <1>4

LEMMA CreatedTails ==
  ASSUME NEW fs, NEW w \in Nat, NEW S, FilesOK(fs), Tails(fs, S)
  PROVE  Tails(created(fs, w), S)
<1>1. Appended(fs, created(fs, w), w, <<>>)
  BY CreatedIsAppended
<1>2. \A k \in 1..Len(<<>>) : FALSE
  OBVIOUS
<1> HIDE DEF created
<1> QED BY <1>1, <1>2, TailsAppended

LEMMA RotateWritten == Frame /\ Frame' /\ Written /\ pushRotate => Written'
<1> SUFFICES ASSUME Frame, Frame', Written, pushRotate PROVE Written'
  OBVIOUS
<1>1. /\ pushed' = pushed + 1 /\ hand' = hand /\ accepted' = accepted /\ handled' = handled
      /\ files' = files \/ files' = created(files, mem'.write_seqno)
  BY DEF pushRotate, leaveFull, threads, history
<1>2. /\ FilesOK(files) /\ mem'.write_seqno \in Nat /\ pushed \in Nat
      /\ Tails(files, accepted \cup {0}) /\ accepted \subseteq 1..pushed
  BY DEF Frame, HeaderTypes, Headers, OtherTypes, Written
<1>3. Tails(files', accepted \cup {0})
  BY <1>1, <1>2, CreatedTails
<1>4. accepted \subseteq 1..(pushed + 1) /\ pushed + 1 \notin accepted
  BY <1>2
<1> QED BY <1>1, <1>3, <1>4 DEF Written

LEMMA RecoverRotateWritten == Frame /\ Frame' /\ Written /\ recoverRotate => Written'
<1> SUFFICES ASSUME Frame, Frame', Written, recoverRotate PROVE Written'
  OBVIOUS
<1>1. /\ inside' = inside /\ hand' = hand /\ pushed' = pushed
      /\ accepted' = accepted /\ handled' = handled
      /\ files' = created(files, mem'.write_seqno)
  BY DEF recoverRotate, leaveFull, threads, bounds, history
<1>2. FilesOK(files) /\ mem'.write_seqno \in Nat
  BY DEF Frame, HeaderTypes, Headers
<1>3. Tails(files', accepted \cup {0})
  BY <1>1, <1>2, CreatedTails DEF Written
<1> QED BY <1>1, <1>3 DEF Written

LEMMA WriteWritten == Frame /\ Written /\ pushWrite => Written'
<1> SUFFICES ASSUME Frame, Written, pushWrite PROVE Written'
  OBVIOUS
<1> DEFINE S == accepted' \cup {0}
<1>1. inside = "writer" /\ inside' = "none" /\ hand' = hand /\ handled' = handled /\ pushed' = pushed
  BY DEF pushWrite
<1>2. PICK outcome \in {"whole", "short", "none"} :
        /\ files' = append(files, mem, pushed, pushed, outcome)
        /\ accepted' = IF outcome = "whole" THEN accepted \cup {pushed} ELSE accepted
  BY Zenon DEF pushWrite, outcomes
<1>3. /\ mem \in Headers /\ FilesOK(files) /\ pushed \in Items /\ pushed \in Payloads
      /\ mem.write_seqno \in Nat /\ pushed \in Nat \ {0}
  BY <1>1, FileAssumption DEF Frame, HeaderTypes, Headers, OtherTypes, InStep, Items, Payloads
<1>4. accepted \subseteq accepted'
  BY <1>2
<1>5. Tails(files, S)
  <2>1. Tails(files, accepted \cup {0}) /\ accepted \cup {0} \subseteq S
    BY <1>4 DEF Written
  <2> HIDE DEF S
  <2> QED BY <2>1, MoreTails
<1>6. Appended(files, files', mem.write_seqno, units(pushed, pushed, outcome))
  BY <1>2, <1>3, AppendedFile
<1>7. \A k \in 1..Len(units(pushed, pushed, outcome)) :
        units(pushed, pushed, outcome)[k].part = "tail" => units(pushed, pushed, outcome)[k].item \in S
  BY <1>2, UnitsWritten
<1>8. Tails(files', S)
  BY <1>3, <1>5, <1>6, <1>7, TailsAppended
<1>9. accepted' \subseteq 1..pushed
  BY <1>2, <1>3 DEF Written
<1> QED BY <1>1, <1>4, <1>8, <1>9 DEF Written

LEMMA RunWritten ==
  ASSUME Frame, Written, NEW t \in Threads, runLocked(t)
  PROVE  Written'
<1>1. /\ inside = "none" /\ pushed' = pushed /\ accepted' = accepted /\ handled' = handled
      /\ RunStays(t) \/ \E f, o \in Nat : \E x : RunPops(t, f, o, x)
  BY RunCases
<1>2. hand \in [Threads -> {<<>>} \cup Items \X Payloads] /\ FilesOK(files)
  BY DEF Frame, ThreadTypes
<1>3. CASE RunStays(t)
  <2>1. files' = files /\ inside' = inside /\ hand' = [hand EXCEPT ![t] = <<>>]
    BY <1>3 DEF RunStays
  <2>2. \A s \in Threads : hand'[s] = IF s = t THEN <<>> ELSE hand[s]
    BY <1>2, <2>1
  <2> QED BY <1>1, <2>1, <2>2 DEF Written
<1>4. CASE \E f, o \in Nat : \E x : RunPops(t, f, o, x)
  <2>1. PICK f, o \in Nat : \E x : RunPops(t, f, o, x)
    BY <1>4
  <2>1a. PICK x : RunPops(t, f, o, x)
    BY <2>1
  <2> DEFINE h == Found(t)
             S == accepted \cup {0}
  <2>2. /\ PopResult(t, h, f, o, mem', files', x) /\ inside' = t
        /\ hand' = [hand EXCEPT ![t] = x] /\ h \in Headers
    BY <2>1a, FoundHeader DEF RunPops
  <2>3. Tails(files, S)
    BY DEF Written
  <2> HIDE DEF h
  <2>4. Tails(files', S) /\ (x # <<>> => x[2] \in S)
    BY <1>2, <2>2, <2>3, TailsPopped
  <2>5. \A s \in Threads : hand'[s] = IF s = t THEN x ELSE hand[s]
    BY <1>2, <2>2
  <2> QED BY <1>1, <2>2, <2>4, <2>5, NotAThread DEF Written
<1> QED BY <1>1, <1>3, <1>4

LEMMA HandleWritten ==
  ASSUME Frame, Written, NEW t \in Threads, handleQueue(t)
  PROVE  Written'
<1>1. /\ pc[t] = "handle" /\ files' = files /\ inside' = inside /\ hand' = hand
      /\ pushed' = pushed /\ accepted' = accepted
  BY DEF handleQueue, bounds
<1>2. hand[t] # <<>> /\ hand[t][1] \in Items /\ handled \in [Items -> Nat]
  BY <1>1 DEF Frame, ThreadTypes, OtherTypes
<1>3. hand[t][2] \in accepted \cup {0}
  BY <1>2 DEF Written
<1>4. ASSUME NEW i \in Items, handled'[i] > 0 PROVE i \in accepted
  <2>1. CASE handled'[i] = handled[i]
    BY <1>4, <2>1 DEF Written
  <2>2. CASE handled'[i] # handled[i]
    <3>1. hand[t][1] = hand[t][2] /\ handled' = [handled EXCEPT ![hand[t][1]] = @ + 1]
      BY <2>2 DEF handleQueue
    <3>2. i = hand[t][1]
      BY <1>2, <2>2, <3>1
    <3>3. i # 0
      BY DEF Items
    <3> QED BY <1>3, <3>1, <3>2, <3>3
  <2> QED BY <2>1, <2>2
<1> QED BY <1>1, <1>4 DEF Written

LEMMA WrittenKept == Frame /\ Frame' /\ Written /\ [Next]_vars => Written'
<1> SUFFICES ASSUME Frame, Frame', Written, [Next]_vars PROVE Written'
  OBVIOUS
<1>1. CASE open
  <2>1. /\ files' = created(files, disk.write_seqno) /\ inside' = inside /\ hand' = hand
        /\ pushed' = pushed /\ accepted' = accepted /\ handled' = handled
    BY <1>1 DEF open, bounds, history
  <2>2. FilesOK(files) /\ disk.write_seqno \in Nat
    BY DEF Frame, HeaderTypes, Headers
  <2>3. Tails(files', accepted \cup {0})
    BY <2>1, <2>2, CreatedTails DEF Written
  <2> QED BY <2>1, <2>3 DEF Written
<1>2. CASE recoverDone \/ destroy \/ stopQueue \/ Terminated \/ UNCHANGED vars
  <2>1. /\ files' = files /\ inside' = inside /\ hand' = hand
        /\ pushed' = pushed /\ accepted' = accepted /\ handled' = handled
    BY <1>2 DEF recoverDone, destroy, stopQueue, Terminated, vars, bounds, history, threads
  <2> QED BY <2>1 DEF Written
<1>3. CASE crash
  <2>1. /\ files' = files /\ inside' = "none" /\ \A t \in Threads : hand'[t] = <<>>
        /\ pushed' = pushed /\ accepted' = accepted /\ handled' = handled
    BY <1>3 DEF crash
  <2> QED BY <2>1 DEF Written
<1>4. CASE recoverRotate \/ pushRotate \/ pushWrite
  BY <1>4, RecoverRotateWritten, RotateWritten, WriteWritten
<1>5. ASSUME NEW t \in Threads, saveHead(t) PROVE Written'
  <2>1. /\ files' = files /\ inside' = "none" /\ hand' = hand
        /\ pushed' = pushed /\ accepted' = accepted /\ handled' = handled
    BY <1>5 DEF saveHead, bounds, history
  <2> QED BY <2>1 DEF Written
<1>6. CASE \E t \in Threads : recoverOne(t) \/ thread(t)
  BY <1>5, <1>6, RecoverWritten, RunWritten, HandleWritten DEF thread
<1> QED BY <1>1, <1>2, <1>3, <1>4, <1>6 DEF Next

-----------------------------------------------------------------------------
(* How many copies of an item there are: handled, in the files before the     *)
(* reader of header.dat, in the entries that a recovery looks at, in hand      *)

RecordAt(fs, h, i, f, k) ==
  /\ f \in DOMAIN fs /\ k \in 1..Len(fs[f]) /\ k + 1 \in 1..Len(fs[f])
  /\ fs[f][k].part = "head" /\ fs[f][k].item = i
  /\ fs[f][k + 1].part = "tail" /\ fs[f][k + 1].item = i
  /\ h.read_seqno <= f /\ (f = h.read_seqno => h.read_offset < k)

Records(fs, h, i) ==
  UNION {{<<f, k>> : k \in {l \in Nat : RecordAt(fs, h, i, f, l)}} : f \in DOMAIN fs}

CopyAt(fs, h, p, i) ==
  /\ p.seqno # 0 /\ p.seqno <= h.read_seqno /\ p.offset < h.read_offset
  /\ p.seqno \in DOMAIN fs /\ fs[p.seqno][p.offset + 1].item = i
  /\ payload(fs[p.seqno][p.offset + 2]) = i

Entries(i) ==
  {t \in Threads : /\ proc = "down" \/ (proc = "recover" /\ t \in toRecover)
                   /\ CopyAt(files, disk, disk.pos[t], i)}

Handling(i) == {t \in Threads : pc[t] = "handle" /\ hand[t] = <<i, i>>}

Copies(i) ==
  handled[i] + Cardinality(Records(files, disk, i)) + Cardinality(Entries(i))
             + Cardinality(Handling(i))

\* The record that a thread has taken is still before the reader of header.dat.
PopLeaves(t) ==
  pc[t] = "save" =>
    \A i \in Items :
      /\ Records(files, mem, i) \subseteq Records(files, disk, i)
      /\ hand[t] = <<i, i>> =>
           \E c \in Records(files, disk, i) : c \notin Records(files, mem, i)

AtMost == 1 + crashes * Cardinality(Threads)

FewOf(i) == IsFiniteSet(Records(files, disk, i)) /\ Copies(i) <= AtMost

FewCopies == (\A i \in Items : FewOf(i)) /\ \A t \in Threads : PopLeaves(t)

LEMMA RecordsAre ==
  ASSUME NEW fs, NEW h, NEW i
  PROVE  /\ \A f \in DOMAIN fs, k \in Nat :
              <<f, k>> \in Records(fs, h, i) <=> RecordAt(fs, h, i, f, k)
         /\ \A c \in Records(fs, h, i) :
              \E f \in DOMAIN fs, k \in Nat : c = <<f, k>> /\ RecordAt(fs, h, i, f, k)
<1> DEFINE R(f) == {<<f, k>> : k \in {l \in Nat : RecordAt(fs, h, i, f, l)}}
<1>1. \A c : c \in Records(fs, h, i) <=> \E f \in DOMAIN fs : c \in R(f)
  BY DEF Records
<1>2. \A f, c : c \in R(f) <=> \E k \in Nat : c = <<f, k>> /\ RecordAt(fs, h, i, f, k)
  OBVIOUS
<1> HIDE DEF R
<1>3. \A f, k, g, l : <<f, k>> = <<g, l>> => f = g /\ k = l
  OBVIOUS
<1> QED BY <1>1, <1>2, <1>3

LEMMA Fewer ==
  ASSUME NEW S, IsFiniteSet(S), NEW T, T \subseteq S
  PROVE  /\ IsFiniteSet(T) /\ Cardinality(T) \in Nat /\ Cardinality(S) \in Nat
         /\ Cardinality(T) <= Cardinality(S)
BY FS_Subset, FS_CardinalityType

LEMMA OneLess ==
  ASSUME NEW S, IsFiniteSet(S), NEW T, T \subseteq S, NEW x \in S, x \notin T
  PROVE  Cardinality(T) + 1 <= Cardinality(S)
<1>1. /\ IsFiniteSet(S \ {x}) /\ Cardinality(S \ {x}) = Cardinality(S) - 1
      /\ Cardinality(S) \in Nat
  BY FS_RemoveElement, FS_CardinalityType
<1>2. Cardinality(T) <= Cardinality(S \ {x}) /\ Cardinality(T) \in Nat
  BY <1>1, Fewer
<1> QED BY <1>1, <1>2

LEMMA OneMore ==
  ASSUME NEW S, IsFiniteSet(S), NEW T, NEW x, T \subseteq S \cup {x}
  PROVE  /\ IsFiniteSet(T) /\ Cardinality(T) \in Nat /\ Cardinality(S) \in Nat
         /\ Cardinality(T) <= Cardinality(S) + 1
<1>1. /\ IsFiniteSet(S \cup {x}) /\ Cardinality(S) \in Nat
      /\ Cardinality(S \cup {x}) = Cardinality(S) \/ Cardinality(S \cup {x}) = Cardinality(S) + 1
  BY FS_AddElement, FS_CardinalityType
<1>2. /\ IsFiniteSet(T) /\ Cardinality(T) <= Cardinality(S \cup {x}) /\ Cardinality(T) \in Nat
  BY <1>1, Fewer
<1> QED BY <1>1, <1>2

\* Sets of threads are finite.
LEMMA CopiesFinite ==
  ASSUME NEW i
  PROVE  /\ IsFiniteSet(Entries(i)) /\ IsFiniteSet(Handling(i))
         /\ Cardinality(Entries(i)) \in Nat /\ Cardinality(Handling(i)) \in Nat
         /\ Cardinality(Threads) \in Nat
<1>1. IsFiniteSet(Threads)
  BY FileAssumption
<1>2. Entries(i) \subseteq Threads /\ Handling(i) \subseteq Threads
  BY DEF Entries, Handling
<1> QED BY <1>1, <1>2, Fewer

LEMMA RecordsAppended ==
  ASSUME NEW fs, NEW gs, NEW w \in Nat, NEW s, FilesOK(fs), Appended(fs, gs, w, s),
         NEW h, NEW g, g.read_seqno = h.read_seqno, g.read_offset = h.read_offset,
         Len(s) \in {0, 1, 2}, Len(s) > 0 => s[1].part = "head", NEW i,
         NEW c \in Records(gs, g, i)
  PROVE  \/ c \in Records(fs, h, i)
         \/ /\ c = <<w, End(fs, w) + 1>> /\ Len(s) = 2
            /\ s[1].item = i /\ s[2].item = i /\ s[2].part = "tail"
<1> DEFINE n == End(fs, w)
<1>0. PICK f \in DOMAIN gs, k \in Nat : c = <<f, k>> /\ RecordAt(gs, g, i, f, k)
  BY RecordsAre
<1>1. Extended(fs, gs, w, s)
  BY AppendedUnits
<1>2. /\ n \in Nat /\ Len(s) \in Nat /\ Len(gs[w]) = n + Len(s)
      /\ w \in DOMAIN fs => (\A l \in 1..n : gs[w][l] = fs[w][l]) /\ n = Len(fs[w])
      /\ w \notin DOMAIN fs => n = 0
      /\ \A l \in 1..Len(s) : gs[w][n + l] = s[l]
  BY <1>1 DEF Extended, End
<1> HIDE DEF n
<1>3. /\ k \in 1..Len(gs[f]) /\ k + 1 \in 1..Len(gs[f])
      /\ gs[f][k].part = "head" /\ gs[f][k].item = i
      /\ gs[f][k + 1].part = "tail" /\ gs[f][k + 1].item = i
      /\ h.read_seqno <= f /\ (f = h.read_seqno => h.read_offset < k)
  BY <1>0 DEF RecordAt
<1>4. CASE f # w
  <2>1. f \in DOMAIN fs /\ gs[f] = fs[f]
    BY <1>0, <1>4 DEF Appended
  <2>2. RecordAt(fs, h, i, f, k)
    BY <1>3, <2>1 DEF RecordAt
  <2> QED BY <1>0, <2>1, <2>2, RecordsAre
<1>5. CASE f = w /\ k + 1 <= n
  <2>1. /\ w \in DOMAIN fs /\ k \in 1..Len(fs[w]) /\ k + 1 \in 1..Len(fs[w])
        /\ gs[w][k] = fs[w][k] /\ gs[w][k + 1] = fs[w][k + 1]
    BY <1>2, <1>3, <1>5
  <2>2. RecordAt(fs, h, i, f, k)
    BY <1>3, <1>5, <2>1 DEF RecordAt
  <2> QED BY <1>0, <1>5, <2>1, <2>2, RecordsAre
<1>6. CASE f = w /\ ~(k + 1 <= n)
  <2>1. k = n \/ k > n
    BY <1>0, <1>2, <1>6
  <2>2. k # n
    <3> SUFFICES ASSUME k = n PROVE FALSE
      OBVIOUS
    <3>1. 1 \in 1..Len(s)
      BY <1>2, <1>3, <1>6
    <3>2. gs[w][n + 1] = s[1] /\ s[1].part = "head"
      BY <1>2, <3>1
    <3> QED BY <1>3, <1>6, <3>2
  <2>3. k = n + 1 /\ Len(s) = 2
    <3> DEFINE m == Len(s)
               q == Len(gs[w])
    <3>1. m \in {0, 1, 2} /\ q = n + m /\ n \in Nat /\ k \in Nat /\ k > n /\ k + 1 <= q
      BY <1>0, <1>2, <1>3, <1>6, <2>1, <2>2
    <3> HIDE DEF m, q
    <3>2. k = n + 1 /\ m = 2
      BY <3>1
    <3> QED BY <3>2 DEF m
  <2>4. 1 \in 1..Len(s) /\ 2 \in 1..Len(s) /\ k + 1 = n + 2
    BY <1>2, <2>3
  <2>5. gs[w][k] = s[1] /\ gs[w][k + 1] = s[2]
    BY <1>2, <2>3, <2>4
  <2> QED BY <1>0, <1>3, <1>6, <2>3, <2>5 DEF n
<1> QED BY <1>4, <1>5, <1>6

\* A reader that advances has no more records before it; the one it takes it leaves.
LEMMA RecordsPopped ==
  ASSUME FilesOK(files), NEW h \in Headers, NEW t \in Threads, NEW f \in Nat, NEW o \in Nat,
         NEW g, NEW gs, NEW x, PopResult(t, h, f, o, g, gs, x), NEW i \in Items
  PROVE  /\ Records(gs, h, i) \subseteq Records(files, h, i)
         /\ Records(gs, g, i) \subseteq Records(gs, h, i)
         /\ x = <<i, i>> => \E c \in Records(gs, h, i) : c \notin Records(gs, g, i)
<1>1. PICK n \in Nat : Advanced(h, g, gs, n) /\ (n = f \/ PopSkipped(h, f, o, g, gs, x))
  BY PopFiles
<1>2. /\ g \in Headers /\ f \in DOMAIN files /\ h.read_seqno <= f
      /\ o = IF f = h.read_seqno THEN h.read_offset ELSE 0
      /\ PopEnded(h, f, o, g, gs, x) \/ PopTaken(t, h, f, o, g, gs, x)
           \/ PopSkipped(h, f, o, g, gs, x) \/ PopCleared(h, f, o, g, gs, x)
  BY DEF PopResult
<1>3. /\ h.read_seqno \in Nat /\ h.read_offset \in Nat
      /\ g.read_seqno \in Nat /\ g.read_offset \in Nat
      /\ \A y \in DOMAIN files : y \in Nat /\ Len(files[y]) \in Nat
  BY <1>2, LenProperties DEF Headers, FilesOK
<1>4. ASSUME NEW y \in DOMAIN gs, NEW k \in Nat, RecordAt(gs, h, i, y, k)
      PROVE  y \in DOMAIN files /\ RecordAt(files, h, i, y, k)
  <2>1. CASE y \in DOMAIN files
    <3>1. gs[y] = files[y]
      BY <1>1, <2>1 DEF Advanced
    <3> QED BY <1>4, <2>1, <3>1 DEF RecordAt
  <2>2. CASE y \notin DOMAIN files
    <3>1. gs[y] = <<>>
      BY <1>1, <2>2 DEF Advanced
    <3>2. Len(gs[y]) = 0
      BY <3>1
    <3> QED BY <1>4, <3>2 DEF RecordAt
  <2> QED BY <2>1, <2>2
<1>5. /\ h.read_seqno <= g.read_seqno
      /\ g.read_seqno = h.read_seqno => h.read_offset <= g.read_offset
  <2>1. CASE PopEnded(h, f, o, g, gs, x) \/ PopTaken(t, h, f, o, g, gs, x)
    <3>1. g.read_seqno = f /\ (g.read_offset = o \/ g.read_offset = o + 2)
      BY <2>1 DEF PopEnded, PopTaken
    <3> QED BY <1>2, <1>3, <3>1
  <2>2. CASE PopSkipped(h, f, o, g, gs, x) \/ PopCleared(h, f, o, g, gs, x)
    <3>1. g.read_seqno = f + 1
      BY <2>2 DEF PopSkipped, PopCleared
    <3> QED BY <1>2, <1>3, <3>1
  <2> QED BY <1>2, <2>1, <2>2
<1>6. ASSUME NEW y \in DOMAIN gs, NEW k \in Nat, RecordAt(gs, g, i, y, k)
      PROVE  RecordAt(gs, h, i, y, k)
  <2>1. /\ y \in DOMAIN gs /\ k \in 1..Len(gs[y]) /\ k + 1 \in 1..Len(gs[y])
        /\ gs[y][k].part = "head" /\ gs[y][k].item = i
        /\ gs[y][k + 1].part = "tail" /\ gs[y][k + 1].item = i
        /\ g.read_seqno <= y /\ (y = g.read_seqno => g.read_offset < k)
    BY <1>6 DEF RecordAt
  <2>2. y \in Nat
    <3>1. FilesOK(gs)
      BY PopFiles
    <3> QED BY <3>1 DEF FilesOK
  <2>3. h.read_seqno <= y /\ (y = h.read_seqno => h.read_offset < k)
    BY <1>3, <1>5, <2>1, <2>2
  <2> QED BY <2>1, <2>3 DEF RecordAt
<1>7. ASSUME x = <<i, i>> PROVE \E c \in Records(gs, h, i) : c \notin Records(gs, g, i)
  <2>1. x # <<>> /\ x[1] = i /\ x[2] = i /\ i # 0
    BY <1>7 DEF Items
  <2>2. PopTaken(t, h, f, o, g, gs, x) /\ ~PopSkipped(h, f, o, g, gs, x)
    BY <1>2, <2>1 DEF PopEnded, PopSkipped, PopCleared
  <2>3. n = f /\ f \in DOMAIN gs /\ gs[f] = files[f]
    BY <1>1, <1>2, <1>3, <2>2 DEF Advanced
  <2>4. /\ o + 2 <= Len(files[f]) /\ files[f][o + 1].part = "head" /\ files[f][o + 1].item = i
        /\ payload(files[f][o + 2]) = i
        /\ g.read_seqno = f /\ g.read_offset = o + 2
    BY <2>1, <2>2 DEF PopTaken
  <2>5. files[f][o + 2].part = "tail" /\ files[f][o + 2].item = i
    BY <2>1, <2>4 DEF payload
  <2> DEFINE k == o + 1
  <2>6. /\ k \in 1..Len(files[f]) /\ k + 1 \in 1..Len(files[f]) /\ k + 1 = o + 2 /\ k \in Nat
        /\ ~(g.read_offset < k)
    BY <1>2, <1>3, <2>4
  <2>7. f = h.read_seqno => h.read_offset < k
    BY <1>2, <1>3
  <2>8. files[f][k].part = "head" /\ files[f][k].item = i
    BY <2>4
  <2> HIDE DEF k
  <2>9. RecordAt(gs, h, i, f, k)
    BY <1>2, <2>3, <2>5, <2>6, <2>7, <2>8 DEF RecordAt
  <2>10. ~RecordAt(gs, g, i, f, k)
    BY <2>4, <2>6 DEF RecordAt
  <2>11. <<f, k>> \in Records(gs, h, i) /\ <<f, k>> \notin Records(gs, g, i)
    BY <2>3, <2>6, <2>9, <2>10, RecordsAre
  <2> QED BY <2>11
<1>8. Records(gs, h, i) \subseteq Records(files, h, i)
  <2> SUFFICES ASSUME NEW c \in Records(gs, h, i) PROVE c \in Records(files, h, i)
    OBVIOUS
  <2>1. PICK y \in DOMAIN gs, k \in Nat : c = <<y, k>> /\ RecordAt(gs, h, i, y, k)
    BY RecordsAre
  <2> QED BY <1>4, <2>1, RecordsAre
<1>9. Records(gs, g, i) \subseteq Records(gs, h, i)
  <2> SUFFICES ASSUME NEW c \in Records(gs, g, i) PROVE c \in Records(gs, h, i)
    OBVIOUS
  <2>1. PICK y \in DOMAIN gs, k \in Nat : c = <<y, k>> /\ RecordAt(gs, g, i, y, k)
    BY RecordsAre
  <2> QED BY <1>6, <2>1, RecordsAre
<1> QED BY <1>7, <1>8, <1>9

\* The count as numbers: one step changes each part by one at most, and the sum
\* does not grow.
LEMMA QuietCopies ==
  ASSUME Frame, NEW i \in Items, FewOf(i), crashes' = crashes,
         handled'[i] = handled[i],
         Records(files, disk, i)' \subseteq Records(files, disk, i),
         Entries(i)' \subseteq Entries(i), Handling(i)' \subseteq Handling(i)
  PROVE  FewOf(i)'
<1> DEFINE R == Records(files, disk, i)
           E == Entries(i)
           H == Handling(i)
<1>1. IsFiniteSet(R) /\ IsFiniteSet(E) /\ IsFiniteSet(H)
  BY CopiesFinite DEF FewOf
<1>2. handled[i] \in Nat /\ Copies(i) <= AtMost /\ AtMost' = AtMost
  BY DEF Frame, OtherTypes, FewOf, AtMost
<1> HIDE DEF R, E, H
<1>3. /\ IsFiniteSet(R') /\ Cardinality(R') <= Cardinality(R)
      /\ Cardinality(R') \in Nat /\ Cardinality(R) \in Nat
  BY <1>1, Fewer DEF R
<1>4. /\ Cardinality(E') <= Cardinality(E)
      /\ Cardinality(E') \in Nat /\ Cardinality(E) \in Nat
  BY <1>1, Fewer DEF E
<1>5. /\ Cardinality(H') <= Cardinality(H)
      /\ Cardinality(H') \in Nat /\ Cardinality(H) \in Nat
  BY <1>1, Fewer DEF H
<1>6. AtMost \in Nat
  <2>1. Cardinality(Threads) \in Nat /\ crashes \in Nat
    BY CopiesFinite DEF Frame, OtherTypes
  <2> QED BY <2>1 DEF AtMost
<1>7. Copies(i) = handled[i] + Cardinality(R) + Cardinality(E) + Cardinality(H)
  BY DEF Copies, R, E, H
<1>8. Copies(i)' = handled'[i] + Cardinality(R') + Cardinality(E') + Cardinality(H')
  BY DEF Copies, R, E, H
<1>9. Copies(i)' <= AtMost
  BY <1>2, <1>3, <1>4, <1>5, <1>6, <1>7, <1>8
<1> QED BY <1>2, <1>3, <1>9 DEF FewOf, R

\* One more in one part, one less in another.
LEMMA MovedCopy ==
  ASSUME Frame, NEW i \in Items, FewOf(i), crashes' = crashes,
         IsFiniteSet(Records(files, disk, i)'),
         \/ /\ handled'[i] = handled[i]
            /\ Cardinality(Records(files, disk, i)') <= Cardinality(Records(files, disk, i)) + 1
            /\ Cardinality(Entries(i)') + 1 <= Cardinality(Entries(i))
            /\ Cardinality(Handling(i)') <= Cardinality(Handling(i))
         \/ /\ handled'[i] = handled[i]
            /\ Cardinality(Records(files, disk, i)') + 1 <= Cardinality(Records(files, disk, i))
            /\ Cardinality(Entries(i)') <= Cardinality(Entries(i))
            /\ Cardinality(Handling(i)') <= Cardinality(Handling(i)) + 1
         \/ /\ handled'[i] = handled[i] + 1
            /\ Cardinality(Records(files, disk, i)') <= Cardinality(Records(files, disk, i))
            /\ Cardinality(Entries(i)') <= Cardinality(Entries(i))
            /\ Cardinality(Handling(i)') + 1 <= Cardinality(Handling(i))
  PROVE  FewOf(i)'
<1> DEFINE r == Cardinality(Records(files, disk, i))
           e == Cardinality(Entries(i))
           h == Cardinality(Handling(i))
           q == Cardinality(Records(files, disk, i)')
           d == Cardinality(Entries(i)')
           g == Cardinality(Handling(i)')
<1>1. handled[i] \in Nat /\ Copies(i) <= AtMost /\ AtMost' = AtMost
  BY DEF Frame, OtherTypes, FewOf, AtMost
<1>2. AtMost \in Nat
  <2>1. Cardinality(Threads) \in Nat /\ crashes \in Nat
    BY CopiesFinite DEF Frame, OtherTypes
  <2> QED BY <2>1 DEF AtMost
<1>3. IsFiniteSet(Threads) /\ Entries(i)' \subseteq Threads /\ Handling(i)' \subseteq Threads
  BY FileAssumption DEF Entries, Handling
<1>4. d \in Nat /\ g \in Nat
  BY <1>3, Fewer
<1>5. r \in Nat /\ e \in Nat /\ h \in Nat /\ q \in Nat
  BY CopiesFinite, FS_CardinalityType DEF FewOf
<1>6. Copies(i) = handled[i] + r + e + h
  BY DEF Copies
<1>7. Copies(i)' = handled'[i] + q + d + g
  BY DEF Copies
<1>8. Copies(i)' <= AtMost
  <2> HIDE DEF r, e, h, q, d, g
  <2>1. handled'[i] + q + d + g <= handled[i] + r + e + h /\ handled'[i] \in Nat
    BY <1>1, <1>4, <1>5 DEF r, e, h, q, d, g
  <2> QED BY <1>1, <1>2, <1>4, <1>5, <1>6, <1>7, <2>1
<1> QED BY <1>1, <1>8 DEF FewOf

LEMMA SameRecords ==
  ASSUME NEW fs, NEW h, NEW g, g.read_seqno = h.read_seqno, g.read_offset = h.read_offset, NEW i
  PROVE  Records(fs, g, i) = Records(fs, h, i)
BY DEF Records, RecordAt

\* A file that is opened adds no record, and no entry names what was not there.
LEMMA NoMoreRecords ==
  ASSUME NEW fs, NEW gs, NEW w \in Nat, FilesOK(fs), Appended(fs, gs, w, <<>>),
         NEW h, NEW g, g.read_seqno = h.read_seqno, g.read_offset = h.read_offset, NEW i
  PROVE  Records(gs, g, i) \subseteq Records(fs, h, i)
<1> DEFINE s == <<>>
<1>1. Len(s) = 0
  OBVIOUS
<1> HIDE DEF s
<1>2. Appended(fs, gs, w, s)
  BY DEF s
<1>3. Len(s) \in {0, 1, 2} /\ ~(Len(s) > 0) /\ Len(s) # 2
  BY <1>1
<1> QED BY <1>2, <1>3, RecordsAppended

LEMMA CopyWasThere ==
  ASSUME NEW fs, NEW gs, FilesOK(fs), FilesOK(gs), Keeps(fs, gs),
         NEW h, NEW g, g.read_seqno = h.read_seqno, g.read_offset = h.read_offset,
         h.read_seqno \in Nat, \A f \in DOMAIN gs \ DOMAIN fs : f > h.read_seqno,
         NEW p \in [seqno : Nat, offset : Nat], Names(fs, p, h.read_seqno),
         NEW i, CopyAt(gs, g, p, i)
  PROVE  CopyAt(fs, h, p, i)
<1>1. /\ p.seqno # 0 /\ p.seqno <= h.read_seqno /\ p.offset < h.read_offset
      /\ p.seqno \in DOMAIN gs /\ gs[p.seqno][p.offset + 1].item = i
      /\ payload(gs[p.seqno][p.offset + 2]) = i
  BY DEF CopyAt
<1>2. p.seqno \in DOMAIN fs
  BY <1>1
<1>3. p.offset + 2 <= Len(fs[p.seqno]) /\ Len(fs[p.seqno]) \in Nat
  BY <1>1, <1>2, LenProperties DEF Names, FilesOK
<1>4. p.offset + 1 \in 1..Len(fs[p.seqno]) /\ p.offset + 2 \in 1..Len(fs[p.seqno])
  BY <1>3
<1>5. /\ gs[p.seqno][p.offset + 1] = fs[p.seqno][p.offset + 1]
      /\ gs[p.seqno][p.offset + 2] = fs[p.seqno][p.offset + 2]
  BY <1>1, <1>2, <1>4 DEF Keeps
<1> QED BY <1>1, <1>2, <1>5 DEF CopyAt

LEMMA NobodySaves ==
  ASSUME Frame', inside' \notin Threads
  PROVE  \A t \in Threads : PopLeaves(t)'
BY DEF Frame, ThreadInStep, PopLeaves

LEMMA InitFew == Init => FewCopies
<1> SUFFICES ASSUME Init PROVE FewCopies
  OBVIOUS
<1>1. ASSUME NEW i \in Items PROVE FewOf(i)
  <2>1. Records(files, disk, i) = {}
    BY DEF Init, Records
  <2>2. Handling(i) = {}
    BY DEF Init, Handling
  <2>3. Entries(i) = {}
    BY DEF Init, NewHeader, NoPositions, NoPos, Entries, CopyAt
  <2>4. handled[i] = 0 /\ crashes = 0
    BY <1>1 DEF Init
  <2>5. Copies(i) = 0
    BY <2>1, <2>2, <2>3, <2>4, FS_EmptySet DEF Copies
  <2>6. AtMost = 1
    BY <2>4, CopiesFinite DEF AtMost
  <2> QED BY <2>1, <2>5, <2>6, FS_EmptySet DEF FewOf
<1>2. \A t \in Threads : PopLeaves(t)
  BY DEF Init, PopLeaves
<1> QED BY <1>1, <1>2 DEF FewCopies

LEMMA OpenFew == Frame /\ Frame' /\ FewCopies /\ open => FewCopies'
<1> SUFFICES ASSUME Frame, Frame', FewCopies, open PROVE FewCopies'
  OBVIOUS
<1> DEFINE w == disk.write_seqno
<1>1. /\ disk \in Headers /\ FilesOK(files) /\ proc = "down"
      /\ files' = created(files, w) /\ disk' = disk /\ hand' = hand /\ inside' = inside
      /\ crashes' = crashes /\ handled' = handled
      /\ w \in DOMAIN files \/ Unopened
  BY DEF Frame, HeaderTypes, Linked, open, bounds, history
<1>2. w \in Nat /\ disk.read_seqno \in Nat
  BY <1>1 DEF Headers
<1>3. /\ FilesOK(files') /\ DOMAIN files' = DOMAIN files \cup {w} /\ Keeps(files, files')
      /\ Appended(files, files', w, <<>>)
  BY <1>1, <1>2, CreatedFile, CreatedIsAppended DEF Grows
<1>4. proc' = "up" \/ proc' = "recover"
  BY DEF open
<1>5. \A t \in Threads : pc'[t] \in {"off", "start"}
  BY <1>1 DEF open, startThreads, Frame, InStep
<1>6. inside = "none"
  BY <1>1 DEF Frame, InStep
<1>7. ASSUME NEW i \in Items PROVE FewOf(i)'
  <2>1. Records(files, disk, i)' \subseteq Records(files, disk, i)
    BY <1>1, <1>2, <1>3, NoMoreRecords
  <2>2. Handling(i)' \subseteq Handling(i)
    BY <1>5 DEF Handling
  <2>3. ASSUME NEW t \in Threads, CopyAt(files', disk, disk.pos[t], i)
        PROVE  CopyAt(files, disk, disk.pos[t], i)
    <3>1. CASE Unopened
      <4>1. disk.pos[t].seqno = 0
        BY <3>1 DEF Unopened, NoPositions, NoPos
      <4> QED BY <2>3, <4>1 DEF CopyAt
    <3>2. CASE w \in DOMAIN files
      <4>1. \A f \in DOMAIN files' \ DOMAIN files : f > disk.read_seqno
        BY <1>3, <3>2
      <4>2. Names(files, disk.pos[t], disk.read_seqno) /\ disk.pos[t] \in [seqno : Nat, offset : Nat]
        BY <1>1 DEF Frame, Linked, Named, Headers
      <4> QED BY <1>1, <1>2, <1>3, <2>3, <4>1, <4>2, CopyWasThere
    <3> QED BY <1>1, <3>1, <3>2
  <2>4. Entries(i)' \subseteq Entries(i)
    BY <1>1, <2>3 DEF Entries
  <2> QED BY <1>1, <2>1, <2>2, <2>4, QuietCopies DEF FewCopies
<1> QED BY <1>1, <1>6, <1>7, NobodySaves, NotAThread DEF FewCopies

LEMMA RecoverFew ==
  ASSUME Frame, Frame', FewCopies, NEW t \in Threads, recoverOne(t)
  PROVE  FewCopies'
<1> DEFINE p == mem.pos[t]
           w == mem.write_seqno
<1>1. /\ proc = "recover" /\ t \in toRecover /\ toRecover' = toRecover \ {t}
      /\ proc' = proc /\ inside' = inside /\ pc' = pc /\ hand' = hand
      /\ crashes' = crashes /\ handled' = handled
  BY DEF recoverOne, threads
<1>2. /\ mem \in Headers /\ disk \in Headers /\ FilesOK(files) /\ FilesOK(files')
      /\ Named(files, mem) /\ Named(files, disk) /\ SamePlace /\ mem.pos = disk.pos
      /\ inside = "none" /\ mem.read_seqno <= mem.write_seqno
  BY <1>1, NotAThread DEF Frame, HeaderTypes, Linked, InStep, Chained
<1>3. \A i : Handling(i)' = Handling(i)
  BY <1>1 DEF Handling
<1>4. \A s \in Threads : PopLeaves(s)'
  BY <1>1, <1>2, NobodySaves, NotAThread
<1>5. CASE ~isRecovered(mem, p)
  <2>1. files' = files /\ disk' = disk
    BY <1>5 DEF recoverOne
  <2>2. ASSUME NEW i \in Items PROVE FewOf(i)'
    <3>1. Entries(i)' \subseteq Entries(i)
      BY <1>1, <2>1 DEF Entries
    <3> QED BY <1>1, <1>3, <2>1, <3>1, QuietCopies DEF FewCopies
  <2> QED BY <1>4, <2>2 DEF FewCopies
<1>6. CASE isRecovered(mem, p)
  <2> DEFINE j == itemAt(p)[1]
             l == itemAt(p)[2]
  <2>1. PICK outcome \in {"whole", "short", "none"} :
          files' = append(files, mem, j, l, outcome)
    BY <1>6, Zenon DEF recoverOne, outcomes
  <2>2. /\ p.seqno \in DOMAIN files /\ j \in Items /\ l \in Payloads
        /\ j = files[p.seqno][p.offset + 1].item
        /\ l = payload(files[p.seqno][p.offset + 2])
    BY <1>2, <1>6, NamedItem
  <2>3. w \in Nat /\ w \in DOMAIN files
    BY <1>1, <1>2 DEF Headers, Frame, Linked
  <2>4. disk' = disk
    BY DEF recoverOne
  <2> DEFINE new == units(j, l, outcome)
  <2> HIDE DEF j, l
  <2>5. /\ Len(new) \in {0, 1, 2}
        /\ \A k \in 1..Len(new) : new[k].part = "tail" =>
             k = 2 /\ outcome = "whole" /\ new[k].item = l /\ new[1].item = j
        /\ Len(new) > 0 => new[1].part = "head"
    BY UnitsWritten
  <2>6. Appended(files, files', w, new)
    BY <1>2, <2>1, <2>2, <2>3, AppendedFile
  <2>7. \A f \in DOMAIN files' \ DOMAIN files : f > disk.read_seqno
    <3>1. DOMAIN files' = DOMAIN files \cup {w}
      BY <2>6 DEF Appended
    <3> QED BY <2>3, <3>1
  <2>8. Keeps(files, files')
    BY <2>6 DEF Appended, Grows
  <2>9. ASSUME NEW i \in Items PROVE FewOf(i)'
    <3> DEFINE c == <<w, End(files, w) + 1>>
    <3> HIDE DEF new
    <3>1. ASSUME NEW s \in Threads, CopyAt(files', disk', disk'.pos[s], i)
          PROVE  CopyAt(files, disk, disk.pos[s], i)
      <4>1. Names(files, disk.pos[s], disk.read_seqno) /\ disk.pos[s] \in [seqno : Nat, offset : Nat]
        BY <1>2 DEF Named, Headers
      <4>2. disk.read_seqno \in Nat
        BY <1>2 DEF Headers
      <4> QED BY <1>2, <2>4, <2>7, <2>8, <3>1, <4>1, <4>2, CopyWasThere
    <3>2. Entries(i)' \subseteq Entries(i) \ {t}
      BY <1>1, <3>1 DEF Entries
    <3>3. IsFiniteSet(Records(files, disk, i)) /\ IsFiniteSet(Entries(i)) /\ IsFiniteSet(Handling(i))
      BY CopiesFinite DEF FewCopies, FewOf
    <3>4. CASE j = i /\ l = i
      <4>1. \A r \in Records(files', disk', i) : r \in Records(files, disk, i) \/ r = c
        BY <1>2, <2>3, <2>4, <2>5, <2>6, RecordsAppended
      <4>2. t \in Entries(i)
        <5>1. CopyAt(files, disk, p, i)
          BY <1>2, <1>6, <2>2, <3>4 DEF isRecovered, CopyAt, SamePlace
        <5> QED BY <1>1, <1>2, <5>1 DEF Entries
      <4>3. Cardinality(Entries(i)') + 1 <= Cardinality(Entries(i))
        BY <3>2, <3>3, <4>2, OneLess
      <4>4. Records(files', disk', i) \subseteq Records(files, disk, i) \cup {c}
        BY <4>1
      <4>5. /\ IsFiniteSet(Records(files', disk', i))
            /\ Cardinality(Records(files', disk', i)) <= Cardinality(Records(files, disk, i)) + 1
        BY <3>3, <4>4, OneMore
      <4>6. Cardinality(Handling(i)') <= Cardinality(Handling(i))
        BY <1>3, CopiesFinite
      <4> QED BY <1>1, <4>3, <4>5, <4>6, MovedCopy DEF FewCopies
    <3>5. CASE ~(j = i /\ l = i)
      <4>1. ASSUME NEW r \in Records(files', disk', i) PROVE r \in Records(files, disk, i)
        <5>1. ASSUME Len(new) = 2, new[1].item = i, new[2].item = i, new[2].part = "tail"
              PROVE  FALSE
          <6>1. 2 \in 1..Len(new)
            BY <5>1
          <6>2. new[2].item = l /\ new[1].item = j
            BY <2>5, <5>1, <6>1
          <6> QED BY <3>5, <5>1, <6>2
        <5> QED BY <1>2, <2>3, <2>4, <2>5, <2>6, <5>1, RecordsAppended
      <4>2. Records(files, disk, i)' \subseteq Records(files, disk, i)
        BY <4>1
      <4> QED BY <1>1, <1>3, <3>2, <4>2, QuietCopies DEF FewCopies
    <3> QED BY <3>4, <3>5
  <2> QED BY <1>4, <2>9 DEF FewCopies
<1> QED BY <1>5, <1>6

LEMMA RestFew ==
  ASSUME Frame, Frame', FewCopies, recoverDone \/ destroy \/ stopQueue
  PROVE  FewCopies'
<1>1. /\ files' = files /\ inside' = inside /\ hand' = hand /\ crashes' = crashes
      /\ handled' = handled /\ inside = "none"
      /\ disk'.read_seqno = disk.read_seqno /\ disk'.read_offset = disk.read_offset
  <2>1. mem \in Headers /\ (inside = "none" => SamePlace)
    BY NotAThread DEF Frame, HeaderTypes, Linked
  <2>2. CASE recoverDone
    <3>1. inside = "none"
      BY <2>2 DEF recoverDone, Frame, InStep
    <3> QED BY <2>1, <2>2, <3>1 DEF recoverDone, bounds, history, SamePlace, Headers
  <2>3. CASE destroy
    BY <2>1, <2>3 DEF destroy, closed, bounds, history, SamePlace, Headers
  <2>4. CASE stopQueue
    BY <2>4 DEF stopQueue, history
  <2> QED BY <2>2, <2>3, <2>4
<1>2. \A t \in Threads : pc'[t] = "handle" => pc[t] = "handle"
  <2>1. CASE recoverDone
    BY <2>1 DEF recoverDone, startThreads
  <2>2. CASE destroy
    BY <2>2 DEF destroy
  <2>3. CASE stopQueue
    BY <2>3 DEF stopQueue
  <2> QED BY <2>1, <2>2, <2>3
<1>3. ASSUME NEW i \in Items PROVE Entries(i)' \subseteq Entries(i)
  <2>1. CASE recoverDone
    BY <2>1 DEF recoverDone, Entries
  <2>2. CASE stopQueue
    BY <1>1, <2>2 DEF stopQueue, Entries
  <2>3. CASE destroy
    <3>1. mem \in Headers
      BY DEF Frame, HeaderTypes
    <3>2. disk'.pos = NoPositions
      BY <2>3, <3>1 DEF destroy, closed, Headers
    <3>3. \A t \in Threads : disk'.pos[t].seqno = 0
      BY <3>2 DEF NoPositions, NoPos
    <3> QED BY <3>3 DEF Entries, CopyAt
  <2> QED BY <2>1, <2>2, <2>3
<1>4. ASSUME NEW i \in Items PROVE FewOf(i)'
  <2>1. Records(files, disk, i)' = Records(files, disk, i)
    BY <1>1, SameRecords
  <2>2. Handling(i)' \subseteq Handling(i)
    BY <1>1, <1>2 DEF Handling
  <2> QED BY <1>1, <1>3, <2>1, <2>2, QuietCopies DEF FewCopies
<1> QED BY <1>1, <1>4, NobodySaves, NotAThread DEF FewCopies

LEMMA CrashFew == Frame /\ Frame' /\ FewCopies /\ crash => FewCopies'
<1> SUFFICES ASSUME Frame, Frame', FewCopies, crash PROVE FewCopies'
  OBVIOUS
<1>1. /\ files' = files /\ disk' = disk /\ inside' = "none" /\ crashes' = crashes + 1
      /\ handled' = handled /\ \A t \in Threads : pc'[t] = "off"
  BY DEF crash
<1>2. ASSUME NEW i \in Items PROVE FewOf(i)'
  <2> DEFINE r == Cardinality(Records(files, disk, i))
             e == Cardinality(Entries(i))
             h == Cardinality(Handling(i))
             d == Cardinality(Entries(i)')
             n == Cardinality(Threads)
  <2>1. Handling(i)' = {}
    BY <1>1 DEF Handling
  <2>2. Entries(i)' \subseteq Threads /\ IsFiniteSet(Threads)
    BY FileAssumption DEF Entries
  <2>3. d <= n /\ d \in Nat /\ n \in Nat
    BY <2>2, Fewer
  <2>4. IsFiniteSet(Records(files, disk, i)) /\ Copies(i) <= AtMost
    BY DEF FewCopies, FewOf
  <2>5. r \in Nat /\ e \in Nat /\ h \in Nat /\ handled[i] \in Nat /\ crashes \in Nat
    BY <2>4, CopiesFinite, FS_CardinalityType DEF Frame, OtherTypes
  <2>6. Copies(i)' = handled[i] + r + d + 0
    BY <1>1, <2>1, FS_EmptySet DEF Copies
  <2>7. Copies(i) = handled[i] + r + e + h
    BY DEF Copies
  <2>8. AtMost = 1 + crashes * n /\ AtMost' = 1 + (crashes + 1) * n
    BY <1>1 DEF AtMost
  <2> HIDE DEF r, e, h, d, n
  <2>9. (crashes + 1) * n = crashes * n + n /\ crashes * n \in Nat
    BY <2>3, <2>5
  <2> DEFINE m == crashes * n
  <2> HIDE DEF m
  <2>10. AtMost = 1 + m /\ AtMost' = 1 + (m + n) /\ m \in Nat
    BY <2>8, <2>9 DEF m
  <2>11. Copies(i)' <= AtMost'
    BY <2>3, <2>4, <2>5, <2>6, <2>7, <2>10
  <2> QED BY <1>1, <2>4, <2>11 DEF FewOf
<1> QED BY <1>1, <1>2, NobodySaves, NotAThread DEF FewCopies

LEMMA RotateFew == Frame /\ Frame' /\ FewCopies /\ pushRotate => FewCopies'
<1> SUFFICES ASSUME Frame, Frame', FewCopies, pushRotate PROVE FewCopies'
  OBVIOUS
<1> DEFINE w == mem'.write_seqno
<1>1. /\ proc' = "up" /\ inside = "none" /\ inside' = "writer" /\ pc' = pc /\ hand' = hand
      /\ handled' = handled /\ crashes' = crashes
      /\ \/ files' = files /\ disk' = disk
         \/ files' = created(files, w) /\ disk' = mem'
  BY DEF pushRotate, leaveFull, threads, history
<1>2. /\ FilesOK(files) /\ FilesOK(files') /\ w \in Nat
  BY DEF Frame, HeaderTypes, Headers
<1>3. disk'.read_seqno = disk.read_seqno /\ disk'.read_offset = disk.read_offset
  <2>1. mem'.read_seqno = mem.read_seqno /\ mem'.read_offset = mem.read_offset
    BY RotatedHeader DEF pushRotate, leaveFull, Frame, HeaderTypes
  <2>2. SamePlace
    BY <1>1, NotAThread DEF Frame, Linked
  <2> QED BY <1>1, <2>1, <2>2 DEF SamePlace
<1>4. ASSUME NEW i \in Items PROVE FewOf(i)'
  <2>1. Records(files', disk', i) \subseteq Records(files, disk, i)
    <3>1. CASE files' = files
      BY <1>3, <3>1, SameRecords
    <3>2. CASE files' = created(files, w)
      <4>1. Appended(files, files', w, <<>>)
        BY <1>2, <3>2, CreatedIsAppended
      <4> QED BY <1>2, <1>3, <4>1, NoMoreRecords
    <3> QED BY <1>1, <3>1, <3>2
  <2>2. Entries(i)' = {}
    BY <1>1 DEF Entries
  <2>3. Handling(i)' = Handling(i)
    BY <1>1 DEF Handling
  <2> QED BY <1>1, <2>1, <2>2, <2>3, QuietCopies DEF FewCopies
<1> QED BY <1>1, <1>4, NobodySaves, NotAThread DEF FewCopies

LEMMA RecoverRotateFew == Frame /\ Frame' /\ FewCopies /\ recoverRotate => FewCopies'
<1> SUFFICES ASSUME Frame, Frame', FewCopies, recoverRotate PROVE FewCopies'
  OBVIOUS
<1> DEFINE w == mem'.write_seqno
<1>1. /\ proc = "recover" /\ proc' = proc /\ inside' = inside /\ pc' = pc /\ hand' = hand
      /\ toRecover' = toRecover /\ handled' = handled /\ crashes' = crashes
      /\ mem' = rotated(mem) /\ disk' = mem' /\ files' = created(files, w)
  BY DEF recoverRotate, leaveFull, threads, bounds, history
<1>2. /\ FilesOK(files) /\ FilesOK(files') /\ w \in Nat /\ mem \in Headers /\ disk \in Headers
      /\ Named(files, disk) /\ SamePlace /\ mem.pos = disk.pos /\ inside = "none"
      /\ mem.write_seqno \in DOMAIN files /\ mem.read_seqno <= mem.write_seqno
  BY <1>1, NotAThread DEF Frame, HeaderTypes, Headers, Linked, InStep, Chained
<1>3. /\ disk'.read_seqno = disk.read_seqno /\ disk'.read_offset = disk.read_offset
      /\ disk'.pos = disk.pos
  BY <1>1, <1>2, RotatedHeader DEF SamePlace
<1>4. w = mem.write_seqno \/ w = mem.write_seqno + 1
  BY <1>1, <1>2, RotatedHeader
<1>5. Appended(files, files', w, <<>>)
  BY <1>1, <1>2, CreatedIsAppended
<1>6. Keeps(files, files') /\ DOMAIN files' = DOMAIN files \cup {w}
  BY <1>5 DEF Appended, Grows
<1>7. \A f \in DOMAIN files' \ DOMAIN files : f > disk.read_seqno
  <2>1. disk.read_seqno \in Nat /\ mem.write_seqno \in Nat /\ disk.read_seqno <= mem.write_seqno
    BY <1>2 DEF Headers, SamePlace
  <2>2. ASSUME NEW f \in DOMAIN files' \ DOMAIN files PROVE f = mem.write_seqno + 1
    BY <1>2, <1>4, <1>6
  <2> QED BY <2>1, <2>2
<1>8. ASSUME NEW i \in Items PROVE FewOf(i)'
  <2>1. Records(files', disk', i) \subseteq Records(files, disk, i)
    BY <1>2, <1>3, <1>5, NoMoreRecords
  <2>2. ASSUME NEW s \in Threads, CopyAt(files', disk', disk'.pos[s], i)
        PROVE  CopyAt(files, disk, disk.pos[s], i)
    <3>1. /\ Names(files, disk.pos[s], disk.read_seqno) /\ disk.read_seqno \in Nat
          /\ disk.pos[s] \in [seqno : Nat, offset : Nat]
      BY <1>2 DEF Named, Headers
    <3> QED BY <1>2, <1>3, <1>6, <1>7, <2>2, <3>1, CopyWasThere
  <2>3. Entries(i)' \subseteq Entries(i)
    BY <1>1, <2>2 DEF Entries
  <2>4. Handling(i)' = Handling(i)
    BY <1>1 DEF Handling
  <2> QED BY <1>1, <2>1, <2>3, <2>4, QuietCopies DEF FewCopies
<1> QED BY <1>1, <1>2, <1>8, NobodySaves, NotAThread DEF FewCopies

\* The first copy of an item.
LEMMA WriteFew == Frame /\ Frame' /\ FewCopies /\ Written /\ pushWrite => FewCopies'
<1> SUFFICES ASSUME Frame, Frame', FewCopies, Written, pushWrite PROVE FewCopies'
  OBVIOUS
<1> DEFINE w == mem.write_seqno
<1>1. /\ inside = "writer" /\ inside' = "none" /\ disk' = disk /\ hand' = hand
      /\ proc' = proc /\ handled' = handled /\ crashes' = crashes
  BY DEF pushWrite
<1>2. PICK outcome \in {"whole", "short", "none"} :
        files' = append(files, mem, pushed, pushed, outcome)
  BY Zenon DEF pushWrite, outcomes
<1>3. /\ mem \in Headers /\ disk \in Headers /\ FilesOK(files) /\ proc = "up"
      /\ pushed \in Items /\ pushed \in Payloads /\ w \in Nat /\ pushed \notin accepted
      /\ pushed # 0
  <2>1. mem \in Headers /\ disk \in Headers /\ FilesOK(files)
    BY DEF Frame, HeaderTypes
  <2>2. proc = "up" /\ pushed > 0
    BY <1>1 DEF Frame, InStep, OtherTypes
  <2>3. pushed \in Items /\ pushed \in Payloads /\ pushed # 0
    <3>1. pushed \in 0..MaxPush
      BY DEF Frame, OtherTypes
    <3>2. pushed \in Items /\ pushed # 0
      BY <2>2, <3>1, FileAssumption DEF Items
    <3> QED BY <3>2, ItemsArePayloads
  <2>4. w \in Nat
    BY <2>1 DEF Headers
  <2> QED BY <1>1, <2>1, <2>2, <2>3, <2>4 DEF Written
<1> DEFINE new == units(pushed, pushed, outcome)
<1>4. /\ Len(new) \in {0, 1, 2}
      /\ \A k \in 1..Len(new) : new[k].part = "tail" =>
           k = 2 /\ outcome = "whole" /\ new[k].item = pushed /\ new[1].item = pushed
      /\ Len(new) > 0 => new[1].part = "head"
  BY UnitsWritten
<1>5. Appended(files, files', w, new)
  BY <1>2, <1>3, AppendedFile
<1>6. \A t \in Threads : pc'[t] = "handle" => pc[t] = "handle"
  BY DEF pushWrite, signal, Frame, ThreadTypes
<1> HIDE DEF new
<1>7. ASSUME NEW i \in Items PROVE FewOf(i)'
  <2>1. Entries(i) = {} /\ Entries(i)' = {}
    BY <1>1, <1>3 DEF Entries
  <2>2. Handling(i)' \subseteq Handling(i)
    BY <1>1, <1>6 DEF Handling
  <2>3. CASE i # pushed
    <3>1. ASSUME NEW r \in Records(files', disk', i) PROVE r \in Records(files, disk, i)
      <4>1. ASSUME Len(new) = 2, new[1].item = i, new[2].item = i, new[2].part = "tail"
            PROVE  FALSE
        <5>1. 2 \in 1..Len(new)
          BY <4>1
        <5> QED BY <1>4, <2>3, <4>1, <5>1
      <4> QED BY <1>1, <1>3, <1>4, <1>5, <4>1, RecordsAppended
    <3>2. Records(files, disk, i)' \subseteq Records(files, disk, i)
      BY <3>1
    <3> QED BY <1>1, <2>1, <2>2, <3>2, QuietCopies DEF FewCopies
  <2>4. CASE i = pushed
    <3> DEFINE c == <<w, End(files, w) + 1>>
    <3>1. Records(files, disk, i) = {}
      <4> SUFFICES ASSUME NEW r \in Records(files, disk, i) PROVE FALSE
        OBVIOUS
      <4>1. PICK f \in DOMAIN files, k \in Nat : RecordAt(files, disk, i, f, k)
        BY RecordsAre
      <4>2. k + 1 \in 1..Len(files[f]) /\ files[f][k + 1].part = "tail" /\ files[f][k + 1].item = i
        BY <4>1 DEF RecordAt
      <4>3. i \in accepted \cup {0}
        BY <4>2 DEF Written, Tails
      <4> QED BY <1>3, <2>4, <4>3
    <3>2. Handling(i) = {}
      <4> SUFFICES ASSUME NEW t \in Handling(i) PROVE FALSE
        OBVIOUS
      <4>1. t \in Threads /\ hand[t] = <<i, i>>
        BY DEF Handling
      <4>2. hand[t] # <<>> /\ hand[t][2] = i
        BY <4>1
      <4>3. i \in accepted \cup {0}
        BY <4>1, <4>2 DEF Written
      <4> QED BY <1>3, <2>4, <4>3
    <3>3. handled[i] = 0
      BY <1>3, <2>4 DEF Written, Frame, OtherTypes
    <3>4. \A r \in Records(files', disk', i) : r \in Records(files, disk, i) \/ r = c
      BY <1>1, <1>3, <1>4, <1>5, RecordsAppended
    <3>5. Records(files', disk', i) \subseteq {} \cup {c}
      BY <3>1, <3>4
    <3>6. IsFiniteSet({}) /\ Cardinality({}) = 0
      BY FS_EmptySet
    <3>7. /\ IsFiniteSet(Records(files', disk', i)) /\ Cardinality(Records(files', disk', i)) \in Nat
          /\ Cardinality(Records(files', disk', i)) <= 0 + 1
      BY <3>5, <3>6, OneMore
    <3>8. Handling(i)' = {}
      BY <2>2, <3>2
    <3>9. Copies(i)' = 0 + Cardinality(Records(files', disk', i)) + 0 + 0
      BY <1>1, <2>1, <3>3, <3>6, <3>8 DEF Copies
    <3>10. 1 <= AtMost'
      <4>1. crashes' \in Nat /\ Cardinality(Threads) \in Nat
        BY CopiesFinite DEF Frame, OtherTypes
      <4>2. crashes' * Cardinality(Threads) \in Nat
        BY <4>1
      <4> QED BY <4>2 DEF AtMost
    <3>11. AtMost' \in Nat
      <4>1. crashes' \in Nat /\ Cardinality(Threads) \in Nat
        BY CopiesFinite DEF Frame, OtherTypes
      <4> QED BY <4>1 DEF AtMost
    <3> HIDE DEF c
    <3>12. Copies(i)' <= AtMost'
      BY <3>7, <3>9, <3>10, <3>11
    <3> QED BY <3>7, <3>12 DEF FewOf
  <2> QED BY <2>3, <2>4
<1> QED BY <1>1, <1>7, NobodySaves, NotAThread DEF FewCopies

LEMMA RunFew ==
  ASSUME Frame, Frame', FewCopies, NEW t \in Threads, runLocked(t)
  PROVE  FewCopies'
<1>1. /\ inside = "none" /\ pc[t] \in {"start", "woken", "finish"}
      /\ proc' = proc /\ disk' = disk /\ crashes' = crashes /\ handled' = handled
      /\ RunStays(t) \/ \E f, o \in Nat : \E x : RunPops(t, f, o, x)
  BY RunCases
<1>2. /\ proc = "up" /\ SamePlace /\ FilesOK(files) /\ FilesOK(files')
      /\ \A s \in Threads : pc[s] # "save"
  BY <1>1, NotAThread DEF Frame, InStep, OtherTypes, Linked, ThreadInStep
<1>3. \A s \in Threads : /\ pc'[s] = "handle" => pc[s] = "handle" /\ s # t
                         /\ s # t => hand'[s] = hand[s] /\ pc'[s] = pc[s]
  BY <1>1 DEF RunStays, RunPops, Frame, ThreadTypes
<1>4. \A i : Entries(i)' = {} /\ Handling(i)' \subseteq Handling(i)
  BY <1>1, <1>2, <1>3 DEF Entries, Handling
<1>5. CASE RunStays(t)
  <2>1. files' = files /\ \A s \in Threads : pc'[s] # "save"
    BY <1>2, <1>3, <1>5 DEF RunStays, Frame, ThreadTypes
  <2>2. \A i \in Items : FewOf(i)'
    BY <1>1, <1>4, <2>1, QuietCopies DEF FewCopies
  <2> QED BY <2>1, <2>2 DEF FewCopies, PopLeaves
<1>6. CASE \E f, o \in Nat : \E x : RunPops(t, f, o, x)
  <2>1. PICK f, o \in Nat : \E x : RunPops(t, f, o, x)
    BY <1>6
  <2>1a. PICK x : RunPops(t, f, o, x)
    BY <2>1
  <2> DEFINE h == Found(t)
  <2>2. /\ PopResult(t, h, f, o, mem', files', x) /\ h \in Headers
        /\ h.read_seqno = disk.read_seqno /\ h.read_offset = disk.read_offset
        /\ hand'[t] = x
    BY <1>2, <2>1a, FoundHeader DEF RunPops, SamePlace, Frame, ThreadTypes
  <2> HIDE DEF h
  <2>3. ASSUME NEW i \in Items
        PROVE  /\ Records(files', disk, i) \subseteq Records(files, disk, i)
               /\ Records(files', mem', i) \subseteq Records(files', disk, i)
               /\ x = <<i, i>> => \E c \in Records(files', disk, i) : c \notin Records(files', mem', i)
    <3>1. /\ Records(files', h, i) \subseteq Records(files, h, i)
          /\ Records(files', mem', i) \subseteq Records(files', h, i)
          /\ x = <<i, i>> => \E c \in Records(files', h, i) : c \notin Records(files', mem', i)
      BY <1>2, <2>2, RecordsPopped
    <3>2. /\ Records(files', h, i) = Records(files', disk, i)
          /\ Records(files, h, i) = Records(files, disk, i)
      BY <2>2, SameRecords
    <3> QED BY <3>1, <3>2
  <2>4. \A i \in Items : FewOf(i)'
    BY <1>1, <1>4, <2>3, QuietCopies DEF FewCopies
  <2>5. ASSUME NEW s \in Threads PROVE PopLeaves(s)'
    <3>1. pc'[s] = "save" => s = t
      BY <1>2, <1>3
    <3> QED BY <1>1, <2>2, <2>3, <3>1 DEF PopLeaves
  <2> QED BY <2>4, <2>5 DEF FewCopies
<1> QED BY <1>1, <1>5, <1>6

LEMMA SaveFew ==
  ASSUME Frame, Frame', FewCopies, NEW t \in Threads, saveHead(t)
  PROVE  FewCopies'
<1>1. /\ pc[t] = "save" /\ disk' = mem /\ files' = files /\ hand' = hand /\ inside' = "none"
      /\ proc' = proc /\ handled' = handled /\ crashes' = crashes
      /\ pc' = [pc EXCEPT ![t] = got(t)]
  BY DEF saveHead, bounds, history
<1>2. /\ proc = "up" /\ pc \in [Threads -> Pcs]
      /\ hand \in [Threads -> {<<>>} \cup Items \X Payloads]
  BY <1>1, NotAThread DEF Frame, InStep, OtherTypes, ThreadTypes, ThreadInStep
<1>3. \A i : Entries(i) = {} /\ Entries(i)' = {}
  BY <1>1, <1>2 DEF Entries
<1>4. \A s \in Threads : /\ s # t => pc'[s] = pc[s]
                         /\ s = t => pc'[s] = got(t)
  BY <1>1, <1>2
<1>5. ASSUME NEW i \in Items PROVE FewOf(i)'
  <2>1. Records(files, mem, i) \subseteq Records(files, disk, i) /\ FewOf(i)
    BY <1>1 DEF FewCopies, PopLeaves
  <2>2. CASE hand[t] # <<i, i>>
    <3>1. Handling(i)' \subseteq Handling(i)
      BY <1>1, <1>4, <2>2 DEF Handling
    <3>2. Records(files, disk, i)' \subseteq Records(files, disk, i)
      BY <1>1, <2>1
    <3> QED BY <1>1, <1>3, <2>1, <3>1, <3>2, QuietCopies
  <2>3. CASE hand[t] = <<i, i>>
    <3>1. PICK c \in Records(files, disk, i) : c \notin Records(files, mem, i)
      BY <1>1, <2>3 DEF FewCopies, PopLeaves
    <3>2. IsFiniteSet(Records(files, disk, i))
      BY <2>1 DEF FewOf
    <3>3. /\ IsFiniteSet(Records(files, mem, i))
          /\ Cardinality(Records(files, mem, i)) + 1 <= Cardinality(Records(files, disk, i))
      BY <2>1, <3>1, <3>2, Fewer, OneLess
    <3>4. Handling(i)' \subseteq Handling(i) \cup {t}
      BY <1>1, <1>4 DEF Handling
    <3>5. Cardinality(Handling(i)') <= Cardinality(Handling(i)) + 1
      BY <3>4, CopiesFinite, OneMore
    <3>6. Cardinality(Entries(i)') <= Cardinality(Entries(i))
      BY <1>3, FS_EmptySet
    <3>7. Records(files, disk, i)' = Records(files, mem, i)
      BY <1>1
    <3> QED BY <1>1, <2>1, <3>3, <3>5, <3>6, <3>7, MovedCopy
  <2> QED BY <2>2, <2>3
<1> QED BY <1>1, <1>5, NobodySaves, NotAThread DEF FewCopies

LEMMA HandleFew ==
  ASSUME Frame, Frame', FewCopies, NEW t \in Threads, handleQueue(t)
  PROVE  FewCopies'
<1>1. /\ pc[t] = "handle" /\ disk' = disk /\ mem' = mem /\ files' = files /\ hand' = hand
      /\ proc' = proc /\ toRecover' = toRecover /\ crashes' = crashes
      /\ pc' = [pc EXCEPT ![t] = "finish"]
  BY DEF handleQueue, bounds
<1>2. /\ hand[t] # <<>> /\ hand[t] \in Items \X Payloads /\ handled \in [Items -> Nat]
      /\ pc \in [Threads -> Pcs]
  BY <1>1 DEF Frame, ThreadTypes, OtherTypes
<1>3. \A s \in Threads : pc'[s] = IF s = t THEN "finish" ELSE pc[s]
  BY <1>1, <1>2
<1>4. ASSUME NEW s \in Threads PROVE PopLeaves(s)'
  <2>1. PopLeaves(s) /\ (pc'[s] = "save" => pc[s] = "save")
    BY <1>3 DEF FewCopies
  <2> QED BY <1>1, <2>1 DEF PopLeaves
<1>5. ASSUME NEW i \in Items PROVE FewOf(i)'
  <2>1. /\ Entries(i)' = Entries(i) /\ Records(files, disk, i)' = Records(files, disk, i)
        /\ Handling(i)' \subseteq Handling(i) /\ t \notin Handling(i)' /\ FewOf(i)
    BY <1>1, <1>3 DEF Entries, Handling, FewCopies
  <2>2. CASE hand[t] = <<i, i>>
    <3>1. handled' = [handled EXCEPT ![i] = @ + 1]
      BY <2>2 DEF handleQueue
    <3>2. handled'[i] = handled[i] + 1
      BY <1>2, <3>1
    <3>3. t \in Handling(i)
      BY <1>1, <2>2 DEF Handling
    <3>4. Cardinality(Handling(i)') + 1 <= Cardinality(Handling(i))
      BY <2>1, <3>3, CopiesFinite, OneLess
    <3>5. IsFiniteSet(Records(files, disk, i))
      BY <2>1 DEF FewOf
    <3>6. /\ Cardinality(Records(files, disk, i)') <= Cardinality(Records(files, disk, i))
          /\ Cardinality(Entries(i)') <= Cardinality(Entries(i))
      BY <2>1, <3>5, CopiesFinite, FS_CardinalityType
    <3> QED BY <1>1, <2>1, <3>2, <3>4, <3>5, <3>6, MovedCopy
  <2>3. CASE hand[t] # <<i, i>>
    <3>1. handled'[i] = handled[i]
      <4>1. CASE hand[t][1] = hand[t][2]
        <5>1. handled' = [handled EXCEPT ![hand[t][1]] = @ + 1]
          BY <4>1 DEF handleQueue
        <5>2. hand[t][1] # i
          BY <1>2, <2>3, <4>1
        <5> QED BY <1>2, <5>1, <5>2
      <4>2. CASE hand[t][1] # hand[t][2]
        BY <4>2 DEF handleQueue
      <4> QED BY <4>1, <4>2
    <3> QED BY <1>1, <2>1, <3>1, QuietCopies
  <2> QED BY <2>2, <2>3
<1> QED BY <1>4, <1>5 DEF FewCopies

LEMMA StutterFew == Frame /\ FewCopies /\ UNCHANGED vars => FewCopies'
<1> SUFFICES ASSUME Frame, FewCopies, UNCHANGED vars PROVE FewCopies'
  OBVIOUS
<1>1. /\ proc' = proc /\ mem' = mem /\ disk' = disk /\ files' = files /\ pc' = pc /\ hand' = hand
      /\ toRecover' = toRecover /\ handled' = handled /\ crashes' = crashes
  BY DEF vars, threads, history, bounds
<1>2. \A i \in Items : FewOf(i)'
  BY <1>1 DEF FewCopies, FewOf, Copies, AtMost, Entries, Handling
<1>3. \A t \in Threads : PopLeaves(t)'
  BY <1>1 DEF FewCopies, PopLeaves
<1> QED BY <1>2, <1>3 DEF FewCopies

LEMMA FewKept == Frame /\ Frame' /\ Written /\ FewCopies /\ [Next]_vars => FewCopies'
<1> SUFFICES ASSUME Frame, Frame', Written, FewCopies, [Next]_vars PROVE FewCopies'
  OBVIOUS
<1>1. CASE \E t \in Threads : recoverOne(t) \/ thread(t)
  BY <1>1, RecoverFew, RunFew, SaveFew, HandleFew DEF thread
<1>2. CASE Terminated \/ UNCHANGED vars
  BY <1>2, StutterFew DEF Terminated
<1>3. CASE open \/ recoverRotate \/ recoverDone \/ destroy \/ crash \/ pushRotate \/ pushWrite
           \/ stopQueue
  BY <1>3, OpenFew, RecoverRotateFew, RestFew, CrashFew, RotateFew, WriteFew
<1> QED BY <1>1, <1>2, <1>3 DEF Next

LEMMA CountIsBounded == Frame /\ Written /\ FewCopies => OncePerRun
<1> SUFFICES ASSUME Frame, Written, FewCopies, NEW i \in Items
             PROVE  handled[i] <= IF i \in accepted THEN AtMost ELSE 0
  BY DEF OncePerRun, AtMost
<1>1. handled[i] \in Nat /\ (i \notin accepted => handled[i] = 0)
  BY DEF Frame, OtherTypes, Written
<1> DEFINE r == Cardinality(Records(files, disk, i))
           e == Cardinality(Entries(i))
           h == Cardinality(Handling(i))
<1>2. r \in Nat /\ e \in Nat /\ h \in Nat
  BY CopiesFinite, FS_CardinalityType DEF FewCopies, FewOf
<1>3. handled[i] + r + e + h <= AtMost
  BY DEF FewCopies, FewOf, Copies
<1>4. AtMost \in Nat
  <2>1. crashes \in Nat /\ Cardinality(Threads) \in Nat
    BY CopiesFinite DEF Frame, OtherTypes
  <2> QED BY <2>1 DEF AtMost
<1> HIDE DEF r, e, h
<1>5. handled[i] <= AtMost
  BY <1>1, <1>2, <1>3, <1>4
<1> QED BY <1>1, <1>5

\* Short writes or not: the handler gets a whole item once, and at most once more
\* per thread for each crash; an item that push did not accept it never gets.
THEOREM HandledFewTimes == Spec => []OncePerRun
<1> DEFINE Inv == Frame /\ Written /\ FewCopies
<1>1. Init => Inv
  BY InitFrame, InitWritten, InitFew
<1>2. Inv /\ [Next]_vars => Inv'
  BY FrameKept, WrittenKept, FewKept
<1>3. Inv => OncePerRun
  BY CountIsBounded
<1> QED BY <1>1, <1>2, <1>3, PTL DEF Spec

-----------------------------------------------------------------------------
(* The second invariant, for as long as no write was short: records are whole, *)
(* readers stand between records, and no accepted item is out of reach        *)

\* A head is followed by its tail, and a tail follows a head.
Paired(fs) ==
  \A f \in DOMAIN fs : \A k \in 1..Len(fs[f]) :
    /\ fs[f][k].part = "head" =>
         /\ k + 1 \in 1..Len(fs[f])
         /\ fs[f][k + 1].part = "tail" /\ fs[f][k + 1].item = fs[f][k].item
    /\ fs[f][k].part = "tail" => k - 1 \in 1..Len(fs[f]) /\ fs[f][k - 1].part = "head"

\* The reader at h stands before a record or at the end of a file, and no file
\* between it and the last one is empty.
Readable(fs, h) ==
  /\ h.read_seqno \in DOMAIN fs
  /\ h.read_offset <= Len(fs[h.read_seqno])
  /\ h.read_offset < Len(fs[h.read_seqno]) =>
       fs[h.read_seqno][h.read_offset + 1].part = "head"
  /\ \A f \in DOMAIN fs : h.read_seqno < f /\ f < h.write_seqno => Len(fs[f]) > 0

\* A tail of item i is before the reader at h.
Lies(fs, h, i, f, k) ==
  /\ f \in DOMAIN fs /\ k \in 1..Len(fs[f]) /\ fs[f][k].part = "tail" /\ fs[f][k].item = i
  /\ h.read_seqno <= f /\ (f = h.read_seqno => h.read_offset < k)

Before(fs, h, i) == \E f, k \in Nat : Lies(fs, h, i, f, k)

\* The entry p of a header that h reads on from names item i.
Holds(fs, h, p, i) ==
  /\ p.seqno # 0
  /\ p.seqno = h.read_seqno => p.offset < h.read_offset
  /\ p.seqno \in DOMAIN fs => fs[p.seqno][p.offset + 1].item = i

HandSound(t) ==
  /\ hand[t] # <<>> => hand[t][1] = hand[t][2]
  /\ pc[t] = "finish" => handled[hand[t][1]] > 0
  /\ pc[t] \in {"save", "handle"} /\ hand[t] # <<>> =>
       Holds(files, mem, mem.pos[t], hand[t][1])
  /\ pc[t] = "handle" => /\ disk.pos[t] = mem.pos[t] /\ disk.exit_status = 0
                         /\ Holds(files, disk, disk.pos[t], hand[t][1])
  /\ pc[t] = "save" =>
       \A i \in Items : Before(files, mem, i) \/ (hand[t] # <<>> /\ hand[t][1] = i) =>
                          Before(files, disk, i)

FilesSound ==
  /\ Paired(files)
  /\ Unopened \/ (Readable(files, disk) /\ Readable(files, mem))
  /\ proc # "down" /\ mem.write_filesize > 0 => Len(files[mem.write_seqno]) > 0
  /\ proc = "up" => mem.exit_status = 0

InHand(i) == \E t \in Threads : hand[t] # <<>> /\ hand[t][1] = i

\* The recovery finds item i at the entry p.
Entry(fs, h, p, i) ==
  /\ p.seqno # 0 /\ p.seqno <= h.read_seqno /\ p.offset < h.read_offset
  /\ p.seqno \in DOMAIN fs /\ fs[p.seqno][p.offset + 1].item = i

\* One of the entries that the recovery has still to look at names item i.
Recoverable(i) ==
  /\ proc # "up" /\ disk.exit_status = 0
  /\ \E t \in Threads : /\ proc = "recover" => t \in toRecover
                        /\ Entry(files, disk, disk.pos[t], i)

ItemKept(i) ==
  handled[i] > 0 \/ Before(files, mem, i) \/ InHand(i) \/ Recoverable(i)

Sound ==
  /\ FilesSound
  /\ \A t \in Threads : HandSound(t)
  /\ \A i \in accepted \ knownLost : ItemKept(i)

LEMMA UnreadIs ==
  ASSUME FilesOK(files), NEW h \in Headers, NEW i
  PROVE  i \in unread(h) <=> Before(files, h, i)
<1>0. h.read_seqno \in Nat /\ h.read_offset \in Nat
  BY DEF Headers
<1>1. \A f \in DOMAIN files : f \in Nat /\ files[f] \in Seq(Units) /\ Len(files[f]) \in Nat
  BY LenProperties DEF FilesOK
<1>2. ASSUME NEW f \in DOMAIN files
      PROVE  /\ f # h.read_seqno => unreadIn(h, f) = files[f]
             /\ f = h.read_seqno =>
                  /\ h.read_offset < Len(files[f]) =>
                       /\ DOMAIN unreadIn(h, f) = 1..(Len(files[f]) - h.read_offset)
                       /\ \A k \in 1..(Len(files[f]) - h.read_offset) :
                            unreadIn(h, f)[k] = files[f][h.read_offset + k]
                  /\ ~(h.read_offset < Len(files[f])) => DOMAIN unreadIn(h, f) = {}
  <2> DEFINE s == files[f]
             o == h.read_offset
             u == SubSeq(s, o + 1, Len(s))
  <2>1. s \in Seq(Units) /\ Len(s) \in Nat /\ o \in Nat
    BY <1>0, <1>1
  <2>2. CASE f = h.read_seqno /\ o < Len(s)
    <3>1. unreadIn(h, f) = u
      BY <2>2 DEF unreadIn
    <3>2. \A k \in (o + 1)..Len(s) : s[k] \in Units
      BY <2>1
    <3> HIDE DEF s, o
    <3>3. /\ u \in Seq(Units) /\ Len(u) = Len(s) - (o + 1) + 1
          /\ \A k \in 1..(Len(s) - (o + 1) + 1) : u[k] = s[o + 1 + k - 1]
      <4>1. o + 1 \in Int /\ Len(s) \in Int /\ o + 1 <= Len(s)
        BY <2>1, <2>2
      <4>2. /\ u \in Seq(Units)
            /\ Len(u) = IF o + 1 <= Len(s) THEN Len(s) - (o + 1) + 1 ELSE 0
            /\ \A k \in 1..(Len(s) - (o + 1) + 1) : u[k] = s[o + 1 + k - 1]
        BY <4>1, <3>2, SubSeqProperties
      <4> HIDE DEF u
      <4> QED BY <4>1, <4>2
    <3> HIDE DEF u
    <3>4. DOMAIN u = 1..Len(u)
      BY <3>3, LenProperties
    <3>5. Len(s) - (o + 1) + 1 = Len(s) - o /\ \A k \in Nat : o + 1 + k - 1 = o + k
      BY <2>1
    <3>6. DOMAIN u = 1..(Len(s) - o) /\ \A k \in 1..(Len(s) - o) : u[k] = s[o + k]
      BY <2>1, <3>3, <3>4, <3>5
    <3> QED BY <2>2, <3>1, <3>6 DEF s, o
  <2>3. CASE f = h.read_seqno /\ ~(o < Len(s))
    <3>1. unreadIn(h, f) = u
      BY <2>3 DEF unreadIn
    <3>2. o + 1 \in Int /\ Len(s) \in Int /\ Len(s) < o + 1
      BY <2>1, <2>3
    <3> HIDE DEF o, s
    <3>3. u = <<>>
      BY <3>2, SubSeqEmpty
    <3> HIDE DEF u
    <3>4. DOMAIN u = {}
      BY <3>3
    <3> QED BY <2>3, <3>1, <3>4 DEF o, s
  <2>4. CASE f # h.read_seqno
    BY <2>4 DEF unreadIn
  <2> QED BY <2>2, <2>3, <2>4
<1>3. i \in unread(h) <=>
        \E f \in DOMAIN files : /\ f >= h.read_seqno
                                /\ \E k \in DOMAIN unreadIn(h, f) :
                                     /\ unreadIn(h, f)[k].part = "tail"
                                     /\ unreadIn(h, f)[k].item = i
  <2> DEFINE F == {g \in DOMAIN files : g >= h.read_seqno}
             V(f) == {unreadIn(h, f)[k] : k \in DOMAIN unreadIn(h, f)}
             U == UNION {V(f) : f \in F}
             T == {v \in U : v.part = "tail"}
  <2>1. unread(h) = {u.item : u \in T}
    BY Zenon DEF unread
  <2>2. i \in unread(h) <=> \E u \in U : u.part = "tail" /\ u.item = i
    BY <2>1
  <2>3. \A u : u \in U <=> \E f \in F : u \in V(f)
    OBVIOUS
  <2>4. \A f, u : u \in V(f) <=> \E k \in DOMAIN unreadIn(h, f) : u = unreadIn(h, f)[k]
    OBVIOUS
  <2> HIDE DEF U, V
  <2>5. i \in unread(h) <=> \E f \in F : \E u \in V(f) : u.part = "tail" /\ u.item = i
    BY <2>2, <2>3
  <2>6. \A f : (\E u \in V(f) : u.part = "tail" /\ u.item = i) <=>
               (\E k \in DOMAIN unreadIn(h, f) : /\ unreadIn(h, f)[k].part = "tail"
                                                 /\ unreadIn(h, f)[k].item = i)
    BY <2>4
  <2> QED BY <2>5, <2>6
<1>4. ASSUME NEW f \in DOMAIN files, f >= h.read_seqno, NEW k \in DOMAIN unreadIn(h, f),
             unreadIn(h, f)[k].part = "tail", unreadIn(h, f)[k].item = i
      PROVE  Before(files, h, i)
  <2>1. CASE f # h.read_seqno
    <3>1. k \in DOMAIN files[f] /\ files[f][k].part = "tail" /\ files[f][k].item = i
      BY <1>2, <1>4, <2>1
    <3>2. k \in 1..Len(files[f]) /\ k \in Nat
      BY <1>1, <3>1, LenProperties
    <3>3. Lies(files, h, i, f, k)
      BY <1>0, <1>1, <1>4, <2>1, <3>1, <3>2 DEF Lies
    <3> QED BY <1>1, <3>2, <3>3 DEF Before
  <2>2. CASE f = h.read_seqno
    <3>1. h.read_offset < Len(files[f])
      BY <1>2, <1>4, <2>2
    <3>2. k \in 1..(Len(files[f]) - h.read_offset)
      BY <1>2, <1>4, <2>2, <3>1
    <3>3. unreadIn(h, f)[k] = files[f][h.read_offset + k]
      BY <1>2, <2>2, <3>1, <3>2
    <3> DEFINE l == h.read_offset + k
    <3>4. l \in Nat /\ l \in 1..Len(files[f]) /\ h.read_offset < l
      BY <1>0, <1>1, <3>2
    <3> HIDE DEF l
    <3>5. files[f][l].part = "tail" /\ files[f][l].item = i
      BY <1>4, <3>3 DEF l
    <3>6. Lies(files, h, i, f, l)
      BY <1>0, <2>2, <3>4, <3>5 DEF Lies
    <3> QED BY <1>1, <3>4, <3>6 DEF Before
  <2> QED BY <2>1, <2>2
<1>5. ASSUME NEW f \in Nat, NEW k \in Nat, Lies(files, h, i, f, k)
      PROVE  \E l \in DOMAIN unreadIn(h, f) : /\ unreadIn(h, f)[l].part = "tail"
                                              /\ unreadIn(h, f)[l].item = i
  <2>1. /\ f \in DOMAIN files /\ k \in 1..Len(files[f]) /\ files[f][k].part = "tail"
        /\ files[f][k].item = i
    BY <1>5 DEF Lies
  <2>2. CASE f # h.read_seqno
    <3>1. k \in DOMAIN files[f]
      BY <1>1, <2>1, LenProperties
    <3> QED BY <1>2, <2>1, <2>2, <3>1
  <2>3. CASE f = h.read_seqno
    <3>1. h.read_offset < k
      BY <1>5, <2>3 DEF Lies
    <3> DEFINE l == k - h.read_offset
    <3>2. l \in 1..(Len(files[f]) - h.read_offset) /\ h.read_offset + l = k
      BY <1>0, <1>1, <2>1, <3>1
    <3>3. h.read_offset < Len(files[f])
      BY <1>0, <1>1, <2>1, <3>1
    <3> HIDE DEF l
    <3>4. l \in DOMAIN unreadIn(h, f) /\ unreadIn(h, f)[l] = files[f][k]
      BY <1>2, <2>1, <2>3, <3>2, <3>3
    <3> QED BY <2>1, <3>4
  <2> QED BY <2>2, <2>3
<1>6. ASSUME Before(files, h, i) PROVE i \in unread(h)
  <2>1. PICK f, k \in Nat : Lies(files, h, i, f, k)
    BY <1>6 DEF Before
  <2>2. f \in DOMAIN files /\ f >= h.read_seqno
    BY <1>0, <2>1 DEF Lies
  <2> QED BY <1>3, <1>5, <2>1, <2>2
<1> QED BY <1>3, <1>4, <1>6

\* What is before a reader stays so while the files from its own on are kept.
LEMMA BeforeKept ==
  ASSUME NEW fs, NEW gs, FilesOK(fs), FilesOK(gs), Keeps(fs, gs),
         NEW h \in Headers, NEW g \in Headers,
         g.read_seqno = h.read_seqno, g.read_offset = h.read_offset,
         \A f \in DOMAIN fs : h.read_seqno <= f => f \in DOMAIN gs,
         NEW i, Before(fs, h, i)
  PROVE  Before(gs, g, i)
<1>1. PICK f, k \in Nat : Lies(fs, h, i, f, k)
  BY DEF Before
<1>2. /\ f \in DOMAIN fs /\ f \in DOMAIN gs /\ k \in 1..Len(fs[f])
      /\ fs[f][k].part = "tail" /\ fs[f][k].item = i
      /\ h.read_seqno <= f /\ (f = h.read_seqno => h.read_offset < k)
  BY <1>1 DEF Lies
<1>3. Len(fs[f]) <= Len(gs[f]) /\ gs[f][k] = fs[f][k]
  BY <1>2 DEF Keeps
<1>4. Len(fs[f]) \in Nat /\ Len(gs[f]) \in Nat
  BY <1>2, LenProperties DEF FilesOK
<1>5. k \in 1..Len(gs[f])
  BY <1>2, <1>3, <1>4
<1>6. Lies(gs, g, i, f, k)
  BY <1>2, <1>3, <1>5 DEF Lies
<1> QED BY <1>6 DEF Before

\* Nothing, or one whole record.
Whole(s, i) ==
  /\ Len(s) = 2 /\ s[1].part = "head" /\ s[1].item = i
  /\ s[2].part = "tail" /\ s[2].item = i
NoneOrWhole(s) == s = <<>> \/ \E i \in Items : Whole(s, i)

LEMMA WrittenUnits ==
  ASSUME NEW i \in Items, NEW outcome \in {"whole", "none"}
  PROVE  /\ NoneOrWhole(units(i, i, outcome))
         /\ outcome = "whole" => Whole(units(i, i, outcome), i)
         /\ outcome = "none" => units(i, i, outcome) = <<>>
BY DEF NoneOrWhole, Whole, units

LEMMA AppendedPaired ==
  ASSUME NEW fs, NEW gs, NEW w \in Nat, NEW s, FilesOK(fs), Appended(fs, gs, w, s),
         NoneOrWhole(s), Paired(fs)
  PROVE  Paired(gs)
<1> DEFINE n == End(fs, w)
           Pair(q, k) ==
             /\ q[k].part = "head" =>
                  /\ k + 1 \in 1..Len(q) /\ q[k + 1].part = "tail" /\ q[k + 1].item = q[k].item
             /\ q[k].part = "tail" => k - 1 \in 1..Len(q) /\ q[k - 1].part = "head"
<1>1. n \in Nat /\ (w \in DOMAIN fs => n = Len(fs[w])) /\ (w \notin DOMAIN fs => n = 0)
  BY AppendedUnits DEF End, Extended
<1>2. /\ w \in DOMAIN gs /\ Len(s) \in Nat /\ Len(gs[w]) = n + Len(s)
      /\ w \in DOMAIN fs => \A k \in 1..n : gs[w][k] = fs[w][k]
      /\ \A k \in 1..Len(s) : gs[w][n + k] = s[k]
  <2>1. Extended(fs, gs, w, s)
    BY AppendedUnits
  <2> QED BY <2>1 DEF Extended
<1> HIDE DEF n
<1>3. \A f \in DOMAIN gs \ {w} : f \in DOMAIN fs /\ gs[f] = fs[f]
  BY DEF Appended
<1>4. ASSUME NEW f \in DOMAIN gs, f # w, NEW k \in 1..Len(gs[f]) PROVE Pair(gs[f], k)
  <2>1. f \in DOMAIN fs /\ gs[f] = fs[f]
    BY <1>3, <1>4
  <2>2. Pair(fs[f], k)
    BY <1>4, <2>1 DEF Paired
  <2> QED BY <2>1, <2>2
<1>5. ASSUME NEW k \in 1..n PROVE Pair(gs[w], k)
  <2>1. w \in DOMAIN fs /\ n = Len(fs[w])
    BY <1>1
  <2>2. Pair(fs[w], k)
    BY <2>1 DEF Paired
  <2>3. \A l \in 1..n : gs[w][l] = fs[w][l]
    BY <1>2, <2>1
  <2>4. \A l \in 1..n : l \in 1..Len(gs[w])
    BY <1>1, <1>2
  <2> QED BY <2>1, <2>2, <2>3, <2>4
<1>6. ASSUME NEW k \in 1..Len(gs[w]), k \notin 1..n PROVE Pair(gs[w], k)
  <2>1. PICK i \in Items : Whole(s, i)
    <3>1. s # <<>>
      BY <1>1, <1>2, <1>6
    <3> QED BY <3>1 DEF NoneOrWhole
  <2>2. Len(gs[w]) = n + 2 /\ gs[w][n + 1] = s[1] /\ gs[w][n + 2] = s[2]
    BY <1>2, <2>1 DEF Whole
  <2>3. k = n + 1 \/ k = n + 2
    BY <1>1, <1>6, <2>2
  <2>4. /\ gs[w][n + 1].part = "head" /\ gs[w][n + 1].item = i
        /\ gs[w][n + 2].part = "tail" /\ gs[w][n + 2].item = i
    BY <2>1, <2>2 DEF Whole
  <2>5. n + 1 \in 1..Len(gs[w]) /\ n + 2 \in 1..Len(gs[w]) /\ (n + 1) + 1 = n + 2 /\ (n + 2) - 1 = n + 1
    BY <1>1, <2>2
  <2> QED BY <2>3, <2>4, <2>5
<1>7. \A f \in DOMAIN gs : \A k \in 1..Len(gs[f]) : Pair(gs[f], k)
  BY <1>4, <1>5, <1>6
<1> QED BY <1>7, Zenon DEF Paired

LEMMA AppendedReadable ==
  ASSUME NEW fs, NEW gs, NEW w \in Nat, NEW s, FilesOK(fs), Appended(fs, gs, w, s),
         NoneOrWhole(s), NEW h \in Headers, NEW g \in Headers, Readable(fs, h),
         g.read_seqno = h.read_seqno, g.read_offset = h.read_offset,
         w \in DOMAIN fs \/ w = h.write_seqno + 1,
         g.write_seqno = h.write_seqno \/
           (g.write_seqno = h.write_seqno + 1 /\ Len(fs[h.write_seqno]) > 0)
  PROVE  Readable(gs, g)
<1> DEFINE n == End(fs, w)
           r == h.read_seqno
           o == h.read_offset
<1>1. r \in Nat /\ o \in Nat /\ h.write_seqno \in Nat
  BY DEF Headers
<1>2. FilesOK(gs) /\ Grows(fs, gs) /\ DOMAIN gs = DOMAIN fs \cup {w}
  BY DEF Appended
<1>3. /\ r \in DOMAIN fs /\ r \in DOMAIN gs /\ o <= Len(fs[r])
      /\ o < Len(fs[r]) => fs[r][o + 1].part = "head"
  BY <1>2 DEF Readable
<1>4. Len(fs[r]) \in Nat /\ Len(gs[r]) \in Nat /\ Len(fs[r]) <= Len(gs[r])
  BY <1>2, <1>3, LenProperties DEF FilesOK, Grows, Keeps
<1>5. o <= Len(gs[r])
  BY <1>1, <1>3, <1>4
<1>6. ASSUME o < Len(gs[r]) PROVE gs[r][o + 1].part = "head"
  <2>1. CASE o < Len(fs[r])
    <3>1. o + 1 \in 1..Len(fs[r])
      BY <1>1, <1>4, <2>1
    <3>2. gs[r][o + 1] = fs[r][o + 1]
      BY <1>2, <1>3, <3>1 DEF Grows, Keeps
    <3> QED BY <1>3, <2>1, <3>2
  <2>2. CASE ~(o < Len(fs[r]))
    <3>1. o = Len(fs[r])
      BY <1>1, <1>3, <1>4, <2>2
    <3>2. r = w
      <4>1. ASSUME r # w PROVE FALSE
        <5>1. gs[r] = fs[r]
          BY <1>3, <4>1 DEF Appended
        <5> QED BY <1>4, <1>6, <3>1, <5>1
      <4> QED BY <4>1
    <3>3. n = o /\ n \in Nat
      BY <1>1, <1>3, <3>1, <3>2 DEF End
    <3>4. /\ w \in DOMAIN gs /\ Len(s) \in Nat /\ Len(gs[w]) = n + Len(s)
          /\ \A k \in 1..Len(s) : gs[w][n + k] = s[k]
      <4>1. Extended(fs, gs, w, s)
        BY AppendedUnits
      <4> QED BY <4>1 DEF Extended
    <3> HIDE DEF n
    <3>5. Len(s) > 0
      BY <1>4, <1>6, <3>2, <3>3, <3>4
    <3>6. s # <<>>
      BY <3>5
    <3>7. PICK i \in Items : Whole(s, i)
      BY <3>6 DEF NoneOrWhole
    <3>8. 1 \in 1..Len(s) /\ s[1].part = "head"
      BY <3>7 DEF Whole
    <3>9. gs[w][n + 1] = s[1]
      BY <3>4, <3>8
    <3> QED BY <3>2, <3>3, <3>8, <3>9
  <2> QED BY <2>1, <2>2
<1>7. ASSUME NEW f \in DOMAIN gs, r < f, f < g.write_seqno PROVE Len(gs[f]) > 0
  <2>1. f \in Nat
    BY <1>2 DEF FilesOK
  <2>2. g.write_seqno \in Nat
    BY DEF Headers
  <2>3. f <= h.write_seqno
    BY <1>1, <1>7, <2>1, <2>2
  <2>4. f \in DOMAIN fs
    BY <1>1, <1>2, <2>1, <2>3
  <2>5. Len(fs[f]) > 0
    <3>1. CASE f < h.write_seqno
      BY <1>7, <2>4, <3>1 DEF Readable
    <3>2. CASE ~(f < h.write_seqno)
      <4>1. f = h.write_seqno
        BY <1>1, <2>1, <2>3, <3>2
      <4>2. g.write_seqno # h.write_seqno
        BY <1>1, <1>7, <2>1, <3>2
      <4> QED BY <4>1, <4>2
    <3> QED BY <3>1, <3>2
  <2>6. Len(fs[f]) \in Nat /\ Len(gs[f]) \in Nat /\ Len(fs[f]) <= Len(gs[f])
    BY <1>2, <2>4, LenProperties DEF FilesOK, Grows, Keeps
  <2> QED BY <2>5, <2>6
<1> QED BY <1>3, <1>5, <1>6, <1>7 DEF Readable

\* A whole record at the end of a file is before every reader that is not beyond.
LEMMA AppendedBefore ==
  ASSUME NEW fs, NEW gs, NEW w \in Nat, NEW s, FilesOK(fs), Appended(fs, gs, w, s),
         NEW i \in Items, Whole(s, i), NEW h \in Headers, h.read_seqno <= w,
         w = h.read_seqno => w \in DOMAIN fs /\ h.read_offset <= Len(fs[w])
  PROVE  Before(gs, h, i)
<1> DEFINE n == End(fs, w)
<1>1. n \in Nat /\ h.read_offset \in Nat
  BY AppendedUnits DEF Headers, Extended
<1>2. w = h.read_seqno => h.read_offset <= n
  BY DEF End
<1>3. /\ w \in DOMAIN gs /\ Len(s) \in Nat /\ Len(gs[w]) = n + Len(s)
      /\ \A k \in 1..Len(s) : gs[w][n + k] = s[k]
  <2>1. Extended(fs, gs, w, s)
    BY AppendedUnits
  <2> QED BY <2>1 DEF Extended
<1> HIDE DEF n
<1>4. Len(gs[w]) = n + 2 /\ gs[w][n + 2] = s[2]
  BY <1>3 DEF Whole
<1>5. n + 2 \in 1..Len(gs[w]) /\ n + 2 \in Nat
  BY <1>1, <1>4
<1>6. w = h.read_seqno => h.read_offset < n + 2
  BY <1>1, <1>2
<1>7. Lies(gs, h, i, w, n + 2)
  BY <1>3, <1>4, <1>5, <1>6 DEF Lies, Whole
<1> QED BY <1>5, <1>7 DEF Before

LEMMA StillHolds ==
  ASSUME NEW fs, NEW gs, FilesOK(fs), FilesOK(gs), Keeps(fs, gs),
         NEW h \in Headers, NEW g \in Headers,
         g.read_seqno = h.read_seqno, g.read_offset = h.read_offset,
         \A f \in DOMAIN gs \ DOMAIN fs : f > h.read_seqno,
         NEW p \in [seqno : Nat, offset : Nat], Names(fs, p, h.read_seqno),
         NEW i, Holds(fs, h, p, i)
  PROVE  Holds(gs, g, p, i)
<1>1. /\ p.seqno # 0 /\ p.seqno <= h.read_seqno /\ p.seqno \in Nat /\ p.offset \in Nat
      /\ h.read_seqno \in Nat
  BY DEF Holds, Names, Headers
<1>2. ASSUME p.seqno \in DOMAIN gs PROVE gs[p.seqno][p.offset + 1].item = i
  <2>1. p.seqno \in DOMAIN fs
    BY <1>1, <1>2
  <2>2. p.offset + 2 <= Len(fs[p.seqno]) /\ Len(fs[p.seqno]) \in Nat
    BY <1>1, <2>1, LenProperties DEF Names, FilesOK
  <2>3. p.offset + 1 \in 1..Len(fs[p.seqno])
    BY <1>1, <2>2
  <2>4. gs[p.seqno][p.offset + 1] = fs[p.seqno][p.offset + 1]
    BY <1>2, <2>1, <2>3 DEF Keeps
  <2> QED BY <2>1, <2>4 DEF Holds
<1> QED BY <1>1, <1>2 DEF Holds

\* With whole records pop ends or takes one, and passes one file at most: the
\* files from the reader's on stay.
LEMMA SoundPop ==
  ASSUME FilesOK(files), NEW h \in Headers, NEW t \in Threads, NEW f \in Nat, NEW o \in Nat,
         NEW g, NEW gs, NEW x, PopResult(t, h, f, o, g, gs, x),
         Chained(files, h), Paired(files), Readable(files, h)
  PROVE  /\ PopEnded(h, f, o, g, gs, x) \/ PopTaken(t, h, f, o, g, gs, x)
         /\ FilesOK(gs) /\ Keeps(files, gs) /\ DOMAIN gs \subseteq DOMAIN files
         /\ \A y \in DOMAIN files : h.read_seqno <= y => y \in DOMAIN gs
         /\ \A y \in DOMAIN gs : gs[y] = files[y]
         /\ g.write_seqno = h.write_seqno /\ g.write_filesize = h.write_filesize
         /\ g.exit_status = h.exit_status /\ g \in Headers
         /\ f \in DOMAIN files /\ f \in DOMAIN gs /\ f \in {h.read_seqno, h.read_seqno + 1}
         /\ h.read_seqno <= f /\ f <= h.write_seqno
         /\ f = h.read_seqno => o = h.read_offset
         /\ f # h.read_seqno => o = 0 /\ Len(files[h.read_seqno]) = h.read_offset
         /\ o <= Len(files[f])
<1> DEFINE r == h.read_seqno
<1>1. /\ r \in Nat /\ h.read_offset \in Nat /\ h.write_seqno \in Nat
  BY DEF Headers
<1>2. /\ f \in DOMAIN files /\ r <= f /\ f <= h.write_seqno
      /\ o = IF f = r THEN h.read_offset ELSE 0
      /\ \A y \in Nat : r <= y /\ y < f => unreadIn(h, y) = <<>>
      /\ g \in Headers /\ g.exit_status = h.exit_status
  BY DEF PopResult
<1>3. \A y \in DOMAIN files : files[y] \in Seq(Units) /\ Len(files[y]) \in Nat
  BY LenProperties DEF FilesOK
<1>4. /\ r \in DOMAIN files /\ h.read_offset <= Len(files[r])
      /\ h.read_offset < Len(files[r]) => files[r][h.read_offset + 1].part = "head"
      /\ \A y \in DOMAIN files : r < y /\ y < h.write_seqno => Len(files[y]) > 0
  BY DEF Readable
<1>5. ~(r + 1 < f)
  <2> SUFFICES ASSUME r + 1 < f PROVE FALSE
    OBVIOUS
  <2> DEFINE y == r + 1
  <2>1. y \in Nat /\ r <= y /\ y # r /\ r < y /\ y < h.write_seqno /\ y < f
    BY <1>1, <1>2
  <2> HIDE DEF y
  <2>2. y \in DOMAIN files
    BY <1>1, <1>4, <2>1 DEF Chained
  <2>3. unreadIn(h, y) = <<>>
    BY <1>2, <2>1
  <2>4. files[y] = <<>>
    BY <2>1, <2>3 DEF unreadIn
  <2>5. Len(files[y]) > 0
    BY <1>4, <2>1, <2>2
  <2> QED BY <2>4, <2>5
<1>6. f = r \/ f = r + 1
  BY <1>1, <1>2, <1>5
<1>7. f # r => Len(files[r]) = h.read_offset
  <2> SUFFICES ASSUME f # r PROVE Len(files[r]) = h.read_offset
    OBVIOUS
  <2>1. unreadIn(h, r) = <<>>
    BY <1>1, <1>2
  <2> DEFINE s == files[r]
             b == h.read_offset
  <2>2. SubSeq(s, b + 1, Len(s)) = <<>>
    BY <2>1 DEF unreadIn
  <2>3. s \in Seq(Units) /\ Len(s) \in Nat /\ b \in Nat /\ b <= Len(s)
    BY <1>1, <1>3, <1>4
  <2> HIDE DEF s, b
  <2>4. ASSUME b < Len(s) PROVE FALSE
    <3>1. \A k \in (b + 1)..Len(s) : s[k] \in Units
      BY <2>3
    <3> DEFINE m == b + 1
               n == Len(s)
    <3>2. m \in 1..(n + 1) /\ n \in Int /\ n \in Nat /\ m <= n /\ n - m + 1 > 0
      BY <2>3, <2>4
    <3>3. SubSeq(s, m, n) = <<>>
      BY <2>2
    <3>4. \A k \in m..n : s[k] \in Units
      BY <3>1
    <3> HIDE DEF m, n
    <3>5. Len(SubSeq(s, m, n)) = n - m + 1
      BY <3>2, <3>4, SubSeqProperties
    <3> QED BY <3>2, <3>3, <3>5
  <2>5. Len(s) = b
    BY <2>3, <2>4
  <2> QED BY <2>5 DEF s, b
<1>8. o <= Len(files[f])
  BY <1>2, <1>3, <1>4
<1>9. o < Len(files[f]) => files[f][o + 1].part = "head" /\ o + 2 <= Len(files[f])
  <2> SUFFICES ASSUME o < Len(files[f])
               PROVE  files[f][o + 1].part = "head" /\ o + 2 <= Len(files[f])
    OBVIOUS
  <2>1. o + 1 \in 1..Len(files[f]) /\ Len(files[f]) \in Nat
    BY <1>2, <1>3
  <2>2. files[f][o + 1] \in Units
    BY <1>2, <1>3, <2>1, ElementOfSeq
  <2>3. files[f][o + 1].part = "head"
    <3>1. CASE f = r
      BY <1>2, <1>4, <3>1
    <3>2. CASE f # r
      <4>1. o = 0
        BY <1>2, <3>2
      <4>2. files[f][o + 1].part # "tail"
        <5>1. ~(o + 1 - 1 \in 1..Len(files[f]))
          BY <2>1, <4>1
        <5> QED BY <1>2, <2>1, <5>1 DEF Paired
      <4> QED BY <2>2, <4>2 DEF Units
    <3> QED BY <3>1, <3>2
  <2>4. (o + 1) + 1 \in 1..Len(files[f])
    BY <1>2, <2>1, <2>3 DEF Paired
  <2> QED BY <2>1, <2>3, <2>4
<1>10. ~PopSkipped(h, f, o, g, gs, x) /\ ~PopCleared(h, f, o, g, gs, x)
  BY <1>9 DEF PopSkipped, PopCleared
<1>11. /\ PopEnded(h, f, o, g, gs, x) \/ PopTaken(t, h, f, o, g, gs, x)
       /\ g.write_seqno = h.write_seqno /\ g.write_filesize = h.write_filesize
  BY <1>10 DEF PopResult
<1>12. gs = without(files, deleted(r, f))
  BY <1>11 DEF PopEnded, PopTaken
<1> DEFINE ws == without(files, deleted(r, f))
<1>13. /\ FilesOK(ws) /\ DOMAIN ws \subseteq DOMAIN files
       /\ \A y \in DOMAIN files : y \in DOMAIN ws <=> ~(r <= y + 1 /\ y + 1 < f)
       /\ \A y \in DOMAIN ws : ws[y] = files[y]
  BY <1>1, WithoutFiles
<1> HIDE DEF ws
<1>14. gs = ws
  BY <1>12 DEF ws
<1>15. \A y \in DOMAIN files : r <= y => y \in DOMAIN gs
  <2> SUFFICES ASSUME NEW y \in DOMAIN files, r <= y PROVE y \in DOMAIN gs
    OBVIOUS
  <2>1. y \in Nat
    BY DEF FilesOK
  <2>2. ~(y + 1 < f)
    BY <1>1, <1>6, <2>1
  <2> QED BY <1>13, <1>14, <2>2
<1>16. Keeps(files, gs)
  BY <1>3, <1>13, <1>14 DEF Keeps
<1>17. f \in {h.read_seqno, h.read_seqno + 1}
  BY <1>6
<1>18. f \in DOMAIN gs
  BY <1>2, <1>15
<1>19. /\ f = h.read_seqno => o = h.read_offset
       /\ f # h.read_seqno => o = 0 /\ Len(files[h.read_seqno]) = h.read_offset
  BY <1>2, <1>7
<1>20. /\ FilesOK(gs) /\ DOMAIN gs \subseteq DOMAIN files
       /\ \A y \in DOMAIN gs : gs[y] = files[y]
  BY <1>13, <1>14
<1> QED BY <1>2, <1>8, <1>11, <1>15, <1>16, <1>17, <1>18, <1>19, <1>20

LEMMA SameReadable ==
  ASSUME NEW fs, NEW h, NEW g, Readable(fs, h), g.read_seqno = h.read_seqno,
         g.read_offset = h.read_offset, g.write_seqno = h.write_seqno
  PROVE  Readable(fs, g)
BY DEF Readable

LEMMA EntryKept ==
  ASSUME NEW fs, NEW gs, FilesOK(fs), FilesOK(gs), Grows(fs, gs),
         NEW h, NEW g, g.read_seqno = h.read_seqno, g.read_offset = h.read_offset,
         NEW p \in [seqno : Nat, offset : Nat], Names(fs, p, h.read_seqno),
         NEW i, Entry(fs, h, p, i)
  PROVE  Entry(gs, g, p, i)
<1>1. /\ p.seqno # 0 /\ p.seqno <= h.read_seqno /\ p.offset < h.read_offset
      /\ p.seqno \in DOMAIN fs /\ fs[p.seqno][p.offset + 1].item = i
  BY DEF Entry
<1>2. p.offset + 2 <= Len(fs[p.seqno]) /\ Len(fs[p.seqno]) \in Nat
  BY <1>1, LenProperties DEF Names, FilesOK
<1>3. p.offset + 1 \in 1..Len(fs[p.seqno]) /\ p.seqno \in DOMAIN gs
  BY <1>1, <1>2 DEF Grows
<1>4. gs[p.seqno][p.offset + 1] = fs[p.seqno][p.offset + 1]
  BY <1>1, <1>3 DEF Grows, Keeps
<1> QED BY <1>1, <1>3, <1>4 DEF Entry

LEMMA InitSound == Init => Sound
<1> SUFFICES ASSUME Init PROVE Sound
  OBVIOUS
<1>1. DOMAIN files = {}
  BY DEF Init
<1>2. Paired(files)
  BY <1>1 DEF Paired
<1>3. Unopened
  BY <1>1 DEF Init, Unopened, NewHeader
<1>4. FilesSound
  BY <1>2, <1>3 DEF FilesSound, Init
<1>5. \A t \in Threads : HandSound(t)
  BY DEF HandSound, Init
<1>6. accepted = {}
  BY DEF Init
<1> QED BY <1>4, <1>5, <1>6 DEF Sound

LEMMA OpenSound == Frame /\ Sound /\ open => Sound'
<1> SUFFICES ASSUME Frame, Sound, open PROVE Sound'
  OBVIOUS
<1> DEFINE w == disk.write_seqno
           fs == created(files, w)
           n == Len(fs[w])
           h == [disk EXCEPT !.write_filesize = n]
<1>1. disk \in Headers /\ FilesOK(files) /\ mem = disk /\ proc = "down"
  BY DEF Frame, HeaderTypes, InStep, open
<1>2. w \in Nat /\ disk.read_seqno \in Nat /\ disk.read_offset \in Nat
  BY <1>1 DEF Headers
<1>3. /\ FilesOK(fs) /\ DOMAIN fs = DOMAIN files \cup {w} /\ Grows(files, fs)
      /\ Appended(files, fs, w, <<>>)
      /\ w \notin DOMAIN files => fs[w] = <<>>
  BY <1>1, <1>2, CreatedFile, CreatedIsAppended
<1>4. files' = fs /\ disk' = disk /\ hand' = hand /\ proc' # "down"
  BY DEF open
<1>5. accepted' = accepted /\ handled' = handled /\ knownLost' = knownLost
  BY DEF open, history
<1>6. FilesSound /\ (\A i \in accepted \ knownLost : ItemKept(i))
  BY DEF Sound
<1>7. Readable(fs, disk)
  <2>1. CASE Unopened
    <3>1. w = disk.read_seqno /\ disk.read_offset = 0 /\ fs[w] = <<>> /\ w \in DOMAIN fs
      BY <1>3, <2>1 DEF Unopened
    <3>2. Len(fs[w]) = 0
      BY <3>1
    <3> HIDE DEF fs
    <3>3. ~(disk.read_offset < Len(fs[w]))
      BY <3>1, <3>2
    <3>4. \A f \in DOMAIN fs : ~(w < f /\ f < w)
      BY <1>2, <1>3 DEF FilesOK
    <3> QED BY <3>1, <3>2, <3>3, <3>4 DEF Readable
  <2>2. CASE ~Unopened
    <3>1. Readable(files, disk) /\ w \in DOMAIN files
      BY <1>6, <2>2 DEF FilesSound, Frame, Linked
    <3>2. NoneOrWhole(<<>>)
      BY DEF NoneOrWhole
    <3> HIDE DEF fs
    <3> QED BY <1>1, <1>2, <1>3, <3>1, <3>2, AppendedReadable
  <2> QED BY <2>1, <2>2
<1>8. disk.read_seqno \in DOMAIN fs
  BY <1>7 DEF Readable
<1>9. n \in Nat
  BY <1>3, LenProperties DEF FilesOK
<1>10. \/ /\ proc' = "recover" /\ toRecover' = Threads /\ mem' = h /\ pc' = pc
       \/ /\ proc' = "up" /\ startThreads /\ mem' = [h EXCEPT !.exit_status = 0]
          /\ disk.exit_status # 0
  BY <1>8, Zenon DEF open
<1> HIDE DEF n, fs
<1>11. /\ mem'.read_seqno = disk.read_seqno /\ mem'.read_offset = disk.read_offset
       /\ mem'.write_seqno = w /\ mem'.write_filesize = n
       /\ proc' = "up" => mem'.exit_status = 0
  BY <1>1, <1>9, <1>10 DEF Headers
<1>12. Readable(fs, mem')
  BY <1>7, <1>11, SameReadable
<1>13. NoneOrWhole(<<>>)
  BY DEF NoneOrWhole
<1>14. Paired(fs)
  BY <1>1, <1>2, <1>3, <1>6, <1>13, AppendedPaired DEF FilesSound
<1>15. FilesSound'
  <2>1. files'[mem'.write_seqno] = fs[w]
    BY <1>4, <1>11
  <2>2. mem'.write_filesize > 0 => Len(files'[mem'.write_seqno]) > 0
    BY <1>11, <2>1 DEF n
  <2> QED BY <1>4, <1>7, <1>11, <1>12, <1>14, <2>2 DEF FilesSound
<1>16. \A t \in Threads : hand[t] = <<>> /\ pc[t] = "off"
  BY <1>1 DEF Frame, InStep, ThreadInStep
<1>17. \A t \in Threads : hand'[t] = <<>> /\ pc'[t] \in {"off", "start"}
  BY <1>4, <1>10, <1>16 DEF startThreads
<1>18. \A t \in Threads : HandSound(t)'
  BY <1>17 DEF HandSound
<1>19. ASSUME NEW i \in accepted \ knownLost PROVE ItemKept(i)'
  <2>1. ItemKept(i) /\ ~InHand(i)
    BY <1>6, <1>16 DEF InHand
  <2>2. CASE handled[i] > 0
    BY <1>5, <2>2 DEF ItemKept
  <2>3. CASE Before(files, disk, i)
    <3>1. mem' \in Headers
      BY <1>1, <1>9, <1>10 DEF Headers
    <3>2. Before(fs, mem', i)
      BY <1>1, <1>3, <1>11, <2>3, <3>1, BeforeKept DEF Grows
    <3> QED BY <1>4, <3>2 DEF ItemKept
  <2>4. CASE Recoverable(i)
    <3>1. PICK t \in Threads : Entry(files, disk, disk.pos[t], i)
      BY <2>4 DEF Recoverable
    <3>2. disk.exit_status = 0
      BY <2>4 DEF Recoverable
    <3>3. Names(files, disk.pos[t], disk.read_seqno) /\ disk.pos[t] \in [seqno : Nat, offset : Nat]
      BY <1>1 DEF Frame, Linked, Named, Headers
    <3>4. Entry(fs, disk, disk.pos[t], i)
      BY <1>1, <1>3, <3>1, <3>3, EntryKept
    <3>5. proc' = "recover" /\ toRecover' = Threads
      BY <1>10, <3>2
    <3> QED BY <1>4, <3>2, <3>4, <3>5 DEF ItemKept, Recoverable
  <2> QED BY <1>1, <2>1, <2>2, <2>3, <2>4 DEF ItemKept
<1> QED BY <1>5, <1>15, <1>18, <1>19 DEF Sound

\* The second unit of a record that an entry names.
LEMMA NamedPair ==
  ASSUME Frame, Paired(files), NEW h \in Headers, Named(files, h), NEW t \in Threads,
         isRecovered(h, h.pos[t])
  PROVE  LET p == h.pos[t] IN /\ itemAt(p)[1] = files[p.seqno][p.offset + 1].item
                              /\ itemAt(p)[1] \in Items /\ itemAt(p)[2] = itemAt(p)[1]
<1> DEFINE p == h.pos[t]
           s == files[p.seqno]
           k == p.offset + 1
<1>1. /\ p.seqno \in DOMAIN files /\ k \in 1..Len(s) /\ s[k].part = "head"
      /\ itemAt(p)[1] = s[k].item /\ itemAt(p)[2] = payload(s[p.offset + 2])
      /\ itemAt(p)[1] \in Items /\ p.offset \in Nat
  BY NamedItem
<1>2. s[k + 1].part = "tail" /\ s[k + 1].item = s[k].item
  BY <1>1 DEF Paired
<1>3. k + 1 = p.offset + 2
  BY <1>1
<1>4. payload(s[p.offset + 2]) = s[k].item
  BY <1>2, <1>3 DEF payload
<1> QED BY <1>1, <1>4

\* The writing header after a rotation, and the file it writes.
LEMMA RotatedSound ==
  ASSUME Frame, FilesSound, proc # "down", NEW h, h = rotated(mem)
  PROVE  /\ h \in Headers /\ h.write_seqno \in Nat
         /\ h.read_seqno = mem.read_seqno /\ h.read_offset = mem.read_offset
         /\ h.pos = mem.pos /\ h.exit_status = mem.exit_status
         /\ Readable(files, mem) /\ mem.read_seqno <= h.write_seqno
         /\ h.write_seqno \in DOMAIN files \/ h.write_seqno = mem.write_seqno + 1
         /\ h.write_seqno = mem.write_seqno \/
              (h.write_seqno = mem.write_seqno + 1 /\ Len(files[mem.write_seqno]) > 0)
         /\ h.write_filesize > 0 => /\ h.write_seqno \in DOMAIN files
                                    /\ Len(files[h.write_seqno]) > 0
<1>1. mem \in Headers /\ mem.write_seqno \in DOMAIN files /\ mem.read_seqno <= mem.write_seqno
  BY DEF Frame, HeaderTypes, Linked, Chained
<1>2. Readable(files, mem) /\ (mem.write_filesize > 0 => Len(files[mem.write_seqno]) > 0)
  BY DEF FilesSound, Unopened
<1>3. /\ h \in Headers
      /\ h.read_seqno = mem.read_seqno /\ h.read_offset = mem.read_offset
      /\ h.pos = mem.pos /\ h.exit_status = mem.exit_status
      /\ \/ h = mem
         \/ /\ h.write_seqno = mem.write_seqno + 1
            /\ h.write_filesize = 0
            /\ mem.write_filesize > 0
  BY <1>1, RotatedHeader
<1>4. h.write_seqno \in Nat /\ mem.write_seqno \in Nat /\ mem.read_seqno \in Nat
  BY <1>1, <1>3 DEF Headers
<1> QED BY <1>1, <1>2, <1>3, <1>4

LEMMA RecoverSound ==
  \A t \in Threads : Frame /\ Frame' /\ Sound /\ recoverOne(t) /\ ~torn' => Sound'
<1> SUFFICES ASSUME NEW t \in Threads, Frame, Frame', Sound, recoverOne(t), ~torn' PROVE Sound'
  OBVIOUS
<1> DEFINE p == mem.pos[t]
           i == itemAt(p)[1]
           j == itemAt(p)[2]
           w == mem.write_seqno
<1>1. /\ proc = "recover" /\ toRecover' = toRecover \ {t}
      /\ proc' = proc /\ pc' = pc /\ hand' = hand
      /\ accepted' = accepted /\ handled' = handled
  BY DEF recoverOne, threads
<1>2. /\ mem \in Headers /\ disk \in Headers /\ FilesOK(files) /\ Linked
      /\ mem' \in Headers /\ disk' \in Headers /\ FilesOK(files') /\ SamePlace'
  BY <1>1, NotAThread DEF Frame, HeaderTypes, InStep, Linked
<1>3. /\ FilesSound /\ (\A s \in Threads : HandSound(s))
      /\ (\A k \in accepted \ knownLost : ItemKept(k))
  BY DEF Sound
<1>4. /\ \A s \in Threads : hand[s] = <<>> /\ pc[s] = "off"
      /\ SamePlace /\ mem.pos = disk.pos /\ disk.exit_status = 0
  BY <1>1, NotAThread DEF Frame, Linked, InStep, ThreadInStep
<1>5. \A s \in Threads : HandSound(s)'
  BY <1>1, <1>4 DEF HandSound
<1>6. \A k \in accepted \ knownLost : \/ handled[k] > 0 \/ Before(files, mem, k)
                                      \/ \E s \in toRecover : Entry(files, disk, disk.pos[s], k)
  BY <1>1, <1>3, <1>4 DEF ItemKept, InHand, Recoverable
<1>7. CASE ~isRecovered(mem, p)
  <2>1. files' = files /\ mem' = mem /\ disk' = disk /\ knownLost' = knownLost
    BY <1>7 DEF recoverOne
  <2>2. FilesSound'
    BY <1>1, <1>3, <2>1 DEF FilesSound, Unopened
  <2>3. \A k : ~Entry(files, disk, disk.pos[t], k)
    BY <1>4, <1>7 DEF Entry, isRecovered, SamePlace
  <2>4. ASSUME NEW k \in accepted \ knownLost PROVE ItemKept(k)'
    <3>1. CASE handled[k] > 0 \/ Before(files, mem, k)
      BY <1>1, <2>1, <3>1 DEF ItemKept
    <3>2. CASE \E s \in toRecover : Entry(files, disk, disk.pos[s], k)
      <4>1. PICK s \in toRecover : Entry(files, disk, disk.pos[s], k)
        BY <3>2
      <4>2. s \in toRecover' /\ s \in Threads
        BY <1>1, <2>3, <4>1 DEF Frame, OtherTypes
      <4>3. Recoverable(k)'
        BY <1>1, <1>4, <2>1, <4>1, <4>2 DEF Recoverable
      <4> QED BY <4>3 DEF ItemKept
    <3> QED BY <1>6, <3>1, <3>2
  <2> QED BY <1>1, <1>5, <2>1, <2>2, <2>4 DEF Sound
<1>8. CASE isRecovered(mem, p)
  <2>1. PICK outcome \in {"whole", "short", "none"} :
          /\ files' = append(files, mem, i, j, outcome) /\ mem' = counted(mem, outcome)
          /\ torn' = (torn \/ outcome = "short")
          /\ knownLost' = IF outcome = "whole" THEN knownLost ELSE knownLost \cup {i}
    BY <1>8, Zenon DEF recoverOne, outcomes, fault
  <2>2. outcome \in {"whole", "none"}
    BY <2>1
  <2>3. i = files[p.seqno][p.offset + 1].item /\ i \in Items /\ j = i
    BY <1>2, <1>3, <1>8, NamedPair DEF Linked, FilesSound
  <2> DEFINE new == units(i, i, outcome)
  <2>4. /\ NoneOrWhole(new) /\ (outcome = "whole" => Whole(new, i))
        /\ (outcome = "none" => new = <<>>)
    BY <2>2, <2>3, WrittenUnits
  <2>5. /\ w \in Nat /\ w \in DOMAIN files /\ mem.read_seqno <= w
        /\ Readable(files, mem) /\ (mem.write_filesize > 0 => Len(files[w]) > 0)
    BY <1>1, <1>2, <1>3 DEF Headers, Linked, Chained, FilesSound, Unopened
  <2>6. i \in Payloads
    <3> HIDE DEF i
    <3> QED BY <2>3, ItemsArePayloads
  <2>7. Appended(files, files', w, new)
    <3>1. Appended(files, append(files, mem, i, i, outcome), w, new)
      BY <1>2, <2>3, <2>5, <2>6, AppendedFile
    <3> QED BY <2>1, <2>3, <3>1
  <2>8. /\ mem'.read_seqno = mem.read_seqno /\ mem'.read_offset = mem.read_offset
        /\ mem'.write_seqno = w /\ mem'.exit_status = mem.exit_status
        /\ outcome = "none" => mem'.write_filesize = mem.write_filesize
    BY <1>2, <2>1, CountedHeader
  <2>9. disk' = disk
    BY DEF recoverOne
  <2> HIDE DEF i, j, new
  <2>10. Paired(files')
    BY <1>2, <1>3, <2>4, <2>5, <2>7, AppendedPaired DEF FilesSound
  <2>11. Readable(files', mem')
    BY <1>2, <2>4, <2>5, <2>7, <2>8, AppendedReadable
  <2>12. Readable(files', disk')
    BY <1>2, <2>11, SameReadable DEF SamePlace
  <2>13. mem'.write_filesize > 0 => Len(files'[w]) > 0
    <3>1. Extended(files, files', w, new)
      BY <1>2, <2>5, <2>7, AppendedUnits
    <3>2. CASE outcome = "whole"
      <4>1. Len(new) = 2
        BY <2>4, <3>2 DEF Whole
      <4>2. End(files, w) \in Nat /\ Len(files'[w]) = End(files, w) + Len(new)
        BY <3>1 DEF Extended
      <4>3. Len(files'[w]) > 0
        BY <4>1, <4>2
      <4> QED BY <4>3
    <3>3. CASE outcome = "none"
      <4>1. mem'.write_filesize > 0 => w \in DOMAIN files /\ Len(files[w]) > 0
        BY <2>5, <2>8, <3>3
      <4>2. w \in DOMAIN files => Len(files'[w]) = Len(files[w]) + Len(new) /\ Len(files[w]) \in Nat
        BY <3>1 DEF Extended, End
      <4>3. Len(new) = 0
        BY <2>4, <3>3
      <4> QED BY <4>1, <4>2, <4>3
    <3> QED BY <2>2, <3>2, <3>3
  <2>14. FilesSound'
    BY <1>1, <2>8, <2>10, <2>11, <2>12, <2>13 DEF FilesSound
  <2>15. ASSUME NEW k \in accepted \ knownLost' PROVE ItemKept(k)'
    <3>1. k \in accepted \ knownLost /\ (outcome # "whole" => k # i)
      BY <2>1, <2>15
    <3>2. CASE handled[k] > 0
      BY <1>1, <3>2 DEF ItemKept
    <3>3. CASE Before(files, mem, k)
      <4>1. \A f \in DOMAIN files : mem.read_seqno <= f => f \in DOMAIN files'
        BY <2>7 DEF Appended, Grows
      <4>2. Before(files', mem', k)
        BY <1>2, <2>7, <2>8, <3>3, <4>1, BeforeKept DEF Appended, Grows
      <4> QED BY <4>2 DEF ItemKept
    <3>4. CASE \E s \in toRecover : Entry(files, disk, disk.pos[s], k)
      <4>1. PICK s \in toRecover : Entry(files, disk, disk.pos[s], k)
        BY <3>4
      <4>2. s \in Threads
        BY <4>1 DEF Frame, OtherTypes
      <4>3. CASE s = t
        <5>1. k = i
          BY <1>4, <2>3, <4>1, <4>3 DEF Entry
        <5>2. Whole(new, i)
          BY <2>2, <2>4, <3>1, <5>1
        <5>3. mem'.read_seqno <= w
          BY <2>5, <2>8
        <5>4. w = mem'.read_seqno => w \in DOMAIN files /\ mem'.read_offset <= Len(files[w])
          BY <2>5, <2>8 DEF Readable
        <5>5. Before(files', mem', i)
          BY <1>2, <2>3, <2>5, <2>7, <5>2, <5>3, <5>4, AppendedBefore
        <5> QED BY <5>1, <5>5 DEF ItemKept
      <4>4. CASE s # t
        <5>1. Names(files, disk.pos[s], disk.read_seqno) /\ disk.pos[s] \in [seqno : Nat, offset : Nat]
          BY <1>2, <4>2 DEF Linked, Named, Headers
        <5>2. Entry(files', disk', disk.pos[s], k)
          BY <1>2, <2>7, <2>9, <4>1, <5>1, EntryKept DEF Appended
        <5>3. s \in toRecover'
          BY <1>1, <4>1, <4>4
        <5>4. Recoverable(k)'
          BY <1>1, <1>4, <2>9, <4>2, <5>2, <5>3 DEF Recoverable
        <5> QED BY <5>4 DEF ItemKept
      <4> QED BY <4>3, <4>4
    <3> QED BY <1>6, <3>1, <3>2, <3>3, <3>4
  <2> QED BY <1>1, <1>5, <2>14, <2>15 DEF Sound
<1> QED BY <1>7, <1>8

LEMMA RecoverDoneSound == Frame /\ Frame' /\ Sound /\ recoverDone => Sound'
<1> SUFFICES ASSUME Frame, Frame', Sound, recoverDone PROVE Sound'
  OBVIOUS
<1>1. /\ proc = "recover" /\ toRecover = {} /\ proc' = "up" /\ files' = files
      /\ hand' = hand /\ \A t \in Threads : pc'[t] = "start"
      /\ accepted' = accepted /\ handled' = handled /\ knownLost' = knownLost
  BY DEF recoverDone, startThreads, history
<1>2. /\ mem \in Headers /\ FilesOK(files) /\ SamePlace'
  BY <1>1, NotAThread DEF Frame, HeaderTypes, InStep, Linked, recoverDone
<1>3. /\ mem'.read_seqno = mem.read_seqno /\ mem'.read_offset = mem.read_offset
      /\ mem'.write_seqno = mem.write_seqno /\ mem'.write_filesize = mem.write_filesize
      /\ mem'.exit_status = 0
  BY <1>2 DEF recoverDone, Headers
<1>4. FilesSound /\ (\A k \in accepted \ knownLost : ItemKept(k))
  BY DEF Sound
<1>5. Readable(files, mem') /\ Readable(files, disk')
  BY <1>1, <1>2, <1>3, <1>4, SameReadable DEF FilesSound, Unopened, SamePlace
<1>6. FilesSound'
  BY <1>1, <1>3, <1>4, <1>5 DEF FilesSound
<1>7. \A t \in Threads : hand[t] = <<>>
  BY <1>1 DEF Frame, InStep, ThreadInStep
<1>8. \A t \in Threads : HandSound(t)'
  BY <1>1, <1>7 DEF HandSound
<1>9. ASSUME NEW k \in accepted \ knownLost PROVE ItemKept(k)'
  <2>1. handled[k] > 0 \/ Before(files, mem, k)
    BY <1>1, <1>4, <1>7 DEF ItemKept, InHand, Recoverable
  <2>2. Before(files, mem, k) => Before(files, mem', k)
    BY <1>3 DEF Before, Lies
  <2> QED BY <1>1, <2>1, <2>2 DEF ItemKept
<1> QED BY <1>1, <1>6, <1>8, <1>9 DEF Sound

LEMMA DestroySound == Frame /\ Frame' /\ Sound /\ destroy => Sound'
<1> SUFFICES ASSUME Frame, Frame', Sound, destroy PROVE Sound'
  OBVIOUS
<1>1. /\ proc = "up" /\ proc' = "down" /\ files' = files /\ hand' = hand
      /\ \A t \in Threads : pc[t] = "done" /\ pc'[t] = "off"
      /\ accepted' = accepted /\ handled' = handled /\ knownLost' = knownLost
      /\ mem' = closed /\ disk' = closed
  BY DEF destroy, history
<1>2. mem \in Headers /\ FilesOK(files)
  BY DEF Frame, HeaderTypes
<1>3. /\ mem'.read_seqno = mem.read_seqno /\ mem'.read_offset = mem.read_offset
      /\ mem'.write_seqno = mem.write_seqno
  BY <1>1, <1>2 DEF closed, Headers
<1>4. FilesSound /\ (\A k \in accepted \ knownLost : ItemKept(k))
  BY DEF Sound
<1>5. Readable(files, mem') /\ Readable(files, disk')
  BY <1>1, <1>3, <1>4, SameReadable DEF FilesSound, Unopened
<1>6. FilesSound'
  BY <1>1, <1>4, <1>5 DEF FilesSound
<1>7. \A t \in Threads : hand[t] = <<>>
  BY <1>1 DEF Frame, ThreadInStep
<1>8. \A t \in Threads : HandSound(t)'
  BY <1>1, <1>7 DEF HandSound
<1>9. ASSUME NEW k \in accepted \ knownLost PROVE ItemKept(k)'
  <2>1. handled[k] > 0 \/ Before(files, mem, k)
    BY <1>1, <1>4, <1>7 DEF ItemKept, InHand, Recoverable
  <2>2. Before(files, mem, k) => Before(files, mem', k)
    BY <1>3 DEF Before, Lies
  <2> QED BY <1>1, <2>1, <2>2 DEF ItemKept
<1> QED BY <1>1, <1>6, <1>8, <1>9 DEF Sound

\* What header.dat has of an accepted item, whatever the process is doing.
KeptInHeader(i) ==
  \/ handled[i] > 0
  \/ Before(files, disk, i)
  \/ \E t \in Threads : heldBehind(t) /\ hand[t][1] = i
  \/ disk.exit_status = 0 /\ \E t \in Threads : /\ proc = "recover" => t \in toRecover
                                                /\ Entry(files, disk, disk.pos[t], i)

LEMMA HeaderKeeps ==
  ASSUME Frame, Sound, NEW i \in accepted \ knownLost
  PROVE  KeptInHeader(i)
<1>1. ItemKept(i) /\ FilesSound /\ (\A t \in Threads : HandSound(t)) /\ i \in Items
  BY DEF Sound, Frame, OtherTypes
<1>2. CASE handled[i] > 0
  BY <1>2 DEF KeptInHeader
<1>3. CASE Before(files, mem, i)
  <2>1. CASE inside \in Threads
    <3>1. pc[inside] = "save"
      BY <2>1 DEF Frame, ThreadInStep
    <3>2. Before(files, disk, i)
      BY <1>1, <1>3, <2>1, <3>1 DEF HandSound
    <3> QED BY <3>2 DEF KeptInHeader
  <2>2. CASE inside \notin Threads
    <3>1. SamePlace
      BY <2>2 DEF Frame, Linked
    <3>2. Before(files, disk, i)
      BY <1>3, <3>1 DEF SamePlace, Before, Lies
    <3> QED BY <3>2 DEF KeptInHeader
  <2> QED BY <2>1, <2>2
<1>4. CASE Recoverable(i)
  BY <1>4 DEF Recoverable, KeptInHeader
<1>5. CASE InHand(i)
  <2>1. PICK t \in Threads : hand[t] # <<>> /\ hand[t][1] = i
    BY <1>5 DEF InHand
  <2>2. pc[t] \in {"save", "handle", "finish"}
    BY <2>1 DEF Frame, ThreadInStep
  <2>3. CASE pc[t] = "save"
    <3>1. Before(files, disk, i)
      BY <1>1, <2>1, <2>3 DEF HandSound
    <3> QED BY <3>1 DEF KeptInHeader
  <2>4. CASE pc[t] = "finish"
    BY <1>1, <2>1, <2>4 DEF HandSound, KeptInHeader
  <2>5. CASE pc[t] = "handle"
    <3> DEFINE p == disk.pos[t]
    <3>1. disk.exit_status = 0 /\ Holds(files, disk, p, i)
      BY <1>1, <2>1, <2>5 DEF HandSound
    <3>2. CASE p.seqno # disk.read_seqno
      BY <2>1, <2>5, <3>2 DEF heldBehind, KeptInHeader
    <3>3. CASE p.seqno = disk.read_seqno
      <4>1. proc = "up" /\ disk \in Headers
        BY <2>5 DEF Frame, InStep, OtherTypes, HeaderTypes
      <4>2. disk.read_seqno \in DOMAIN files /\ disk.read_seqno \in Nat
        BY <1>1, <4>1 DEF FilesSound, Unopened, Readable, Headers
      <4>3. Entry(files, disk, p, i)
        BY <3>1, <3>3, <4>2 DEF Holds, Entry
      <4> QED BY <3>1, <4>1, <4>3 DEF KeptInHeader
    <3> QED BY <3>2, <3>3
  <2> QED BY <2>2, <2>3, <2>4, <2>5
<1> QED BY <1>1, <1>2, <1>3, <1>4, <1>5 DEF ItemKept

LEMMA CrashSound == Frame /\ Frame' /\ Sound /\ crash => Sound'
<1> SUFFICES ASSUME Frame, Frame', Sound, crash PROVE Sound'
  OBVIOUS
<1>1. /\ proc # "down" /\ proc' = "down" /\ files' = files /\ mem' = disk /\ disk' = disk
      /\ \A t \in Threads : hand'[t] = <<>> /\ pc'[t] = "off"
      /\ accepted' = accepted /\ handled' = handled
      /\ knownLost' = knownLost \cup {hand[t][1] : t \in {s \in Threads : heldBehind(s)}}
  BY DEF crash
<1>2. FilesSound'
  BY <1>1 DEF Sound, FilesSound, Unopened
<1>3. \A t \in Threads : HandSound(t)'
  BY <1>1 DEF HandSound
<1>4. ASSUME NEW i \in accepted \ knownLost' PROVE ItemKept(i)'
  <2>1. KeptInHeader(i)
    BY <1>1, <1>4, HeaderKeeps
  <2>2. ~\E t \in Threads : heldBehind(t) /\ hand[t][1] = i
    BY <1>1, <1>4
  <2>3. \/ handled[i] > 0 \/ Before(files, disk, i)
        \/ disk.exit_status = 0 /\ \E t \in Threads : Entry(files, disk, disk.pos[t], i)
    BY <2>1, <2>2 DEF KeptInHeader
  <2> QED BY <1>1, <2>3 DEF ItemKept, Recoverable
<1> QED BY <1>1, <1>2, <1>3, <1>4 DEF Sound

LEMMA StopSound == Frame /\ Sound /\ stopQueue => Sound'
<1> SUFFICES ASSUME Frame, Sound, stopQueue PROVE Sound'
  OBVIOUS
<1>1. /\ proc' = proc /\ files' = files /\ mem' = mem /\ disk' = disk /\ hand' = hand
      /\ toRecover' = toRecover
      /\ accepted' = accepted /\ handled' = handled /\ knownLost' = knownLost
      /\ \A t \in Threads : pc'[t] = IF pc[t] = "asleep" THEN "woken" ELSE pc[t]
  BY DEF stopQueue, history
<1>2. FilesSound'
  BY <1>1 DEF Sound, FilesSound, Unopened
<1>3. ASSUME NEW t \in Threads PROVE HandSound(t)'
  <2>1. HandSound(t)
    BY DEF Sound
  <2> QED BY <1>1, <2>1 DEF HandSound
<1>4. ASSUME NEW i \in accepted \ knownLost PROVE ItemKept(i)'
  <2>1. ItemKept(i)
    BY DEF Sound
  <2> QED BY <1>1, <2>1 DEF ItemKept, InHand, Recoverable
<1> QED BY <1>1, <1>2, <1>3, <1>4 DEF Sound

\* The step to a new file leaves the files readable and what lies before the reader there.
LEMMA LeftSound ==
  ASSUME Frame, Frame', FilesSound, leaveFull, rotated(mem) # mem, proc # "down", proc' = proc,
         inside = "none", inside' \notin Threads
  PROVE  /\ FilesSound'
         /\ disk' = mem' /\ mem'.pos = mem.pos /\ mem'.exit_status = mem.exit_status
         /\ mem'.read_seqno = mem.read_seqno /\ mem'.read_offset = mem.read_offset
         /\ Grows(files, files') /\ \A f \in DOMAIN files' \ DOMAIN files : f > mem.read_seqno
<1> DEFINE w == mem'.write_seqno
<1>1. mem' = rotated(mem) /\ files' = created(files, w) /\ disk' = mem'
  BY DEF leaveFull
<1>2. /\ mem \in Headers /\ FilesOK(files) /\ Linked /\ FilesOK(files')
      /\ mem' \in Headers /\ disk' \in Headers
  BY DEF Frame, HeaderTypes
<1>3. /\ w \in Nat
      /\ mem'.read_seqno = mem.read_seqno /\ mem'.read_offset = mem.read_offset
      /\ mem'.pos = mem.pos /\ mem'.exit_status = mem.exit_status
      /\ Readable(files, mem)
      /\ w \in DOMAIN files \/ w = mem.write_seqno + 1
      /\ w = mem.write_seqno \/ (w = mem.write_seqno + 1 /\ Len(files[mem.write_seqno]) > 0)
  BY <1>1, RotatedSound
<1>4. mem'.write_filesize = 0
  BY <1>1, <1>2, RotatedHeader
<1>5. Appended(files, files', w, <<>>) /\ NoneOrWhole(<<>>)
  BY <1>1, <1>2, <1>3, CreatedIsAppended DEF NoneOrWhole
<1>6. Paired(files')
  BY <1>2, <1>3, <1>5, AppendedPaired DEF FilesSound
<1>7. Readable(files', mem')
  BY <1>2, <1>3, <1>5, AppendedReadable
<1>8. FilesSound'
  BY <1>1, <1>3, <1>4, <1>6, <1>7 DEF FilesSound
<1>9. Grows(files, files') /\ \A f \in DOMAIN files' \ DOMAIN files : f > mem.read_seqno
  <2>1. mem.read_seqno \in Nat /\ mem.write_seqno \in Nat /\ mem.read_seqno <= mem.write_seqno
    BY <1>2 DEF Headers, Linked, Chained
  <2>2. DOMAIN files' = DOMAIN files \cup {w} /\ Grows(files, files')
    BY <1>5 DEF Appended
  <2>3. mem.write_seqno \in DOMAIN files
    BY <1>2 DEF Linked
  <2>4. ASSUME NEW f \in DOMAIN files' \ DOMAIN files PROVE f = mem.write_seqno + 1
    BY <1>3, <2>2, <2>3
  <2> QED BY <2>1, <2>2, <2>4
<1> QED BY <1>1, <1>3, <1>8, <1>9

\* A step to a new file in the recovery: what its entries name is still found there.
LEMMA RecoverRotateSound == Frame /\ Frame' /\ Sound /\ recoverRotate => Sound'
<1> SUFFICES ASSUME Frame, Frame', Sound, recoverRotate PROVE Sound'
  OBVIOUS
<1>1. /\ proc = "recover" /\ proc' = proc /\ inside' = inside /\ pc' = pc /\ hand' = hand
      /\ toRecover' = toRecover /\ accepted' = accepted /\ handled' = handled
      /\ knownLost' = knownLost /\ leaveFull /\ rotated(mem) # mem
  BY DEF recoverRotate, threads, bounds, history
<1>2. /\ mem \in Headers /\ disk \in Headers /\ mem' \in Headers /\ FilesOK(files)
      /\ FilesOK(files') /\ Linked /\ inside = "none" /\ mem.exit_status = 0
      /\ mem.pos = disk.pos /\ SamePlace /\ \A t \in Threads : hand[t] = <<>> /\ pc[t] = "off"
  BY <1>1, NotAThread DEF Frame, HeaderTypes, InStep, Linked, ThreadInStep
<1>3. FilesSound /\ (\A k \in accepted \ knownLost : ItemKept(k))
  BY DEF Sound
<1>4. /\ FilesSound'
      /\ disk' = mem' /\ mem'.pos = mem.pos /\ mem'.exit_status = mem.exit_status
      /\ mem'.read_seqno = mem.read_seqno /\ mem'.read_offset = mem.read_offset
      /\ Grows(files, files') /\ \A f \in DOMAIN files' \ DOMAIN files : f > mem.read_seqno
  BY <1>1, <1>2, <1>3, NotAThread, LeftSound
<1>5. \A t \in Threads : HandSound(t)'
  BY <1>1, <1>2 DEF HandSound
<1>6. ASSUME NEW k \in accepted \ knownLost PROVE ItemKept(k)'
  <2>1. handled[k] > 0 \/ Before(files, mem, k) \/ Recoverable(k)
    BY <1>2, <1>3 DEF ItemKept, InHand
  <2>2. CASE handled[k] > 0
    BY <1>1, <2>2 DEF ItemKept
  <2>3. CASE Before(files, mem, k)
    <3>1. Before(files', mem', k)
      BY <1>2, <1>4, <2>3, BeforeKept DEF Grows
    <3> QED BY <3>1 DEF ItemKept
  <2>4. CASE Recoverable(k)
    <3>1. PICK t \in Threads : t \in toRecover /\ Entry(files, disk, disk.pos[t], k)
      BY <1>1, <2>4 DEF Recoverable
    <3>2. /\ Names(files, disk.pos[t], disk.read_seqno)
          /\ disk.pos[t] \in [seqno : Nat, offset : Nat]
      BY <1>2 DEF Headers, Linked, Named
    <3>3. disk'.read_seqno = disk.read_seqno /\ disk'.read_offset = disk.read_offset
      BY <1>2, <1>4 DEF SamePlace
    <3>4. Entry(files', disk', disk.pos[t], k)
      BY <1>2, <1>4, <3>1, <3>2, <3>3, EntryKept
    <3>5. disk'.pos[t] = disk.pos[t] /\ disk'.exit_status = 0
      BY <1>2, <1>4
    <3>6. Recoverable(k)'
      BY <1>1, <3>1, <3>4, <3>5 DEF Recoverable
    <3> QED BY <3>6 DEF ItemKept
  <2> QED BY <2>1, <2>2, <2>3, <2>4
<1> QED BY <1>1, <1>4, <1>5, <1>6 DEF Sound

LEMMA RotateSound == Frame /\ Frame' /\ Sound /\ pushRotate => Sound'
<1> SUFFICES ASSUME Frame, Frame', Sound, pushRotate PROVE Sound'
  OBVIOUS
<1>1. /\ proc = "up" /\ proc' = proc /\ inside = "none" /\ inside' = "writer"
      /\ pc' = pc /\ hand' = hand /\ toRecover' = toRecover
      /\ accepted' = accepted /\ handled' = handled /\ knownLost' = knownLost
      /\ \/ mem' = mem /\ files' = files /\ disk' = disk
         \/ rotated(mem) # mem /\ leaveFull
  BY DEF pushRotate, threads, history
<1>2. /\ mem \in Headers /\ disk \in Headers /\ FilesOK(files) /\ Linked
      /\ mem' \in Headers /\ disk' \in Headers /\ FilesOK(files') /\ SamePlace'
  BY <1>1, NotAThread DEF Frame, HeaderTypes, Linked
<1>3. /\ FilesSound /\ (\A s \in Threads : HandSound(s))
      /\ (\A k \in accepted \ knownLost : ItemKept(k))
  BY DEF Sound
<1>4. CASE mem' = mem /\ files' = files /\ disk' = disk
  <2>1. FilesSound'
    BY <1>1, <1>3, <1>4 DEF FilesSound, Unopened
  <2>2. ASSUME NEW t \in Threads PROVE HandSound(t)'
    BY <1>1, <1>3, <1>4 DEF HandSound
  <2>3. ASSUME NEW k \in accepted \ knownLost PROVE ItemKept(k)'
    BY <1>1, <1>3, <1>4 DEF ItemKept, InHand, Recoverable
  <2> QED BY <1>1, <2>1, <2>2, <2>3 DEF Sound
<1>5. CASE rotated(mem) # mem /\ leaveFull
  <2>1. /\ FilesSound'
        /\ disk' = mem' /\ mem'.pos = mem.pos /\ mem'.exit_status = mem.exit_status
        /\ mem'.read_seqno = mem.read_seqno /\ mem'.read_offset = mem.read_offset
        /\ Grows(files, files') /\ \A f \in DOMAIN files' \ DOMAIN files : f > mem.read_seqno
    BY <1>1, <1>3, <1>5, NotAThread, LeftSound
  <2>2. mem.exit_status = 0
    BY <1>1, <1>3 DEF FilesSound
  <2>3. Keeps(files, files') /\ (\A f \in DOMAIN files : f \in DOMAIN files')
    BY <2>1 DEF Grows
  <2>4. ASSUME NEW t \in Threads PROVE HandSound(t)'
    <3>1. HandSound(t) /\ pc[t] # "save"
      BY <1>1, <1>3, NotAThread DEF Frame, ThreadInStep
    <3>2. mem.pos[t] \in [seqno : Nat, offset : Nat] /\ Names(files, mem.pos[t], mem.read_seqno)
      BY <1>2 DEF Headers, Linked, Named
    <3>3. \A i : Holds(files, mem, mem.pos[t], i) => Holds(files', mem', mem.pos[t], i)
      BY <1>2, <2>1, <2>3, <3>2, StillHolds
    <3>4. /\ mem'.pos[t] = mem.pos[t] /\ disk'.pos[t] = mem.pos[t] /\ disk'.exit_status = 0
          /\ \A i : Holds(files', mem', mem.pos[t], i) => Holds(files', disk', mem.pos[t], i)
      BY <2>1, <2>2
    <3>5. hand'[t] = hand[t] /\ pc'[t] = pc[t] /\ handled' = handled
      BY <1>1
    <3>6. pc[t] = "handle" => hand[t] # <<>>
      BY DEF Frame, ThreadTypes
    <3> QED BY <3>1, <3>3, <3>4, <3>5, <3>6 DEF HandSound
  <2>5. ASSUME NEW k \in accepted \ knownLost PROVE ItemKept(k)'
    <3>1. handled[k] > 0 \/ Before(files, mem, k) \/ InHand(k)
      BY <1>1, <1>3 DEF ItemKept, Recoverable
    <3>2. Before(files, mem, k) => Before(files', mem', k)
      BY <1>2, <2>1, <2>3, BeforeKept
    <3> QED BY <1>1, <3>1, <3>2 DEF ItemKept, InHand
  <2> QED BY <1>1, <2>1, <2>4, <2>5 DEF Sound
<1> QED BY <1>1, <1>4, <1>5

LEMMA WriteSound == Frame /\ Frame' /\ Sound /\ pushWrite /\ ~torn' => Sound'
<1> SUFFICES ASSUME Frame, Frame', Sound, pushWrite, ~torn' PROVE Sound'
  OBVIOUS
<1> DEFINE w == mem.write_seqno
<1>1. /\ inside = "writer" /\ inside' = "none" /\ disk' = disk /\ hand' = hand
      /\ proc' = proc /\ toRecover' = toRecover
      /\ handled' = handled /\ knownLost' = knownLost
  BY DEF pushWrite
<1>2. PICK outcome \in {"whole", "short", "none"} :
        /\ files' = append(files, mem, pushed, pushed, outcome)
        /\ mem' = counted(mem, outcome) /\ torn' = (torn \/ outcome = "short")
        /\ accepted' = IF outcome = "whole" THEN accepted \cup {pushed} ELSE accepted
  BY Zenon DEF pushWrite, outcomes, fault
<1>3. outcome \in {"whole", "none"}
  BY <1>2
<1>4. /\ mem \in Headers /\ disk \in Headers /\ FilesOK(files) /\ Linked
      /\ mem' \in Headers /\ disk' \in Headers /\ FilesOK(files') /\ SamePlace'
      /\ w \in DOMAIN files /\ proc = "up"
  BY <1>1, NotAThread DEF Frame, HeaderTypes, InStep, OtherTypes, Linked
<1>5. /\ FilesSound /\ (\A s \in Threads : HandSound(s))
      /\ (\A k \in accepted \ knownLost : ItemKept(k)) /\ Readable(files, mem)
  BY <1>4 DEF Sound, FilesSound, Unopened
<1>6. pushed \in Items /\ pushed \in Payloads
  BY <1>1, FileAssumption DEF Frame, OtherTypes, InStep, Items, Payloads
<1> DEFINE new == units(pushed, pushed, outcome)
<1>7. /\ NoneOrWhole(new) /\ (outcome = "whole" => Whole(new, pushed))
      /\ (outcome = "none" => new = <<>>)
  BY <1>3, <1>6, WrittenUnits
<1>8. w \in Nat /\ mem.read_seqno \in Nat /\ mem.read_seqno <= w
  BY <1>4 DEF Headers, Linked, Chained
<1>9. Appended(files, files', w, new)
  <2>1. Appended(files, append(files, mem, pushed, pushed, outcome), w, new)
    BY <1>4, <1>6, <1>8, AppendedFile
  <2> QED BY <1>2, <2>1
<1>10. /\ mem'.read_seqno = mem.read_seqno /\ mem'.read_offset = mem.read_offset
       /\ mem'.write_seqno = w /\ mem'.exit_status = mem.exit_status /\ mem'.pos = mem.pos
       /\ outcome = "none" => mem'.write_filesize = mem.write_filesize
  BY <1>2, <1>4, CountedHeader
<1>10a. pc' = pc \/ \E t \in Threads : pc[t] = "asleep" /\ pc' = [pc EXCEPT ![t] = "woken"]
  BY Zenon DEF pushWrite, signal
<1> HIDE DEF new
<1>11. Paired(files')
  BY <1>4, <1>5, <1>7, <1>8, <1>9, AppendedPaired DEF FilesSound
<1>12. Readable(files', mem')
  BY <1>4, <1>5, <1>7, <1>8, <1>9, <1>10, AppendedReadable
<1>13. Readable(files', disk')
  BY <1>12, <1>4, SameReadable DEF SamePlace
<1>14. mem'.write_filesize > 0 => Len(files'[w]) > 0
  <2>1. /\ End(files, w) \in Nat /\ Len(files'[w]) = End(files, w) + Len(new)
        /\ End(files, w) = Len(files[w])
    <3>1. Extended(files, files', w, new)
      BY <1>4, <1>8, <1>9, AppendedUnits
    <3> QED BY <1>4, <3>1 DEF Extended, End
  <2>2. CASE outcome = "whole"
    <3>1. Len(new) = 2
      BY <1>7, <2>2 DEF Whole
    <3>2. Len(files'[w]) > 0
      BY <2>1, <3>1
    <3> QED BY <3>2
  <2>3. CASE outcome = "none"
    <3>1. Len(new) = 0
      BY <1>7, <2>3
    <3>2. mem'.write_filesize > 0 => Len(files[w]) > 0
      BY <1>4, <1>5, <1>10, <2>3 DEF FilesSound
    <3> QED BY <2>1, <3>1, <3>2
  <2> QED BY <1>3, <2>2, <2>3
<1>15. FilesSound'
  BY <1>1, <1>4, <1>5, <1>10, <1>11, <1>12, <1>13, <1>14 DEF FilesSound
<1>16. /\ Keeps(files, files') /\ (\A f \in DOMAIN files : f \in DOMAIN files')
       /\ \A f \in DOMAIN files' \ DOMAIN files : FALSE
  <2>1. DOMAIN files' = DOMAIN files \cup {w} /\ Grows(files, files')
    BY <1>9 DEF Appended
  <2> QED BY <1>4, <2>1 DEF Grows
<1>17. ASSUME NEW t \in Threads PROVE HandSound(t)'
  <2>1. HandSound(t) /\ pc[t] # "save"
    BY <1>1, <1>5, NotAThread DEF Frame, ThreadInStep
  <2>2. pc'[t] = pc[t] \/ (pc[t] = "asleep" /\ pc'[t] = "woken")
    BY <1>10a DEF Frame, ThreadTypes
  <2>3. /\ mem.pos[t] \in [seqno : Nat, offset : Nat] /\ Names(files, mem.pos[t], mem.read_seqno)
        /\ disk.pos[t] \in [seqno : Nat, offset : Nat] /\ Names(files, disk.pos[t], disk.read_seqno)
    BY <1>4 DEF Headers, Linked, Named
  <2>4. \A i : Holds(files, mem, mem.pos[t], i) => Holds(files', mem', mem.pos[t], i)
    BY <1>4, <1>10, <1>16, <2>3, StillHolds
  <2>5. \A i : Holds(files, disk, disk.pos[t], i) => Holds(files', disk, disk.pos[t], i)
    BY <1>4, <1>16, <2>3, StillHolds
  <2> QED BY <1>1, <1>10, <2>1, <2>2, <2>4, <2>5 DEF HandSound
<1>18. ASSUME NEW k \in accepted' \ knownLost PROVE ItemKept(k)'
  <2>1. CASE k \in accepted
    <3>1. handled[k] > 0 \/ Before(files, mem, k) \/ InHand(k)
      BY <1>4, <1>5, <1>18, <2>1 DEF ItemKept, Recoverable
    <3>2. Before(files, mem, k) => Before(files', mem', k)
      BY <1>4, <1>10, <1>16, BeforeKept
    <3> QED BY <1>1, <3>1, <3>2 DEF ItemKept, InHand
  <2>2. CASE k \notin accepted
    <3>1. k = pushed /\ outcome = "whole"
      BY <1>2, <1>18, <2>2
    <3>2. Whole(new, pushed)
      BY <1>7, <3>1
    <3>3. w = mem'.read_seqno => w \in DOMAIN files /\ mem'.read_offset <= Len(files[w])
      BY <1>4, <1>5, <1>10 DEF Readable
    <3>4. mem'.read_seqno <= w
      BY <1>8, <1>10
    <3>5. Before(files', mem', pushed)
      BY <1>4, <1>6, <1>8, <1>9, <3>2, <3>3, <3>4, AppendedBefore
    <3> QED BY <3>1, <3>5 DEF ItemKept
  <2> QED BY <2>1, <2>2
<1> QED BY <1>1, <1>15, <1>17, <1>18 DEF Sound

LEMMA RunStaysSound ==
  ASSUME Frame, Sound, NEW t \in Threads, runLocked(t), RunStays(t)
  PROVE  Sound'
<1>1. /\ inside = "none" /\ pc[t] \in {"start", "woken", "finish"}
      /\ proc' = proc /\ disk' = disk /\ toRecover' = toRecover
      /\ accepted' = accepted /\ handled' = handled /\ knownLost' = knownLost
  BY RunCases
<1>2. /\ mem' = Found(t) /\ files' = files
      /\ \A s \in Threads : hand'[s] = IF s = t THEN <<>> ELSE hand[s]
      /\ \A s \in Threads : s # t => pc'[s] = pc[s]
      /\ pc'[t] \in {"start", "asleep", "done"}
  BY DEF RunStays, Frame, ThreadTypes
<1>3. /\ mem'.read_seqno = mem.read_seqno /\ mem'.read_offset = mem.read_offset
      /\ mem'.write_seqno = mem.write_seqno /\ mem'.write_filesize = mem.write_filesize
      /\ mem'.exit_status = mem.exit_status
      /\ \A s \in Threads : s # t => mem'.pos[s] = mem.pos[s]
  BY <1>2, FoundHeader
<1>4. FilesSound /\ (\A s \in Threads : HandSound(s))
      /\ (\A k \in accepted \ knownLost : ItemKept(k))
  BY DEF Sound
<1>5. Readable(files, mem) => Readable(files, mem')
  BY <1>3, SameReadable
<1>6. FilesSound'
  BY <1>1, <1>2, <1>3, <1>4, <1>5 DEF FilesSound, Unopened
<1>7. ASSUME NEW s \in Threads PROVE HandSound(s)'
  <2>1. CASE s = t
    BY <1>2, <2>1 DEF HandSound
  <2>2. CASE s # t
    <3>1. HandSound(s) /\ pc[s] # "save" /\ pc'[s] = pc[s] /\ hand'[s] = hand[s]
      BY <1>1, <1>2, <1>4, <2>2, NotAThread DEF Frame, ThreadInStep
    <3>2. mem'.pos[s] = mem.pos[s]
      BY <1>3, <2>2
    <3>3. \A i : Holds(files, mem, mem.pos[s], i) => Holds(files, mem', mem.pos[s], i)
      BY <1>3 DEF Holds
    <3> QED BY <1>1, <1>2, <3>1, <3>2, <3>3 DEF HandSound
  <2> QED BY <2>1, <2>2
<1>8. ASSUME NEW k \in accepted \ knownLost PROVE ItemKept(k)'
  <2>1. CASE handled[k] > 0 \/ Recoverable(k)
    BY <1>1, <1>2, <2>1 DEF ItemKept, Recoverable
  <2>2. CASE Before(files, mem, k)
    <3>1. Before(files, mem', k)
      BY <1>3, <2>2 DEF Before, Lies
    <3> QED BY <1>2, <3>1 DEF ItemKept
  <2>3. CASE InHand(k)
    <3>1. PICK s \in Threads : hand[s] # <<>> /\ hand[s][1] = k
      BY <2>3 DEF InHand
    <3>2. CASE s = t
      <4>1. pc[t] = "finish"
        BY <1>1, <3>1, <3>2 DEF Frame, ThreadInStep
      <4> QED BY <1>1, <1>4, <3>1, <3>2, <4>1 DEF HandSound, ItemKept
    <3>3. CASE s # t
      BY <1>2, <3>1, <3>3 DEF InHand, ItemKept
    <3> QED BY <3>2, <3>3
  <2> QED BY <1>4, <2>1, <2>2, <2>3 DEF ItemKept
<1> QED BY <1>1, <1>6, <1>7, <1>8 DEF Sound

\* Where a tail of item i lies after a pop, and before it.
LEMMA PoppedBefore ==
  ASSUME FilesOK(files), NEW h \in Headers, NEW t \in Threads, NEW f \in Nat, NEW o \in Nat,
         NEW g, NEW gs, NEW x, PopResult(t, h, f, o, g, gs, x),
         Chained(files, h), Paired(files), Readable(files, h), NEW i
  PROVE  /\ Before(gs, g, i) => Before(gs, h, i)
         /\ x # <<>> => x[1] = x[2] /\ Before(gs, h, x[1])
         /\ Before(files, h, i) => Before(gs, g, i) \/ (x # <<>> /\ x[1] = i)
<1>1. /\ PopEnded(h, f, o, g, gs, x) \/ PopTaken(t, h, f, o, g, gs, x)
      /\ FilesOK(gs)
      /\ \A y \in DOMAIN files : h.read_seqno <= y => y \in DOMAIN gs
      /\ \A y \in DOMAIN gs : gs[y] = files[y]
      /\ f \in DOMAIN files /\ f \in DOMAIN gs /\ f \in {h.read_seqno, h.read_seqno + 1}
      /\ h.read_seqno <= f
      /\ f = h.read_seqno => o = h.read_offset
      /\ f # h.read_seqno => o = 0 /\ Len(files[h.read_seqno]) = h.read_offset
      /\ DOMAIN gs \subseteq DOMAIN files
  BY SoundPop
<1>2. /\ h.read_seqno \in Nat /\ h.read_offset \in Nat
      /\ \A y \in DOMAIN files : y \in Nat /\ Len(files[y]) \in Nat
  BY LenProperties DEF Headers, FilesOK
<1>3. g.read_seqno = f /\ (g.read_offset = o \/ g.read_offset = o + 2)
  BY <1>1 DEF PopEnded, PopTaken
<1>4. ASSUME Before(gs, g, i) PROVE Before(gs, h, i)
  <2>1. PICK y, k \in Nat : Lies(gs, g, i, y, k)
    BY <1>4 DEF Before
  <2>2. /\ y \in DOMAIN gs /\ k \in 1..Len(gs[y]) /\ gs[y][k].part = "tail" /\ gs[y][k].item = i
        /\ f <= y /\ (y = f => o < k)
    BY <1>3, <2>1 DEF Lies
  <2>3. h.read_seqno <= y /\ (y = h.read_seqno => h.read_offset < k)
    BY <1>1, <1>2, <2>2
  <2> QED BY <2>2, <2>3 DEF Before, Lies
<1>5. CASE PopEnded(h, f, o, g, gs, x)
  <2>1. x = <<>> /\ g.read_offset = o
    BY <1>5 DEF PopEnded
  <2>2. ASSUME Before(files, h, i) PROVE Before(gs, g, i)
    <3>1. PICK y, k \in Nat : Lies(files, h, i, y, k)
      BY <2>2 DEF Before
    <3>2. /\ y \in DOMAIN files /\ k \in 1..Len(files[y])
          /\ files[y][k].part = "tail" /\ files[y][k].item = i
          /\ h.read_seqno <= y /\ (y = h.read_seqno => h.read_offset < k)
      BY <3>1 DEF Lies
    <3>3. f <= y /\ (y = f => o < k)
      BY <1>1, <1>2, <3>2
    <3>4. y \in DOMAIN gs /\ gs[y] = files[y]
      BY <1>1, <3>2
    <3> QED BY <1>3, <2>1, <3>2, <3>3, <3>4 DEF Before, Lies
  <2> QED BY <1>4, <2>1, <2>2
<1>6. CASE PopTaken(t, h, f, o, g, gs, x)
  <2> DEFINE s == files[f]
  <2>1. /\ o + 2 <= Len(s) /\ s[o + 1].part = "head" /\ g.read_offset = o + 2
        /\ x = <<s[o + 1].item, payload(s[o + 2])>>
    BY <1>6 DEF PopTaken
  <2>2. o + 1 \in 1..Len(s) /\ o + 2 \in 1..Len(s) /\ (o + 1) + 1 = o + 2
    BY <1>1, <1>2, <2>1
  <2>3. s[o + 2].part = "tail" /\ s[o + 2].item = s[o + 1].item
    BY <1>1, <2>1, <2>2 DEF Paired
  <2>4. x # <<>> /\ x[1] = s[o + 1].item /\ x[2] = s[o + 1].item
    BY <2>1, <2>3 DEF payload
  <2>5. Before(gs, h, x[1])
    <3>1. gs[f] = s /\ f \in DOMAIN gs
      BY <1>1
    <3>2. f = h.read_seqno => h.read_offset < o + 2
      BY <1>1, <1>2
    <3>3. Lies(gs, h, x[1], f, o + 2)
      BY <1>1, <2>2, <2>3, <2>4, <3>1, <3>2 DEF Lies
    <3>4. o + 2 \in Nat
      OBVIOUS
    <3> QED BY <3>3, <3>4 DEF Before
  <2>6. ASSUME Before(files, h, i), i # x[1] PROVE Before(gs, g, i)
    <3>1. PICK y, k \in Nat : Lies(files, h, i, y, k)
      BY <2>6 DEF Before
    <3>2. /\ y \in DOMAIN files /\ k \in 1..Len(files[y])
          /\ files[y][k].part = "tail" /\ files[y][k].item = i
          /\ h.read_seqno <= y /\ (y = h.read_seqno => h.read_offset < k)
      BY <3>1 DEF Lies
    <3>3. f <= y /\ (y = f => o < k)
      BY <1>1, <1>2, <3>2
    <3>4. y \in DOMAIN gs /\ gs[y] = files[y]
      BY <1>1, <3>2
    <3>5. ASSUME y = f PROVE o + 2 < k
      <4>1. k # o + 1 /\ k # o + 2
        BY <2>1, <2>3, <2>4, <2>6, <3>2, <3>5
      <4> QED BY <3>3, <3>5, <4>1
    <3> QED BY <1>3, <2>1, <3>2, <3>3, <3>4, <3>5 DEF Before, Lies
  <2> QED BY <1>4, <2>4, <2>5, <2>6
<1> QED BY <1>1, <1>5, <1>6

LEMMA RunPopsSound ==
  ASSUME Frame, Frame', Sound, NEW t \in Threads, runLocked(t), NEW f \in Nat, NEW o \in Nat,
         NEW x, RunPops(t, f, o, x)
  PROVE  Sound'
<1> DEFINE h == Found(t)
<1>1. /\ inside = "none" /\ pc[t] \in {"start", "woken", "finish"}
      /\ proc' = proc /\ disk' = disk /\ toRecover' = toRecover
      /\ accepted' = accepted /\ handled' = handled /\ knownLost' = knownLost
  BY RunCases
<1>2. /\ h \in Headers /\ h.read_seqno = mem.read_seqno /\ h.read_offset = mem.read_offset
      /\ h.write_seqno = mem.write_seqno /\ h.write_filesize = mem.write_filesize
      /\ h.exit_status = mem.exit_status
      /\ \A s \in Threads : s # t => h.pos[s] = mem.pos[s]
      /\ Chained(files, h)
  BY FoundHeader
<1>3. /\ PopResult(t, h, f, o, mem', files', x)
      /\ \A s \in Threads : hand'[s] = IF s = t THEN x ELSE hand[s]
      /\ \A s \in Threads : pc'[s] = IF s = t THEN "save" ELSE pc[s]
  BY DEF RunPops, Frame, ThreadTypes
<1> HIDE DEF h
<1>4. /\ FilesSound /\ (\A s \in Threads : HandSound(s))
      /\ (\A k \in accepted \ knownLost : ItemKept(k))
      /\ proc = "up" /\ FilesOK(files) /\ Linked /\ SamePlace
      /\ mem \in Headers /\ disk \in Headers /\ mem' \in Headers
  BY <1>1, NotAThread DEF Sound, Frame, InStep, OtherTypes, Linked, HeaderTypes
<1>5. Paired(files) /\ Readable(files, mem) /\ Readable(files, disk) /\ mem.exit_status = 0
  BY <1>4 DEF FilesSound, Unopened
<1>6. Readable(files, h)
  BY <1>2, <1>5, SameReadable
<1>7. /\ PopEnded(h, f, o, mem', files', x) \/ PopTaken(t, h, f, o, mem', files', x)
      /\ FilesOK(files') /\ Keeps(files, files') /\ DOMAIN files' \subseteq DOMAIN files
      /\ \A y \in DOMAIN files : h.read_seqno <= y => y \in DOMAIN files'
      /\ \A y \in DOMAIN files' : files'[y] = files[y]
      /\ mem'.write_seqno = h.write_seqno /\ mem'.write_filesize = h.write_filesize
      /\ mem'.exit_status = h.exit_status
      /\ f \in DOMAIN files /\ f \in DOMAIN files' /\ f \in {h.read_seqno, h.read_seqno + 1}
      /\ h.read_seqno <= f /\ f <= h.write_seqno
      /\ f = h.read_seqno => o = h.read_offset
      /\ f # h.read_seqno => o = 0 /\ Len(files[h.read_seqno]) = h.read_offset
      /\ o <= Len(files[f])
  BY <1>2, <1>3, <1>4, <1>5, <1>6, SoundPop
<1>8. /\ h.read_seqno \in Nat \ {0} /\ h.read_offset \in Nat /\ h.write_seqno \in Nat
      /\ \A y \in DOMAIN files : y \in Nat /\ Len(files[y]) \in Nat
  BY <1>2, <1>4, LenProperties DEF Headers, FilesOK
<1>9. Paired(files')
  <2> SUFFICES ASSUME NEW y \in DOMAIN files'
               PROVE  y \in DOMAIN files /\ files'[y] = files[y]
    BY <1>5 DEF Paired
  <2> QED BY <1>7
<1>10. mem'.read_seqno = f /\ (mem'.read_offset = o \/ mem'.read_offset = o + 2)
  BY <1>7 DEF PopEnded, PopTaken
<1>11. Readable(files', mem')
  <2> DEFINE s == files[f]
  <2>1. files'[f] = s /\ Len(s) \in Nat
    BY <1>7, <1>8
  <2>2. /\ mem'.read_offset <= Len(s)
        /\ mem'.read_offset < Len(s) => s[mem'.read_offset + 1].part = "head"
    <3>1. CASE PopEnded(h, f, o, mem', files', x)
      <4>1. mem'.read_offset = o /\ Len(s) <= o /\ o <= Len(s)
        BY <1>7, <3>1 DEF PopEnded
      <4> HIDE DEF s
      <4> QED BY <2>1, <4>1
    <3>2. CASE PopTaken(t, h, f, o, mem', files', x)
      <4>1. mem'.read_offset = o + 2 /\ o + 2 <= Len(s) /\ s[o + 1].part = "head"
        BY <3>2 DEF PopTaken
      <4>2. o + 1 \in 1..Len(s) /\ (o + 1) + 1 = o + 2
        BY <2>1, <4>1
      <4>3. s[o + 2].part = "tail"
        BY <1>5, <1>7, <4>1, <4>2 DEF Paired
      <4>4. ASSUME o + 2 < Len(s) PROVE s[(o + 2) + 1].part = "head"
        <5> DEFINE k == (o + 2) + 1
        <5>1. k \in 1..Len(s) /\ k - 1 = o + 2
          BY <2>1, <4>4
        <5>2. s[k].part # "tail"
          <6>1. s[k].part = "tail" => s[k - 1].part = "head"
            BY <1>5, <1>7, <5>1 DEF Paired
          <6> QED BY <4>3, <5>1, <6>1
        <5>3. s \in Seq(Units)
          BY <1>4, <1>7 DEF FilesOK
        <5> HIDE DEF s
        <5>4. s[k] \in Units
          BY <5>1, <5>3, ElementOfSeq
        <5> QED BY <5>2, <5>4 DEF Units
      <4> QED BY <4>1, <4>4
    <3> QED BY <1>7, <3>1, <3>2
  <2>3. ASSUME NEW y \in DOMAIN files', f < y, y < mem'.write_seqno PROVE Len(files'[y]) > 0
    <3>1. y \in DOMAIN files /\ files'[y] = files[y]
      BY <1>7
    <3>2. h.read_seqno < y /\ y < h.write_seqno
      BY <1>7, <1>8, <2>3, <3>1
    <3> QED BY <1>6, <3>1, <3>2 DEF Readable
  <2> QED BY <1>7, <1>10, <2>1, <2>2, <2>3 DEF Readable
<1>12. Readable(files', disk)
  <2>1. disk.read_seqno = h.read_seqno /\ disk.read_offset = h.read_offset
    BY <1>2, <1>4 DEF SamePlace
  <2>2. disk.read_seqno \in DOMAIN files' /\ files'[disk.read_seqno] = files[disk.read_seqno]
    BY <1>5, <1>7, <1>8, <2>1 DEF Readable
  <2>3. ASSUME NEW y \in DOMAIN files', disk.read_seqno < y, y < disk.write_seqno
        PROVE  Len(files'[y]) > 0
    BY <1>5, <1>7, <2>3 DEF Readable
  <2> QED BY <1>5, <2>2, <2>3 DEF Readable
<1>13. FilesSound'
  <2>1. h.write_seqno \in DOMAIN files'
    <3>1. h.write_seqno \in DOMAIN files
      BY <1>2, <1>4 DEF Linked
    <3> QED BY <1>7, <1>8, <3>1
  <2>2. mem'.write_filesize > 0 => Len(files'[mem'.write_seqno]) > 0
    BY <1>2, <1>4, <1>7, <2>1 DEF FilesSound
  <2> QED BY <1>1, <1>2, <1>5, <1>7, <1>9, <1>11, <1>12, <2>2 DEF FilesSound
<1>14. /\ \A i : Before(files', mem', i) => Before(files', h, i)
       /\ x # <<>> => x[1] = x[2] /\ Before(files', h, x[1])
       /\ \A i : Before(files, h, i) => Before(files', mem', i) \/ (x # <<>> /\ x[1] = i)
  BY <1>2, <1>3, <1>4, <1>5, <1>6, PoppedBefore
<1>15. \A i : Before(files', h, i) => Before(files', disk, i)
  BY <1>2, <1>4 DEF SamePlace, Before, Lies
<1>16. ASSUME NEW s \in Threads PROVE HandSound(s)'
  <2>1. CASE s = t
    <3>1. hand'[s] = x /\ pc'[s] = "save"
      BY <1>3, <2>1
    <3>2. ASSUME x # <<>> PROVE Holds(files', mem', mem'.pos[s], x[1])
      <4>1. PopTaken(t, h, f, o, mem', files', x)
        BY <1>7, <3>2 DEF PopEnded
      <4>2. /\ x[1] = files[f][o + 1].item /\ mem'.read_offset = o + 2
            /\ mem'.pos = [h.pos EXCEPT ![t] = [seqno |-> f, offset |-> o]]
        BY <4>1 DEF PopTaken
      <4>3. mem'.pos[s] = [seqno |-> f, offset |-> o]
        BY <1>2, <2>1, <4>2 DEF Headers
      <4>4. f # 0 /\ o < o + 2 /\ files'[f] = files[f]
        BY <1>7, <1>8
      <4> QED BY <4>2, <4>3, <4>4 DEF Holds
    <3>3. \A i \in Items : Before(files', mem', i) \/ (x # <<>> /\ x[1] = i) => Before(files', disk, i)
      BY <1>14, <1>15
    <3>4. x # <<>> => x[1] = x[2]
      BY <1>14
    <3> QED BY <1>1, <3>1, <3>2, <3>3, <3>4 DEF HandSound
  <2>2. CASE s # t
    <3>1. HandSound(s) /\ pc[s] # "save" /\ pc'[s] = pc[s] /\ hand'[s] = hand[s]
      BY <1>1, <1>3, <1>4, <2>2, NotAThread DEF Frame, ThreadInStep
    <3>2. mem'.pos[s] = mem.pos[s]
      BY <1>2, <1>7, <2>2 DEF PopEnded, PopTaken, Headers
    <3> DEFINE p == mem.pos[s]
               q == disk.pos[s]
    <3>3. /\ p \in [seqno : Nat, offset : Nat] /\ Names(files, p, mem.read_seqno)
          /\ q \in [seqno : Nat, offset : Nat] /\ Names(files, q, disk.read_seqno)
      BY <1>4 DEF Headers, Linked, Named
    <3> HIDE DEF p, q
    <3>4. ASSUME NEW i, Holds(files, mem, p, i) PROVE Holds(files', mem', p, i)
      <4>1. /\ p.seqno # 0 /\ (p.seqno = h.read_seqno => p.offset < h.read_offset)
            /\ p.seqno \in DOMAIN files => files[p.seqno][p.offset + 1].item = i
        BY <1>2, <3>4 DEF Holds
      <4>2. p.seqno <= h.read_seqno
        BY <1>2, <3>3, <4>1 DEF Names
      <4>3. p.seqno = mem'.read_seqno => p.offset < mem'.read_offset
        BY <1>7, <1>8, <1>10, <3>3, <4>1, <4>2
      <4>4. p.seqno \in DOMAIN files' => files'[p.seqno][p.offset + 1].item = i
        BY <1>7, <4>1
      <4> QED BY <4>1, <4>3, <4>4 DEF Holds
    <3>5. ASSUME NEW i, Holds(files, disk, q, i) PROVE Holds(files', disk, q, i)
      <4>1. \A y \in DOMAIN files' \ DOMAIN files : y > disk.read_seqno
        BY <1>7
      <4> QED BY <1>4, <1>7, <3>3, <3>5, <4>1, StillHolds
    <3> QED BY <1>1, <3>1, <3>2, <3>4, <3>5 DEF HandSound, p, q
  <2> QED BY <2>1, <2>2
<1>17. ASSUME NEW k \in accepted \ knownLost PROVE ItemKept(k)'
  <2>1. handled[k] > 0 \/ Before(files, mem, k) \/ InHand(k)
    BY <1>4 DEF ItemKept, Recoverable
  <2>2. CASE handled[k] > 0
    BY <1>1, <2>2 DEF ItemKept
  <2>3. CASE Before(files, mem, k)
    <3>1. Before(files, h, k)
      BY <1>2, <2>3 DEF Before, Lies
    <3>2. Before(files', mem', k) \/ (x # <<>> /\ x[1] = k)
      BY <1>14, <3>1
    <3> QED BY <1>3, <3>2 DEF ItemKept, InHand
  <2>4. CASE InHand(k)
    <3>1. PICK s \in Threads : hand[s] # <<>> /\ hand[s][1] = k
      BY <2>4 DEF InHand
    <3>2. CASE s = t
      <4>1. pc[t] = "finish"
        BY <1>1, <3>1, <3>2 DEF Frame, ThreadInStep
      <4> QED BY <1>1, <1>4, <3>1, <3>2, <4>1 DEF HandSound, ItemKept
    <3>3. CASE s # t
      BY <1>3, <3>1, <3>3 DEF InHand, ItemKept
    <3> QED BY <3>2, <3>3
  <2> QED BY <2>1, <2>2, <2>3, <2>4
<1> QED BY <1>1, <1>13, <1>16, <1>17 DEF Sound

LEMMA RunSound == \A t \in Threads : Frame /\ Frame' /\ Sound /\ runLocked(t) => Sound'
<1> SUFFICES ASSUME NEW t \in Threads, Frame, Frame', Sound, runLocked(t) PROVE Sound'
  OBVIOUS
<1>1. RunStays(t) \/ \E f, o \in Nat : \E x : RunPops(t, f, o, x)
  BY RunCases
<1> QED BY <1>1, RunStaysSound, RunPopsSound

LEMMA SaveSound == \A t \in Threads : Frame /\ Sound /\ saveHead(t) => Sound'
<1> SUFFICES ASSUME NEW t \in Threads, Frame, Sound, saveHead(t) PROVE Sound'
  OBVIOUS
<1>1. /\ pc[t] = "save" /\ disk' = mem /\ mem' = mem /\ files' = files /\ hand' = hand
      /\ proc' = proc /\ toRecover' = toRecover
      /\ accepted' = accepted /\ handled' = handled /\ knownLost' = knownLost
      /\ pc' = [pc EXCEPT ![t] = got(t)]
  BY DEF saveHead, history
<1>2. /\ FilesSound /\ (\A s \in Threads : HandSound(s))
      /\ (\A k \in accepted \ knownLost : ItemKept(k))
      /\ inside = t /\ proc = "up" /\ ThreadTypes /\ HeaderTypes
      /\ \A s \in Threads : s # t => pc[s] # "save"
  BY <1>1, NotAThread DEF Sound, Frame, ThreadInStep, InStep, OtherTypes
<1>3. Readable(files, mem) /\ mem.exit_status = 0
  BY <1>2 DEF FilesSound, Unopened
<1>4. FilesSound'
  BY <1>1, <1>2, <1>3 DEF FilesSound
<1>5. /\ \A s \in Threads : s # t => pc'[s] = pc[s]
      /\ pc'[t] = IF hand[t] = <<>> THEN "start" ELSE "handle"
  BY <1>1, <1>2 DEF ThreadTypes, got
<1>6. ASSUME NEW s \in Threads PROVE HandSound(s)'
  <2>1. HandSound(s) /\ (pc[s] = "handle" => hand[s] # <<>>)
    BY <1>2 DEF ThreadTypes
  <2>2. CASE s = t
    BY <1>1, <1>3, <1>5, <2>1, <2>2 DEF HandSound
  <2>3. CASE s # t
    BY <1>1, <1>2, <1>3, <1>5, <2>1, <2>3 DEF HandSound
  <2> QED BY <2>2, <2>3
<1>7. ASSUME NEW k \in accepted \ knownLost PROVE ItemKept(k)'
  BY <1>1, <1>2 DEF ItemKept, InHand, Recoverable
<1> QED BY <1>1, <1>4, <1>6, <1>7 DEF Sound

LEMMA HandleSound == \A t \in Threads : Frame /\ Sound /\ handleQueue(t) => Sound'
<1> SUFFICES ASSUME NEW t \in Threads, Frame, Sound, handleQueue(t) PROVE Sound'
  OBVIOUS
<1>1. /\ pc[t] = "handle" /\ disk' = disk /\ mem' = mem /\ files' = files /\ hand' = hand
      /\ proc' = proc /\ toRecover' = toRecover
      /\ accepted' = accepted /\ knownLost' = knownLost
      /\ pc' = [pc EXCEPT ![t] = "finish"]
  BY DEF handleQueue
<1>2. /\ FilesSound /\ (\A s \in Threads : HandSound(s))
      /\ (\A k \in accepted \ knownLost : ItemKept(k)) /\ ThreadTypes /\ OtherTypes
  BY DEF Sound, Frame
<1>3. hand[t] # <<>> /\ hand[t][1] \in Items
  BY <1>1, <1>2 DEF ThreadTypes
<1>4. hand[t][1] = hand[t][2]
  BY <1>2, <1>3 DEF HandSound
<1>5. handled' = [handled EXCEPT ![hand[t][1]] = @ + 1]
  BY <1>4 DEF handleQueue
<1>6. handled \in [Items -> Nat]
  BY <1>2 DEF OtherTypes
<1>7. /\ handled'[hand[t][1]] > 0
      /\ \A i \in Items : handled[i] > 0 => handled'[i] > 0
  BY <1>3, <1>5, <1>6
<1>8. FilesSound'
  BY <1>1, <1>2 DEF FilesSound, Unopened
<1>9. ASSUME NEW s \in Threads PROVE HandSound(s)'
  <2>1. pc'[s] = IF s = t THEN "finish" ELSE pc[s]
    BY <1>1, <1>2 DEF ThreadTypes
  <2>2. hand[s] # <<>> => hand[s][1] \in Items
    BY <1>2 DEF ThreadTypes
  <2>3. HandSound(s) /\ (pc[s] = "finish" => hand[s] # <<>>)
    BY <1>2 DEF Frame, ThreadInStep
  <2>4. pc'[s] = "finish" => handled'[hand[s][1]] > 0
    <3>1. CASE s = t
      BY <1>7, <3>1
    <3>2. CASE s # t
      BY <1>7, <2>1, <2>2, <2>3, <3>2 DEF HandSound
    <3> QED BY <3>1, <3>2
  <2>5. pc'[s] \in {"save", "handle"} => pc'[s] = pc[s]
    BY <2>1
  <2> QED BY <1>1, <2>3, <2>4, <2>5 DEF HandSound
<1>10. ASSUME NEW k \in accepted \ knownLost PROVE ItemKept(k)'
  <2>1. k \in Items /\ ItemKept(k)
    BY <1>2 DEF OtherTypes
  <2> QED BY <1>1, <1>7, <2>1 DEF ItemKept, InHand, Recoverable
<1> QED BY <1>1, <1>8, <1>9, <1>10 DEF Sound

LEMMA StutterSound == Sound /\ UNCHANGED vars => Sound'
<1> SUFFICES ASSUME Sound, UNCHANGED vars PROVE Sound'
  OBVIOUS
<1>1. /\ proc' = proc /\ mem' = mem /\ disk' = disk /\ files' = files /\ pc' = pc /\ hand' = hand
      /\ toRecover' = toRecover /\ accepted' = accepted /\ handled' = handled
      /\ knownLost' = knownLost
  BY DEF vars, threads, history
<1> QED BY <1>1 DEF Sound, FilesSound, Unopened, HandSound, ItemKept, InHand, Recoverable

LEMMA TornStays == Frame /\ [Next]_vars /\ torn => torn'
<1> SUFFICES ASSUME Frame, [Next]_vars, torn PROVE torn'
  OBVIOUS
<1> USE DEF history
<1>1. CASE open \/ recoverRotate \/ recoverDone \/ destroy \/ crash \/ pushRotate \/ stopQueue
  BY <1>1 DEF open, recoverRotate, recoverDone, destroy, crash, pushRotate, stopQueue
<1>2. CASE pushWrite
  BY <1>2 DEF pushWrite, fault
<1>3. ASSUME NEW t \in Threads, recoverOne(t) \/ runLocked(t) \/ saveHead(t) \/ handleQueue(t)
      PROVE  torn'
  BY <1>3 DEF recoverOne, runLocked, saveHead, handleQueue, fault
<1>4. CASE Terminated \/ UNCHANGED vars
  BY <1>4 DEF Terminated, vars
<1> QED BY <1>1, <1>2, <1>3, <1>4 DEF Next, thread

LEMMA SoundKept ==
  Frame /\ Frame' /\ (~torn => Sound) /\ [Next]_vars => (~torn => Sound)'
<1> SUFFICES ASSUME Frame, Frame', ~torn => Sound, [Next]_vars, ~torn' PROVE Sound'
  OBVIOUS
<1>1. Sound
  BY TornStays
<1>2. CASE open \/ recoverRotate \/ recoverDone \/ destroy \/ crash \/ pushRotate \/ pushWrite
           \/ stopQueue
  BY <1>1, <1>2, OpenSound, RecoverRotateSound, RecoverDoneSound, DestroySound, CrashSound,
     RotateSound, WriteSound, StopSound
<1>3. CASE \E t \in Threads : recoverOne(t) \/ thread(t)
  BY <1>1, <1>3, RecoverSound, RunSound, SaveSound, HandleSound DEF thread
<1>4. CASE Terminated \/ UNCHANGED vars
  BY <1>1, <1>4, StutterSound DEF Terminated
<1> QED BY <1>2, <1>3, <1>4 DEF Next

\* What the two invariants say of header.dat and of m_head.
LEMMA NothingIsLost == Frame /\ (~torn => Sound) => AcceptedIsKept
<1> SUFFICES ASSUME Frame, ~torn, Sound PROVE NothingSkipped /\ CrashSafe
  BY DEF AcceptedIsKept, NothingSkipped, CrashSafe
<1>1. mem \in Headers /\ disk \in Headers /\ FilesOK(files) /\ Linked
  BY DEF Frame, HeaderTypes
<1>2. ASSUME proc = "up", NEW i \in accepted \ knownLost
      PROVE  \/ handled[i] > 0
             \/ i \in unread(mem)
             \/ \E t \in Threads : hand[t] # <<>> /\ hand[t][1] = i
  <2>1. handled[i] > 0 \/ Before(files, mem, i) \/ InHand(i)
    BY <1>2 DEF Sound, ItemKept, Recoverable
  <2>2. Before(files, mem, i) => i \in unread(mem)
    BY <1>1, UnreadIs
  <2> QED BY <2>1, <2>2 DEF InHand
<1>3. ASSUME NEW i \in accepted \ knownLost
      PROVE  \/ handled[i] > 0
             \/ i \in unread(disk)
             \/ \E t \in Threads :
                  \/ heldBehind(t) /\ hand[t][1] = i
                  \/ /\ disk.exit_status = 0
                     /\ isRecovered(disk, disk.pos[t])
                     /\ itemAt(disk.pos[t])[1] = i
  <2>1. KeptInHeader(i)
    BY HeaderKeeps
  <2>2. Before(files, disk, i) => i \in unread(disk)
    BY <1>1, UnreadIs
  <2>3. \A t \in Threads : Entry(files, disk, disk.pos[t], i) =>
          isRecovered(disk, disk.pos[t]) /\ itemAt(disk.pos[t])[1] = i
    BY DEF Entry, isRecovered, itemAt
  <2> QED BY <2>1, <2>2, <2>3 DEF KeptInHeader
<1> QED BY <1>2, <1>3 DEF NothingSkipped, CrashSafe

\* Whatever the threads, crashes and failing writes do, as long as no write was
\* short: in a running process no accepted item is passed by the reader, and what
\* header.dat says at any moment finds every accepted item that is not yet
\* handled, unless a thread holds it from a file that the header has left.
THEOREM ItemsAreKept == Spec => []AcceptedIsKept
<1> DEFINE Kept == Frame /\ (~torn => Sound)
<1>1. Init => Kept
  BY InitFrame, InitSound
<1>2. Kept /\ [Next]_vars => Kept'
  BY FrameKept, SoundKept
<1>3. Kept => AcceptedIsKept
  BY NothingIsLost
<1> QED BY <1>1, <1>2, <1>3, PTL DEF Spec

-----------------------------------------------------------------------------
(* The third invariant, as long as there was neither a crash nor a short write: *)
(* the files hold the items in the order in which they were accepted           *)

Increasing(fs) ==
  \A f, g \in DOMAIN fs : \A k \in 1..Len(fs[f]), l \in 1..Len(fs[g]) :
    /\ fs[f][k].part = "tail" /\ fs[g][l].part = "tail"
    /\ f < g \/ (f = g /\ k < l)
    => fs[f][k].item < fs[g][l].item

Taken(i) == handled[i] > 0 \/ InHand(i)
TakenFirst(i) == Taken(i) => \A j : Before(files, mem, j) => i < j

InOrder ==
  /\ proc # "up" => disk.pos = NoPositions
  /\ Increasing(files)
  /\ \A f \in DOMAIN files : f > mem.write_seqno => Len(files[f]) = 0
  /\ \A i \in accepted : TakenFirst(i)

\* What is before a reader was so, or has just been written.
LEMMA BeforeWas ==
  ASSUME NEW fs, NEW gs, NEW w \in Nat, NEW s, FilesOK(fs), Appended(fs, gs, w, s),
         NEW h, NEW g, g.read_seqno = h.read_seqno, g.read_offset = h.read_offset,
         NEW j, Before(gs, g, j)
  PROVE  Before(fs, h, j) \/ \E k \in 1..Len(s) : s[k].part = "tail" /\ s[k].item = j
<1> DEFINE n == End(fs, w)
<1>1. Extended(fs, gs, w, s)
  BY AppendedUnits
<1>2. /\ n \in Nat /\ Len(s) \in Nat /\ Len(gs[w]) = n + Len(s)
      /\ w \in DOMAIN fs => (\A l \in 1..n : gs[w][l] = fs[w][l]) /\ n = Len(fs[w])
      /\ w \notin DOMAIN fs => n = 0
      /\ \A l \in 1..Len(s) : gs[w][n + l] = s[l]
  BY <1>1 DEF Extended, End
<1> HIDE DEF n
<1>3. PICK f, k \in Nat : Lies(gs, g, j, f, k)
  BY DEF Before
<1>4. /\ f \in DOMAIN gs /\ k \in 1..Len(gs[f]) /\ gs[f][k].part = "tail" /\ gs[f][k].item = j
      /\ h.read_seqno <= f /\ (f = h.read_seqno => h.read_offset < k)
  BY <1>3 DEF Lies
<1>5. CASE f # w
  <2>1. f \in DOMAIN fs /\ gs[f] = fs[f]
    BY <1>4, <1>5 DEF Appended
  <2> QED BY <1>4, <2>1 DEF Before, Lies
<1>6. CASE f = w /\ k <= n
  <2>1. w \in DOMAIN fs /\ k \in 1..Len(fs[w]) /\ gs[w][k] = fs[w][k]
    BY <1>2, <1>4, <1>6
  <2>2. Lies(fs, h, j, f, k)
    BY <1>4, <1>6, <2>1 DEF Lies
  <2> QED BY <2>2 DEF Before
<1>7. CASE f = w /\ ~(k <= n)
  <2> DEFINE l == k - n
  <2>1. l \in 1..Len(s) /\ n + l = k
    BY <1>2, <1>4, <1>7
  <2> HIDE DEF l
  <2>2. s[l].part = "tail" /\ s[l].item = j
    BY <1>2, <1>4, <1>7, <2>1
  <2> QED BY <2>1, <2>2
<1> QED BY <1>5, <1>6, <1>7

LEMMA IncreasingAppended ==
  ASSUME NEW fs, NEW gs, NEW w \in Nat, NEW s, FilesOK(fs), Appended(fs, gs, w, s),
         Increasing(fs), NoneOrWhole(s),
         s # <<>> => /\ \A f \in DOMAIN fs : f > w => Len(fs[f]) = 0
                     /\ \A f \in DOMAIN fs : \A k \in 1..Len(fs[f]) :
                          fs[f][k].part = "tail" => fs[f][k].item < s[2].item
  PROVE  Increasing(gs)
<1> DEFINE n == End(fs, w)
           New(f, k) == f = w /\ ~(k <= n)
<1>1. Extended(fs, gs, w, s)
  BY AppendedUnits
<1>2. /\ n \in Nat /\ Len(s) \in Nat /\ Len(gs[w]) = n + Len(s)
      /\ w \in DOMAIN fs => (\A l \in 1..n : gs[w][l] = fs[w][l]) /\ n = Len(fs[w])
      /\ w \notin DOMAIN fs => n = 0
      /\ \A l \in 1..Len(s) : gs[w][n + l] = s[l]
  BY <1>1 DEF Extended, End
<1> HIDE DEF n
<1>3. ASSUME NEW f \in DOMAIN gs, NEW k \in 1..Len(gs[f]), ~New(f, k)
      PROVE  f \in DOMAIN fs /\ k \in 1..Len(fs[f]) /\ gs[f][k] = fs[f][k]
  <2>1. CASE f # w
    BY <1>3, <2>1 DEF Appended
  <2>2. CASE f = w
    BY <1>2, <1>3, <2>2
  <2> QED BY <2>1, <2>2
<1>4. ASSUME NEW f \in DOMAIN gs, NEW k \in 1..Len(gs[f]), New(f, k), gs[f][k].part = "tail"
      PROVE  s # <<>> /\ k = n + 2 /\ gs[f][k].item = s[2].item
  <2> DEFINE l == k - n
  <2>1. l \in 1..Len(s) /\ n + l = k
    BY <1>2, <1>4
  <2> HIDE DEF l
  <2>2. gs[f][k] = s[l]
    BY <1>2, <1>4, <2>1
  <2>3. s # <<>>
    BY <1>2, <2>1
  <2>4. PICK i \in Items : Whole(s, i)
    BY <2>3 DEF NoneOrWhole
  <2>5. l = 2
    <3>1. l = 1 \/ l = 2
      BY <2>1, <2>4 DEF Whole
    <3>2. l # 1
      BY <1>4, <2>2, <2>4 DEF Whole
    <3> QED BY <3>1, <3>2
  <2> QED BY <2>1, <2>2, <2>3, <2>5
<1>5. ASSUME NEW f \in DOMAIN gs, NEW g \in DOMAIN gs,
             NEW k \in 1..Len(gs[f]), NEW l \in 1..Len(gs[g]),
             gs[f][k].part = "tail", gs[g][l].part = "tail", f < g \/ (f = g /\ k < l)
      PROVE  gs[f][k].item < gs[g][l].item
  <2>1. CASE ~New(f, k) /\ ~New(g, l)
    BY <1>3, <1>5, <2>1 DEF Increasing
  <2>2. CASE ~New(f, k) /\ New(g, l)
    BY <1>3, <1>4, <1>5, <2>2
  <2>3. CASE New(f, k)
    <3>1. s # <<>> /\ k = n + 2 /\ f = w
      BY <1>4, <1>5, <2>3
    <3>2. CASE New(g, l)
      BY <1>2, <1>4, <1>5, <2>3, <3>1, <3>2
    <3>3. CASE ~New(g, l)
      <4>1. g \in DOMAIN fs /\ l \in 1..Len(fs[g])
        BY <1>3, <3>3
      <4>2. g \in Nat /\ w \in Nat
        BY <4>1 DEF FilesOK
      <4>3. ~(g = w /\ k < l)
        BY <1>2, <3>1, <4>1
      <4>4. g > w
        BY <1>5, <3>1, <4>2, <4>3
      <4>5. Len(fs[g]) = 0
        BY <3>1, <4>1, <4>4
      <4> QED BY <4>1, <4>5
    <3> QED BY <3>2, <3>3
  <2> QED BY <2>1, <2>2, <2>3
<1> QED BY <1>5, Zenon DEF Increasing

\* The item that pop takes was written before all those that it leaves.
LEMMA PoppedFirst ==
  ASSUME FilesOK(files), NEW h \in Headers, NEW t \in Threads, NEW f \in Nat, NEW o \in Nat,
         NEW g, NEW gs, NEW x, PopResult(t, h, f, o, g, gs, x),
         Chained(files, h), Paired(files), Readable(files, h), Increasing(files)
  PROVE  /\ Increasing(gs)
         /\ \A j : Before(gs, g, j) => Before(files, h, j)
         /\ x # <<>> => \A j : Before(gs, g, j) => x[1] < j
<1>1. /\ PopEnded(h, f, o, g, gs, x) \/ PopTaken(t, h, f, o, g, gs, x)
      /\ DOMAIN gs \subseteq DOMAIN files /\ (\A y \in DOMAIN gs : gs[y] = files[y])
      /\ f \in DOMAIN files /\ f \in DOMAIN gs
  BY SoundPop
<1>2. Increasing(gs)
  BY <1>1 DEF Increasing
<1>3. ASSUME NEW j, Before(gs, g, j) PROVE Before(files, h, j)
  <2>1. Before(gs, h, j)
    BY <1>3, PoppedBefore
  <2> QED BY <1>1, <2>1 DEF Before, Lies
<1>4. ASSUME x # <<>>, NEW j, Before(gs, g, j) PROVE x[1] < j
  <2>1. PopTaken(t, h, f, o, g, gs, x)
    BY <1>1, <1>4 DEF PopEnded
  <2> DEFINE s == files[f]
  <2>2. /\ o + 2 <= Len(s) /\ s[o + 1].part = "head" /\ x[1] = s[o + 1].item
        /\ g.read_seqno = f /\ g.read_offset = o + 2
    BY <2>1 DEF PopTaken
  <2>3. Len(s) \in Nat
    BY <1>1, LenProperties DEF FilesOK
  <2>4. o + 1 \in 1..Len(s) /\ o + 2 \in 1..Len(s) /\ (o + 1) + 1 = o + 2
    BY <2>2, <2>3
  <2>5. s[o + 2].part = "tail" /\ s[o + 2].item = x[1]
    BY <1>1, <2>2, <2>4 DEF Paired
  <2>6. PICK y, k \in Nat : Lies(gs, g, j, y, k)
    BY <1>4 DEF Before
  <2>7. /\ y \in DOMAIN files /\ k \in 1..Len(files[y])
        /\ files[y][k].part = "tail" /\ files[y][k].item = j
        /\ f <= y /\ (y = f => o + 2 < k)
    BY <1>1, <2>2, <2>6 DEF Lies
  <2>8. f < y \/ (f = y /\ o + 2 < k)
    BY <2>7
  <2> QED BY <1>1, <2>4, <2>5, <2>7, <2>8 DEF Increasing
<1> QED BY <1>2, <1>3, <1>4

LEMMA InitInOrder == Init => InOrder
<1> SUFFICES ASSUME Init PROVE InOrder
  OBVIOUS
<1>1. disk.pos = NoPositions /\ DOMAIN files = {} /\ accepted = {}
  BY DEF Init, NewHeader
<1> QED BY <1>1 DEF InOrder, Increasing

\* Steps that leave the files and the reader of m_head alone.
LEMMA QuietOrder ==
  ASSUME InOrder, files' = files, mem'.read_seqno = mem.read_seqno,
         mem'.read_offset = mem.read_offset, mem'.write_seqno = mem.write_seqno,
         accepted' = accepted, \A i : Taken(i)' => Taken(i),
         proc' # "up" => disk'.pos = NoPositions
  PROVE  InOrder'
<1>1. \A j : Before(files, mem, j)' => Before(files, mem, j)
  BY DEF Before, Lies
<1>2. ASSUME NEW i \in accepted PROVE TakenFirst(i)'
  <2>1. TakenFirst(i)
    BY DEF InOrder
  <2> QED BY <1>1, <2>1 DEF TakenFirst
<1> QED BY <1>2 DEF InOrder

\* Steps that at most create the file to write.
LEMMA CreatedOrder ==
  ASSUME InOrder, FilesOK(files), NEW w \in Nat, Appended(files, files', w, <<>>),
         mem \in Headers, mem' \in Headers,
         mem'.read_seqno = mem.read_seqno, mem'.read_offset = mem.read_offset,
         mem.write_seqno <= mem'.write_seqno, w <= mem'.write_seqno,
         accepted' = accepted, \A i : Taken(i)' => Taken(i),
         proc' # "up" => disk'.pos = NoPositions
  PROVE  InOrder'
<1>1. ASSUME NEW j, Before(files, mem, j)' PROVE Before(files, mem, j)
  <2>1. Before(files, mem, j) \/ \E k \in 1..Len(<<>>) : <<>>[k].part = "tail" /\ <<>>[k].item = j
    BY <1>1, BeforeWas
  <2> QED BY <2>1
<1>2. ASSUME NEW i \in accepted PROVE TakenFirst(i)'
  <2>1. TakenFirst(i)
    BY DEF InOrder
  <2> QED BY <1>1, <2>1 DEF TakenFirst
<1>3. Increasing(files')
  <2>1. NoneOrWhole(<<>>)
    BY DEF NoneOrWhole
  <2> QED BY <2>1, IncreasingAppended DEF InOrder
<1>4. ASSUME NEW f \in DOMAIN files', f > mem'.write_seqno PROVE Len(files'[f]) = 0
  <2>1. mem.write_seqno \in Nat /\ mem'.write_seqno \in Nat /\ f \in Nat
    BY DEF Headers, Appended, FilesOK
  <2>2. f # w /\ f > mem.write_seqno
    BY <1>4, <2>1
  <2>3. f \in DOMAIN files /\ files'[f] = files[f]
    BY <2>2 DEF Appended
  <2> QED BY <2>2, <2>3 DEF InOrder
<1> QED BY <1>2, <1>3, <1>4 DEF InOrder

LEMMA OpenInOrder == Frame /\ Frame' /\ InOrder /\ open => InOrder'
<1> SUFFICES ASSUME Frame, Frame', InOrder, open PROVE InOrder'
  OBVIOUS
<1> DEFINE w == disk.write_seqno
           n == Len(created(files, w)[w])
           h == [disk EXCEPT !.write_filesize = n]
<1>1. /\ disk \in Headers /\ mem' \in Headers /\ FilesOK(files) /\ mem = disk
      /\ proc = "down" /\ disk.pos = NoPositions
  BY DEF Frame, HeaderTypes, InStep, open, InOrder
<1>2. w \in Nat
  BY <1>1 DEF Headers
<1>3. files' = created(files, w) /\ disk' = disk /\ hand' = hand
  BY DEF open
<1>4. accepted' = accepted /\ handled' = handled
  BY DEF open, history
<1>5. mem' = h \/ mem' = [h EXCEPT !.exit_status = 0]
  BY Zenon DEF open
<1> HIDE DEF n
<1>6. /\ mem'.read_seqno = disk.read_seqno /\ mem'.read_offset = disk.read_offset
      /\ mem'.write_seqno = w
  BY <1>1, <1>5 DEF Headers
<1>7. Appended(files, files', w, <<>>)
  BY <1>1, <1>2, <1>3, CreatedIsAppended
<1>8. \A i : Taken(i)' => Taken(i)
  BY <1>3, <1>4 DEF Taken, InHand
<1> QED BY <1>1, <1>2, <1>3, <1>4, <1>6, <1>7, <1>8, CreatedOrder

\* Without a crash the header has no entries to recover.
LEMMA RecoverInOrder ==
  ASSUME Frame, InOrder, NEW t \in Threads, recoverOne(t)
  PROVE  InOrder'
<1>1. proc = "recover" /\ mem.pos = disk.pos /\ disk.pos = NoPositions
  BY DEF recoverOne, Frame, Linked, InOrder
<1>2. mem.pos[t].seqno = 0
  BY <1>1 DEF NoPositions, NoPos
<1>3. ~isRecovered(mem, mem.pos[t])
  BY <1>2 DEF isRecovered
<1>4. files' = files /\ mem' = mem /\ disk' = disk
  BY <1>3 DEF recoverOne
<1>5. hand' = hand /\ accepted' = accepted /\ handled' = handled
  BY DEF recoverOne, threads
<1>6. \A i : Taken(i)' => Taken(i)
  BY <1>5 DEF Taken, InHand
<1> QED BY <1>1, <1>4, <1>5, <1>6, QuietOrder

LEMMA NoRecoverRotate == Frame /\ InOrder /\ recoverRotate => FALSE
<1> SUFFICES ASSUME Frame, InOrder, recoverRotate PROVE FALSE
  OBVIOUS
<1>1. proc = "recover" /\ mem.pos = disk.pos /\ disk.pos = NoPositions
  BY DEF recoverRotate, Frame, Linked, InOrder
<1>2. PICK t \in Threads : isRecovered(mem, mem.pos[t])
  BY DEF recoverRotate, Frame, OtherTypes
<1> QED BY <1>1, <1>2 DEF isRecovered, NoPositions, NoPos

LEMMA RestInOrder ==
  ASSUME Frame, InOrder, recoverDone \/ destroy \/ stopQueue
  PROVE  InOrder'
<1>1. mem \in Headers
  BY DEF Frame, HeaderTypes
<1>2. hand' = hand /\ accepted' = accepted /\ handled' = handled /\ files' = files
  BY DEF recoverDone, destroy, stopQueue, history
<1>3. \A i : Taken(i)' => Taken(i)
  BY <1>2 DEF Taken, InHand
<1>4. CASE recoverDone
  <2>1. proc' = "up" /\ mem' = [[mem EXCEPT !.pos = NoPositions] EXCEPT !.exit_status = 0]
    BY <1>4 DEF recoverDone
  <2>2. /\ mem'.read_seqno = mem.read_seqno /\ mem'.read_offset = mem.read_offset
        /\ mem'.write_seqno = mem.write_seqno
    BY <1>1, <2>1 DEF Headers
  <2> QED BY <1>2, <1>3, <2>1, <2>2, QuietOrder
<1>5. CASE destroy
  <2>1. mem' = [mem EXCEPT !.exit_status = 1, !.pos = NoPositions] /\ disk' = mem'
    BY <1>5 DEF destroy, closed
  <2>2. /\ mem'.read_seqno = mem.read_seqno /\ mem'.read_offset = mem.read_offset
        /\ mem'.write_seqno = mem.write_seqno /\ disk'.pos = NoPositions
    BY <1>1, <2>1 DEF Headers
  <2> QED BY <1>2, <1>3, <2>2, QuietOrder
<1>6. CASE stopQueue
  <2>1. mem' = mem /\ proc' = "up"
    BY <1>6 DEF stopQueue
  <2> QED BY <1>2, <1>3, <2>1, QuietOrder
<1> QED BY <1>4, <1>5, <1>6

LEMMA RotateInOrder == Frame /\ Frame' /\ InOrder /\ pushRotate => InOrder'
<1> SUFFICES ASSUME Frame, Frame', InOrder, pushRotate PROVE InOrder'
  OBVIOUS
<1> DEFINE w == mem'.write_seqno
<1>1. /\ proc' = "up" /\ hand' = hand /\ accepted' = accepted /\ handled' = handled
      /\ mem' = rotated(mem)
      /\ (mem' = mem /\ files' = files) \/ files' = created(files, w)
  BY DEF pushRotate, leaveFull, threads, history
<1>2. mem \in Headers /\ mem' \in Headers /\ FilesOK(files)
  BY DEF Frame, HeaderTypes
<1>3. /\ mem'.read_seqno = mem.read_seqno /\ mem'.read_offset = mem.read_offset
      /\ w \in Nat /\ mem.write_seqno <= w
  BY <1>1, <1>2, RotatedHeader DEF Headers
<1>4. \A i : Taken(i)' => Taken(i)
  BY <1>1 DEF Taken, InHand
<1>5. CASE mem' = mem /\ files' = files
  BY <1>1, <1>4, <1>5, QuietOrder
<1>6. CASE files' = created(files, w)
  <2>1. Appended(files, files', w, <<>>)
    BY <1>2, <1>3, <1>6, CreatedIsAppended
  <2>2. w <= mem'.write_seqno
    BY <1>3
  <2> QED BY <1>1, <1>2, <1>3, <1>4, <2>1, <2>2, CreatedOrder
<1> QED BY <1>1, <1>5, <1>6

\* A new item is larger than all that were accepted before.
LEMMA WriteInOrder ==
  Frame /\ Frame' /\ Written /\ Sound /\ InOrder /\ pushWrite /\ ~torn' => InOrder'
<1> SUFFICES ASSUME Frame, Frame', Written, Sound, InOrder, pushWrite, ~torn' PROVE InOrder'
  OBVIOUS
<1> DEFINE w == mem.write_seqno
<1>1. /\ inside = "writer" /\ hand' = hand /\ proc' = proc /\ handled' = handled
  BY DEF pushWrite
<1>2. PICK outcome \in {"whole", "short", "none"} :
        /\ files' = append(files, mem, pushed, pushed, outcome)
        /\ mem' = counted(mem, outcome) /\ torn' = (torn \/ outcome = "short")
        /\ accepted' = IF outcome = "whole" THEN accepted \cup {pushed} ELSE accepted
  BY Zenon DEF pushWrite, outcomes, fault
<1>3. outcome \in {"whole", "none"}
  BY <1>2
<1>4. /\ mem \in Headers /\ mem' \in Headers /\ FilesOK(files) /\ FilesOK(files')
      /\ w \in DOMAIN files /\ w \in Nat /\ proc = "up"
  BY <1>1, NotAThread DEF Frame, HeaderTypes, Headers, InStep, OtherTypes, Linked
<1>5. pushed \in Items /\ pushed \in Payloads /\ pushed \in Nat /\ pushed # 0
  BY <1>1, FileAssumption DEF Frame, OtherTypes, InStep, Items, Payloads
<1> DEFINE new == units(pushed, pushed, outcome)
<1>6. /\ NoneOrWhole(new) /\ (outcome = "whole" => Whole(new, pushed))
      /\ (outcome = "none" => new = <<>>)
  BY <1>3, <1>5, WrittenUnits
<1>7. Appended(files, files', w, new)
  <2>1. Appended(files, append(files, mem, pushed, pushed, outcome), w, new)
    BY <1>4, <1>5, AppendedFile
  <2> QED BY <1>2, <2>1
<1>8. /\ mem'.read_seqno = mem.read_seqno /\ mem'.read_offset = mem.read_offset
      /\ mem'.write_seqno = w
  BY <1>2, <1>4, CountedHeader
<1> HIDE DEF new
<1>9. /\ \A i \in accepted : i \in Nat /\ i < pushed
      /\ Tails(files, accepted \cup {0})
  <2>1. accepted \subseteq 1..pushed /\ pushed \notin accepted
    BY <1>1 DEF Written
  <2> QED BY <1>5, <2>1 DEF Written
<1>10. Increasing(files')
  <2>1. ASSUME new # <<>> PROVE new[2].item = pushed
    BY <1>3, <1>6, <2>1 DEF Whole
  <2>2. ASSUME NEW f \in DOMAIN files, NEW k \in 1..Len(files[f]), files[f][k].part = "tail"
        PROVE  files[f][k].item < pushed
    <3>1. files[f][k].item \in accepted \cup {0}
      BY <1>9, <2>2 DEF Tails
    <3> QED BY <1>5, <1>9, <3>1
  <2>3. \A f \in DOMAIN files : f > w => Len(files[f]) = 0
    BY DEF InOrder
  <2>4. Increasing(files)
    BY DEF InOrder
  <2> QED BY <1>4, <1>6, <1>7, <2>1, <2>2, <2>3, <2>4, IncreasingAppended
<1>11. ASSUME NEW f \in DOMAIN files', f > mem'.write_seqno PROVE Len(files'[f]) = 0
  <2>1. f # w /\ f > w
    BY <1>4, <1>8, <1>11
  <2>2. f \in DOMAIN files /\ files'[f] = files[f]
    BY <1>7, <2>1 DEF Appended
  <2> QED BY <2>1, <2>2 DEF InOrder
<1>12. ASSUME NEW i, Taken(i) PROVE i \in accepted \cup {0} \/ i \notin Items
  <2>1. CASE InHand(i)
    <3>1. PICK t \in Threads : hand[t] # <<>> /\ hand[t][1] = i
      BY <2>1 DEF InHand
    <3>2. hand[t][2] = i
      BY <3>1 DEF Sound, HandSound
    <3> QED BY <3>1, <3>2 DEF Written
  <2>2. CASE handled[i] > 0
    BY <2>2 DEF Written
  <2> QED BY <1>12, <2>1, <2>2 DEF Taken
<1>13. ASSUME NEW j, Before(files', mem', j) PROVE Before(files, mem, j) \/ j = pushed
  <2>1. CASE Before(files, mem, j)
    BY <2>1
  <2>2. CASE \E k \in 1..Len(new) : new[k].part = "tail" /\ new[k].item = j
    <3>1. outcome = "whole"
      BY <1>3, <1>6, <2>2
    <3> QED BY <1>6, <2>2, <3>1 DEF Whole
  <2> QED BY <1>4, <1>7, <1>8, <1>13, <2>1, <2>2, BeforeWas
<1>14. ASSUME NEW i \in accepted' PROVE TakenFirst(i)'
  <2>1. Taken(i)' => Taken(i)
    BY <1>1 DEF Taken, InHand
  <2>2. CASE i \in accepted
    <3>1. TakenFirst(i) /\ i < pushed
      BY <1>9, <2>2 DEF InOrder
    <3> QED BY <1>13, <2>1, <3>1 DEF TakenFirst
  <2>3. CASE i \notin accepted
    <3>1. i = pushed
      BY <1>2, <1>14, <2>3
    <3>2. ~Taken(i)
      BY <1>5, <1>12, <2>3, <3>1
    <3> QED BY <2>1, <3>2 DEF TakenFirst
  <2> QED BY <2>2, <2>3
<1> QED BY <1>1, <1>4, <1>10, <1>11, <1>14 DEF InOrder

LEMMA RunInOrder ==
  ASSUME Frame, Frame', Sound, InOrder, NEW t \in Threads, runLocked(t)
  PROVE  InOrder'
<1>1. /\ inside = "none" /\ proc' = proc /\ disk' = disk
      /\ accepted' = accepted /\ handled' = handled
      /\ RunStays(t) \/ \E f, o \in Nat : \E x : RunPops(t, f, o, x)
  BY RunCases
<1>2. /\ FilesOK(files) /\ hand \in [Threads -> {<<>>} \cup Items \X Payloads]
  BY DEF Frame, ThreadTypes
<1> DEFINE h == Found(t)
<1>3. /\ h \in Headers /\ Chained(files, h)
      /\ h.read_seqno = mem.read_seqno /\ h.read_offset = mem.read_offset
      /\ h.write_seqno = mem.write_seqno
  BY FoundHeader
<1>4. \A j : Before(files, h, j) => Before(files, mem, j)
  BY <1>3 DEF Before, Lies
<1> HIDE DEF h
<1>5. proc' # "up" => disk'.pos = NoPositions
  BY <1>1 DEF InOrder
<1>6. CASE RunStays(t)
  <2>1. /\ mem' = h /\ files' = files /\ hand' = [hand EXCEPT ![t] = <<>>]
    BY <1>6 DEF RunStays, h
  <2>2. \A i : Taken(i)' => Taken(i)
    BY <1>1, <1>2, <2>1 DEF Taken, InHand
  <2> QED BY <1>1, <1>3, <1>5, <2>1, <2>2, QuietOrder
<1>7. CASE \E f, o \in Nat : \E x : RunPops(t, f, o, x)
  <2>1. PICK f, o \in Nat : \E x : RunPops(t, f, o, x)
    BY <1>7
  <2>1a. PICK x : RunPops(t, f, o, x)
    BY <2>1
  <2>2. /\ PopResult(t, h, f, o, mem', files', x) /\ hand' = [hand EXCEPT ![t] = x]
    BY <2>1a DEF RunPops, h
  <2>3. Paired(files) /\ Increasing(files)
    BY DEF Sound, FilesSound, InOrder
  <2>4. Readable(files, h)
    <3>1. ~Unopened
      BY <2>1a DEF RunPops, Unopened
    <3>2. Readable(files, mem)
      BY <3>1 DEF Sound, FilesSound
    <3> QED BY <1>3, <3>2, SameReadable
  <2>5. /\ Increasing(files')
        /\ \A j : Before(files', mem', j) => Before(files, h, j)
        /\ x # <<>> => \A j : Before(files', mem', j) => x[1] < j
    BY <1>2, <1>3, <2>2, <2>3, <2>4, PoppedFirst
  <2>6. /\ mem'.write_seqno = mem.write_seqno
        /\ DOMAIN files' \subseteq DOMAIN files
        /\ \A y \in DOMAIN files' : files'[y] = files[y]
    BY <1>2, <1>3, <2>2, <2>3, <2>4, SoundPop
  <2>7. \A f1 \in DOMAIN files' : f1 > mem'.write_seqno => Len(files'[f1]) = 0
    BY <2>6 DEF InOrder
  <2>8. ASSUME NEW i, Taken(i)' PROVE Taken(i) \/ (x # <<>> /\ x[1] = i)
    <3>1. CASE handled'[i] > 0
      BY <1>1, <3>1 DEF Taken
    <3>2. CASE InHand(i)'
      <4>1. PICK s \in Threads : hand'[s] # <<>> /\ hand'[s][1] = i
        BY <3>2 DEF InHand
      <4>2. CASE s = t
        BY <1>2, <2>2, <4>1, <4>2
      <4>3. CASE s # t
        BY <1>2, <2>2, <4>1, <4>3 DEF Taken, InHand
      <4> QED BY <4>2, <4>3
    <3> QED BY <2>8, <3>1, <3>2 DEF Taken
  <2>9. ASSUME NEW i \in accepted' PROVE TakenFirst(i)'
    <3>1. TakenFirst(i)
      BY <1>1, <2>9 DEF InOrder
    <3>2. \A j : Before(files', mem', j) => Before(files, mem, j)
      BY <1>4, <2>5
    <3> QED BY <2>5, <2>8, <3>1, <3>2 DEF TakenFirst
  <2> QED BY <1>5, <2>5, <2>7, <2>9 DEF InOrder
<1> QED BY <1>1, <1>6, <1>7

LEMMA ThreadInOrder ==
  ASSUME Frame, Frame', Sound, InOrder, NEW t \in Threads, thread(t)
  PROVE  InOrder'
<1>1. CASE runLocked(t)
  BY <1>1, RunInOrder
<1>2. CASE saveHead(t)
  <2>1. /\ proc' = proc /\ files' = files /\ mem' = mem /\ hand' = hand
        /\ accepted' = accepted /\ handled' = handled /\ inside = t
    BY <1>2 DEF saveHead, history, Frame, ThreadInStep
  <2>2. \A i : Taken(i)' => Taken(i)
    BY <2>1 DEF Taken, InHand
  <2>3. proc = "up"
    BY <2>1, NotAThread DEF Frame, InStep
  <2> QED BY <2>1, <2>2, <2>3, QuietOrder
<1>3. CASE handleQueue(t)
  <2>1. /\ pc[t] = "handle" /\ proc' = proc /\ files' = files /\ mem' = mem /\ disk' = disk
        /\ hand' = hand /\ accepted' = accepted
    BY <1>3 DEF handleQueue
  <2>2. /\ hand[t] # <<>> /\ handled \in [Items -> Nat] /\ hand[t][1] \in Items
    BY <2>1 DEF Frame, ThreadTypes, OtherTypes
  <2>3. hand[t][1] = hand[t][2]
    BY <2>2 DEF Sound, HandSound
  <2>4. handled' = [handled EXCEPT ![hand[t][1]] = @ + 1]
    BY <1>3, <2>3 DEF handleQueue
  <2>5. ASSUME NEW i, Taken(i)' PROVE Taken(i)
    <3>1. CASE i = hand[t][1]
      BY <2>2, <3>1 DEF Taken, InHand
    <3>2. CASE i # hand[t][1]
      <4>1. handled'[i] = handled[i]
        BY <2>2, <2>4, <3>2
      <4> QED BY <2>1, <2>5, <4>1 DEF Taken, InHand
    <3> QED BY <3>1, <3>2
  <2>6. proc' # "up" => disk'.pos = NoPositions
    BY <2>1 DEF InOrder
  <2> QED BY <2>1, <2>5, <2>6, QuietOrder
<1> QED BY <1>1, <1>2, <1>3 DEF thread

\* A crash is never undone.
LEMMA CrashStays == Frame /\ [Next]_vars /\ crashes # 0 => crashes' # 0
<1> SUFFICES ASSUME Frame, [Next]_vars, crashes # 0 PROVE crashes' # 0
  OBVIOUS
<1> USE DEF bounds
<1>1. CASE open \/ recoverRotate \/ recoverDone \/ destroy \/ pushRotate \/ pushWrite
           \/ stopQueue
  BY <1>1 DEF open, recoverRotate, recoverDone, destroy, pushRotate, pushWrite, stopQueue
<1>2. CASE crash
  BY <1>2 DEF crash, Frame, OtherTypes
<1>3. ASSUME NEW t \in Threads, recoverOne(t) \/ runLocked(t) \/ saveHead(t) \/ handleQueue(t)
      PROVE  crashes' # 0
  BY <1>3 DEF recoverOne, runLocked, saveHead, handleQueue
<1>4. CASE Terminated \/ UNCHANGED vars
  BY <1>4 DEF Terminated, vars
<1> QED BY <1>1, <1>2, <1>3, <1>4 DEF Next, thread

LEMMA InOrderKept ==
  ASSUME Frame, Frame', Written, ~torn => Sound, ~torn /\ crashes = 0 => InOrder, [Next]_vars,
         ~torn', crashes' = 0
  PROVE  InOrder'
<1>1. Sound /\ InOrder
  BY TornStays, CrashStays
<1>2. CASE open \/ recoverRotate \/ recoverDone \/ destroy \/ pushRotate \/ pushWrite
           \/ stopQueue
  BY <1>1, <1>2, OpenInOrder, NoRecoverRotate, RestInOrder, RotateInOrder, WriteInOrder
<1>3. CASE \E t \in Threads : recoverOne(t) \/ thread(t)
  BY <1>1, <1>3, RecoverInOrder, ThreadInOrder
<1>4. CASE crash
  BY <1>4 DEF crash, Frame, OtherTypes
<1>5. CASE Terminated \/ UNCHANGED vars
  <2>1. /\ proc' = proc /\ mem' = mem /\ disk' = disk /\ files' = files /\ hand' = hand
        /\ accepted' = accepted /\ handled' = handled
    BY <1>5 DEF Terminated, vars, threads, history
  <2>2. \A i : Taken(i)' => Taken(i)
    BY <2>1 DEF Taken, InHand
  <2>3. proc' # "up" => disk'.pos = NoPositions
    BY <1>1, <2>1 DEF InOrder
  <2> QED BY <1>1, <2>1, <2>2, <2>3, QuietOrder
<1> QED BY <1>2, <1>3, <1>4, <1>5 DEF Next

LEMMA NothingOvertakes == Frame /\ (~torn /\ crashes = 0 => InOrder) => TakenInOrder
<1> SUFFICES ASSUME Frame, InOrder, NEW i \in accepted, NEW j \in unread(mem), Taken(i)
             PROVE  i < j
  BY DEF TakenInOrder, Taken, InHand
<1>1. Before(files, mem, j)
  BY UnreadIs DEF Frame, HeaderTypes
<1> QED BY <1>1 DEF InOrder, TakenFirst

\* Without a crash and a short write, over rotation, stops and restarts: an item
\* that a thread has taken was written before every item still to be taken, so
\* several threads never reorder the queue or read an item again; and in every
\* run the handler gets an item at most once more per thread for each crash.
THEOREM ItemsAreHandledInOrder == Spec => []HandledInOrderOnce
<1> DEFINE Inv == /\ Frame /\ Written /\ FewCopies /\ (~torn => Sound)
                  /\ ~torn /\ crashes = 0 => InOrder
<1>1. Init => Inv
  BY InitFrame, InitWritten, InitFew, InitSound, InitInOrder
<1>2. ASSUME Inv, [Next]_vars PROVE Inv'
  <2>1. Frame' /\ Written' /\ FewCopies' /\ (~torn => Sound)'
    BY <1>2, FrameKept, WrittenKept, FewKept, SoundKept
  <2> QED BY <1>2, <2>1, InOrderKept
<1>3. Inv => HandledInOrderOnce
  BY CountIsBounded, NothingOvertakes DEF HandledInOrderOnce
<1> QED BY <1>1, <1>2, <1>3, PTL DEF Spec
=============================================================================
