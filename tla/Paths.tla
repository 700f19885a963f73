------------------------------- MODULE Paths -------------------------------
(***************************************************************************)
(* The path functions of Utility.cpp, which write into a buffer of the     *)
(* caller: getAbsPath, strJoin and getExeRoot. A path is a sequence of     *)
(* "/", "." and a letter, and it grows byte by byte, so that a behaviour   *)
(* meets all paths; what the buffer held before is part of the input.      *)
(***************************************************************************)
EXTENDS Integers, Sequences, SequencesExt

CONSTANTS
  MaxPath,    \* bound of the length of a path
  MaxRoom     \* bound of the length of a buffer

VARIABLE path

PathBytes == {"/", ".", "a"}
NUL == "nul"

PathsTypeOK == path \in Seq(PathBytes) /\ Len(path) <= MaxPath
PathsInit == path = <<>>
PathsNext == Len(path) < MaxPath /\ \E c \in PathBytes : path' = Append(path, c)

-----------------------------------------------------------------------------
(* The buffer of the caller: cells 0..room-1, and one cell behind them that *)
(* is not its own.                                                         *)

buffer(room, junk) == [i \in 0..room |-> junk]
store(mem, at, s) == [i \in DOMAIN mem |-> IF i \in at..at + Len(s) - 1 THEN s[i - at + 1] ELSE mem[i]]
terminate(mem, at) == store(mem, at, <<NUL>>)
overruns(mem, room, junk) == mem[room] # junk

\* What a reader takes for the string: up to the first NUL.
cString(mem) ==
  LET ends == {i \in DOMAIN mem : mem[i] = NUL}
      n == IF ends = {} THEN Cardinality(DOMAIN mem) ELSE CHOOSE i \in ends : \A j \in ends : i <= j
  IN [i \in 1..n |-> mem[i - 1]]

\* What stands between the slashes, empty pieces included.
pathPieces(s) ==
  LET one(r, c) == IF c = "/" THEN Append(r, <<>>) ELSE [r EXCEPT ![Len(r)] = Append(@, c)]
  IN FoldLeft(one, << <<>> >>, s)

Dot == <<".">>
DotDot == <<".", ".">>

\* "..": back to the last slash, looked for from the cell behind the path on.
\* Seeded fault: the slash itself stays.
stepUpKeeps(r) ==
  LET slashes == {i \in 0..r.at : r.mem[i] = "/"}
  IN IF slashes = {} THEN [r EXCEPT !.at = 0] ELSE [r EXCEPT !.at = (CHOOSE i \in slashes : \A j \in slashes : j <= i) + 1]
stepUp(r) ==
  LET slashes == {i \in 0..r.at : r.mem[i] = "/"}
      last == CHOOSE i \in slashes : \A j \in slashes : j <= i
  IN IF slashes = {} THEN [r EXCEPT !.at = 0] ELSE [r EXCEPT !.at = last, !.mem = terminate(@, last)]

\* A name: a slash, and the name if it fits. For the last one the test forgets the NUL.
enterName(r, name, room, isLast) ==
  LET at == r.at + 1
      left == room - at
  IN IF left < Len(name) \/ (~isLast /\ left = Len(name)) THEN [r EXCEPT !.state = "failed"]
     ELSE [mem |-> store(r.mem, r.at, <<"/">> \o name \o IF isLast THEN <<NUL>> ELSE <<>>),
           at |-> at + Len(name), state |-> IF isLast THEN "named" ELSE "run"]

\* getAbsPath(): the loop over the pieces of the path. An empty piece and "." leave the
\* path as it is, and at the end of the path they end the string.
walk(ps, start, room) ==
  LET one(r, i) ==
        LET isLast == i = Len(ps)
        IN IF r.state # "run" THEN r
           ELSE IF ps[i] = DotDot THEN stepUp(r)
           ELSE IF ps[i] \notin {<<>>, Dot} THEN enterName(r, ps[i], room, isLast)
           ELSE IF isLast \/ ps[i] = Dot THEN [r EXCEPT !.mem = terminate(@, r.at)]
           ELSE r
  IN FoldLeft(one, start, [i \in 1..Len(ps) |-> i])

failedPath == [ret |-> -1, mem |-> <<>>]

getAbsPath(s, cwd, room, junk) ==
  LET isAbsolute == Head(s) = "/"
      cwdLen == IF cwd = <<"/">> THEN 0 ELSE Len(cwd)
      mem == terminate(store(buffer(room, junk), 0, cwd), Len(cwd))
      start == IF isAbsolute THEN [mem |-> terminate(buffer(room, junk), 0), at |-> 0, state |-> "run"]
               ELSE [mem |-> terminate(mem, cwdLen), at |-> cwdLen, state |-> "run"]
      r == walk(pathPieces(IF isAbsolute THEN Tail(s) ELSE s), start, room)
  IN IF s = <<>> \/ room < 2 THEN failedPath
     ELSE IF ~isAbsolute /\ Len(cwd) >= room THEN failedPath
     ELSE IF r.state = "failed" THEN failedPath
     ELSE [ret |-> 0, mem |-> IF r.state = "run" /\ r.mem[0] # "/" THEN store(r.mem, 0, <<"/", NUL>>) ELSE r.mem]

-----------------------------------------------------------------------------

\* strJoin(): the fields with a separator between them, as long as they fit.
strJoin(fields, sep, room) ==
  LET add(r, s) == IF r.left <= Len(s) THEN [r EXCEPT !.ok = FALSE]
                   ELSE [r EXCEPT !.out = @ \o s, !.left = @ - Len(s)]
      one(r, i) ==
        LET q == IF i > 1 /\ sep # <<>> THEN add(r, sep) ELSE r
        IN IF ~r.ok THEN r ELSE IF ~q.ok THEN q ELSE add(q, fields[i])
      r == FoldLeft(one, [out |-> <<>>, left |-> room, ok |-> TRUE], [i \in 1..Len(fields) |-> i])
  IN IF fields = <<>> \/ ~r.ok THEN [ret |-> -1, out |-> r.out] ELSE [ret |-> Len(r.out), out |-> r.out]

\* getExe() and getExeRoot(): readlink ends nothing with a NUL, and the search for the
\* last slash begins at the end of the buffer.
getExeRoot(exe, room, junk) ==
  LET mem == store(buffer(room, junk), 0, exe)
      slashes == {i \in 1..room - 1 : mem[i] = "/"}
  IN IF Len(exe) >= room THEN failedPath
     ELSE [ret |-> 0, mem |-> IF slashes = {} THEN mem ELSE terminate(mem, CHOOSE i \in slashes : \A j \in slashes : j <= i)]

-----------------------------------------------------------------------------
(* Properties *)

\* The names of the path that s means, from the root.
names(s, cwd) ==
  LET one(r, p) == IF p \in {<<>>, Dot} THEN r
                   ELSE IF p # DotDot THEN Append(r, p) ELSE IF r = <<>> THEN r ELSE Front(r)
  IN FoldLeft(one, <<>>, pathPieces(IF Head(s) = "/" THEN s ELSE cwd \o <<"/">> \o s))
canonical(s, cwd) ==
  LET ns == names(s, cwd)
  IN IF ns = <<>> THEN <<"/">> ELSE FlattenSeq([i \in 1..Len(ns) |-> <<"/">> \o ns[i]])

\* What getAbsPath calls canonical is the path without ".", ".." and empty names, from
\* the working directory if it is relative; it fails only for want of room, and goes one
\* cell over the end only with the NUL of a path as long as the buffer. A buffer that
\* holds a slash already misleads it when the path has a ".." (Utility.cpp:31-176).
AbsPathIsCanonical ==
  path # <<>> =>
    \A cwd \in {<<"/">>, <<"/", "a">>}, room \in 2..MaxRoom, junk \in {"a", "/"} :
      LET r == getAbsPath(path, cwd, room, junk)
          longest == Len(path) + IF Head(path) = "/" THEN 0 ELSE Len(cwd) + 1
      IN \/ junk = "/" /\ DotDot \in ToSet(pathPieces(path))
         \/ /\ r.ret = 0 => /\ cString(r.mem) = canonical(path, cwd)
                            /\ overruns(r.mem, room, junk) <=> Len(canonical(path, cwd)) = room
            /\ r.ret = -1 => room <= longest

\* strJoin answers the length of the whole if all of it and its NUL fit, and -1 with a
\* beginning of it otherwise (Utility.cpp:373-409).
JoinFits ==
  \A room \in 1..MaxRoom, sep \in {<<>>, <<"/">>} :
    LET fields == pathPieces(path)
        whole == FlattenSeq([i \in 1..Len(fields) |-> IF i = 1 THEN fields[i] ELSE sep \o fields[i]])
        r == strJoin(fields, sep, room)
    IN /\ r.ret = IF Len(whole) < room THEN Len(whole) ELSE -1
       /\ Len(r.out) < room /\ IsPrefix(r.out, whole)

\* The root of a program below a directory is the path up to its last slash, if the
\* buffer held no slash (Utility.cpp:480-497).
ExeRootIsDirectory ==
  \A room \in 2..MaxRoom :
    LET r == getExeRoot(path, room, "a")
        slashes == {i \in 2..Len(path) : path[i] = "/"}
    IN r.ret = 0 /\ slashes # {} =>
         cString(r.mem) = SubSeq(path, 1, (CHOOSE i \in slashes : \A j \in slashes : j <= i) - 1)

PathsSafe == AbsPathIsCanonical /\ JoinFits /\ ExeRootIsDirectory
=============================================================================
