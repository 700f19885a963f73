------------------------------ MODULE Strings ------------------------------
(***************************************************************************)
(* The functions of CStringUtil on a string of bytes, told by their loops. *)
(* The string grows byte by byte, so that a behaviour meets all strings of *)
(* the bytes given. A byte from 128 on is the first half of a character of *)
(* two bytes.                                                              *)
(***************************************************************************)
EXTENDS Integers, Sequences, FiniteSets, SequencesExt

CONSTANTS
  Bytes,    \* the bytes of a string
  MaxLen    \* bound of its length

VARIABLE text

StringsTypeOK == text \in Seq(Bytes) /\ Len(text) <= MaxLen
StringsInit == text = <<>>
StringsNext == Len(text) < MaxLen /\ \E c \in Bytes : text' = Append(text, c)

Blank == 32
Percent == 37
Plus == 43
Comma == 44
isDigit(c) == c \in 48..57
Upper == 65..90
Lower == 97..122
isHalf(c) == c >= 128
isXDigit(c) == isDigit(c) \/ c \in 65..70 \/ c \in 97..102
hexValue(c) == IF isDigit(c) THEN c - 48 ELSE IF c \in Upper THEN c - 55 ELSE c - 87

\* strToLower() and strToUpper(): the byte after the first half of a character is passed
\* over, which is the end of the string when there is no second half.
recased(s, others, distance) ==
  LET one(r, c) ==
        [out |-> Append(r.out, IF ~r.half /\ c \in others THEN c + distance ELSE c), half |-> ~r.half /\ isHalf(c)]
  IN FoldLeft(one, [out |-> <<>>, half |-> FALSE], s)
strToLower(s) == recased(s, Upper, 32)
strToUpper(s) == recased(s, Lower, -32)

\* trim() with the bytes to cut off and the mode: 1 in front, 2 behind, 3 both.
trim(s, what, mode) ==
  LET stops == {i \in 1..Len(s) : s[i] \notin what}
      first == IF mode = 2 THEN 1 ELSE IF stops = {} THEN Len(s) + 1 ELSE CHOOSE i \in stops : \A j \in stops : i <= j
      last == IF mode = 1 THEN Len(s) ELSE IF stops = {} THEN 0 ELSE CHOOSE i \in stops : \A j \in stops : j <= i
  IN SubSeq(s, first, last)

\* split(): what is behind the last delimiter is a piece only if it is not empty.
split(s, delim) ==
  LET one(r, c) ==
        IF c \notin delim THEN [r EXCEPT !.piece = Append(@, c)]
        ELSE [piece |-> <<>>, list |-> Append(r.list, r.piece)]
      r == FoldLeft(one, [piece |-> <<>>, list |-> <<>>], s)
  IN IF r.piece # <<>> THEN Append(r.list, r.piece) ELSE r.list

\* urlDecode(): skip counts the digits of an escape that was decoded.
urlDecode(s) ==
  LET escape(i) == s[i] = Percent /\ i + 2 <= Len(s) /\ isXDigit(s[i + 1]) /\ isXDigit(s[i + 2])
      one(r, i) ==
        CASE r.skip > 0 -> [r EXCEPT !.skip = @ - 1]
          [] s[i] = Plus -> [r EXCEPT !.out = Append(@, Blank)]
          [] escape(i) -> [out |-> Append(r.out, hexValue(s[i + 1]) * 16 + hexValue(s[i + 2])), skip |-> 2]
          [] OTHER -> [r EXCEPT !.out = Append(@, s[i])]
  IN FoldLeft(one, [out |-> <<>>, skip |-> 0], [i \in 1..Len(s) |-> i]).out

-----------------------------------------------------------------------------
(* Properties *)

\* Changing the case changes the letters and no half of a character of two bytes; the
\* loop leaves the string only when it ends in half a character (stringutil.cpp:49-82).
CaseKeepsHalves ==
  LET halves == {i \in 1..Len(text) : \E k \in 0..i - 1 :
                   /\ \A j \in i - k..i - 1 : isHalf(text[j])
                   /\ (i - k = 1 \/ ~isHalf(text[i - k - 1])) /\ k % 2 = 1}
      free == {i \in 1..Len(text) : i \notin halves /\ ~isHalf(text[i])}
      lower == strToLower(text)
      upper == strToUpper(text)
  IN /\ lower.half = (text # <<>> /\ isHalf(Last(text)) /\ Len(text) \notin halves)
     /\ \A i \in 1..Len(text) :
          IF i \in free THEN lower.out[i] \notin Upper /\ upper.out[i] \notin Lower
                              /\ strToLower(upper.out).out[i] = lower.out[i]
          ELSE lower.out[i] = text[i] /\ upper.out[i] = text[i]

\* What trim() leaves is a part of the string, with nothing to trim at the ends of its
\* mode, and what it cuts off was all to be trimmed (stringutil.cpp:87-121).
TrimsTheEnds ==
  \A mode \in 1..3 :
    LET t == trim(text, {Blank}, mode)
    IN \E front \in 0..Len(text) :
         /\ t = SubSeq(text, front + 1, front + Len(t))
         /\ \A i \in (1..front) \cup (front + Len(t) + 1..Len(text)) : text[i] = Blank
         /\ mode = 2 => front = 0
         /\ mode = 1 => front + Len(t) = Len(text)
         /\ t # <<>> => (mode # 2 => Head(t) # Blank) /\ (mode # 1 => Last(t) # Blank)

\* The pieces with a delimiter between them are the string again, up to a delimiter at
\* its end, and no piece has one (stringutil.cpp:152-188).
SplitKeepsAll ==
  LET list == split(text, {Comma})
      joined == FlattenSeq([i \in 1..Len(list) |-> Append(list[i], Comma)])
  IN /\ joined \in {text, Append(text, Comma)}
     /\ \A i \in 1..Len(list) : Comma \notin ToSet(list[i])

\* What a browser encodes is decoded, with either case of digits, and an escape that is
\* none stays as it is (stringutil.cpp:193-228).
UrlDecodes ==
  LET hex(n, letters) == IF n < 10 THEN n + 48 ELSE n - 10 + letters
      encoded(c, letters) ==
        IF c = Blank THEN <<Plus>>
        ELSE IF c \in {Percent, Plus, Comma} \/ isHalf(c) THEN <<Percent, hex(c \div 16, letters), hex(c % 16, letters)>>
        ELSE <<c>>
  IN /\ \A letters \in {65, 97} : urlDecode(FlattenSeq([i \in 1..Len(text) |-> encoded(text[i], letters)])) = text
     /\ \A i \in 1..Len(text) : ~isXDigit(text[i]) => urlDecode(<<Percent, text[i]>> \o <<Comma>>)[1] = Percent

StringsSafe == CaseKeepsHalves /\ TrimsTheEnds /\ SplitKeepsAll /\ UrlDecodes
=============================================================================
