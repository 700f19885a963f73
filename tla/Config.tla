------------------------------- MODULE Config -------------------------------
(***************************************************************************)
(* CConfig: files of sections and "key = value" lines that are loaded one  *)
(* after another into one map, and what is read from it. A line is a       *)
(* sequence of tokens: the blank, the newline, the four characters that    *)
(* mean something, and words. "wide" is a word that ends outside of ASCII, *)
(* whose last char is negative where char is signed.                       *)
(***************************************************************************)
EXTENDS Integers, Sequences, FiniteSets, SequencesExt

CONSTANTS
  ConfigFiles,  \* the files, as sequences of lines
  MaxLoads      \* bound of the files that are loaded

VARIABLES
  configMap,    \* m_configMap: a function of the sections to functions of the keys
  loaded        \* ghost: the files that were loaded, and if load() succeeded

configVars == <<configMap, loaded>>

Word == {"s", "k", "v", "wide"}
NoSection == <<"none">>
emptyMap == [x \in {} |-> <<>>]

ConfigTypeOK ==
  /\ \A section \in DOMAIN configMap, key \in UNION {DOMAIN configMap[s] : s \in DOMAIN configMap} :
       key \in DOMAIN configMap[section] => configMap[section][key] # <<>>
  /\ Len(loaded) <= MaxLoads

ConfigInit == configMap = emptyMap /\ loaded = <<>>

-----------------------------------------------------------------------------
(* A line *)

position(str, c) == CHOOSE i \in 1..Len(str) : str[i] = c /\ \A j \in 1..i - 1 : str[j] # c
before(str, c) == IF c \in ToSet(str) THEN SubSeq(str, 1, position(str, c) - 1) ELSE str
after(str, c) == SubSeq(str, position(str, c) + 1, Len(str))

\* str without the tokens of blanks at its end, or at its start.
trimEnd(str, blanks) ==
  LET ends == {i \in 1..Len(str) : str[i] \notin blanks}
  IN IF ends = {} THEN <<>> ELSE SubSeq(str, 1, CHOOSE i \in ends : \A j \in ends : j <= i)
trimStart(str, blanks) == Reverse(trimEnd(Reverse(str), blanks))
Space == {" ", "\n"}

\* isSectionName(): the name, and what is left of the line; the bracket at its end is
\* cut off before the name is looked at.
isSectionName(str) ==
  LET t == trimEnd(str, Space)
      name == SubSeq(t, 2, Len(t) - 1)
  IN IF Len(str) <= 2 \/ Head(str) # "[" \/ Last(t) # "]" THEN [name |-> NoSection, rest |-> str]
     ELSE IF ToSet(name) \subseteq Word \ {"wide"} THEN [name |-> name, rest |-> <<>>]
     ELSE [name |-> NoSection, rest |-> Front(t)]

\* What is in front of a comment. The end is looked for with *(p - 1) <= ' ', which
\* takes the last char of a wide word for blank, too.
inFront(rest) == trimEnd(before(rest, "#"), Space \cup {"wide"})
\* The value. When nothing is in front of the comment, p runs below the value, which is
\* then all that follows; only a "=" that is still there, with blanks before and none
\* behind it, stops p at the value.
valueOf(rest, stops) ==
  LET value == trimStart(rest, {" "})
  IN IF inFront(value) # <<>> THEN inFront(value)
     ELSE IF stops /\ rest # <<>> /\ Head(rest) # " " THEN <<>> ELSE value

\* parseValue(): -1 for a line to skip, -2 for one that is wrong. With blanks before a
\* leading "=" the name is cut in front of the line, and ends where the value ends.
isComment(p) == p = <<>> \/ Head(p) = "#"
parseValue(str) ==
  LET t == trimEnd(str, Space)
      p == trimStart(t, Space)
      rest == after(p, "=")
      stops == before(t, "=") # <<>> /\ Last(before(t, "=")) = " "
      name == IF Head(p) = "=" /\ stops THEN <<"=">> \o inFront(rest) ELSE trimEnd(before(p, "="), {" "})
  IN IF isComment(p) THEN [ret |-> -1]
     ELSE IF "=" \notin ToSet(p) \/ name = <<>> THEN [ret |-> -2]
     ELSE [ret |-> 0, key |-> name, val |-> valueOf(rest, stops)]

-----------------------------------------------------------------------------
(* load() and the readers *)

\* A value is added to those that the key has.
added(map, section, key, val) ==
  [map EXCEPT ![section] =
     [k \in DOMAIN @ \cup {key} |-> IF k \notin DOMAIN @ THEN <<val>>
                                    ELSE IF k = key THEN Append(@[k], val) ELSE @[k]]]
withSection(map, section) ==
  [s \in DOMAIN map \cup {section} |-> IF s \in DOMAIN map THEN map[s] ELSE emptyMap]

\* One round of the loop over the lines.
loadLine(m, line) ==
  LET s == isSectionName(line)
      parsedLine == parseValue(s.rest)
  IN IF m.failed THEN m
     ELSE IF s.name # NoSection THEN [m EXCEPT !.map = withSection(@, s.name), !.section = s.name]
     ELSE IF parsedLine.ret = -1 THEN m
     ELSE IF parsedLine.ret = -2 \/ m.section = NoSection THEN [m EXCEPT !.failed = TRUE]
     ELSE [m EXCEPT !.map = added(@, m.section, parsedLine.key, parsedLine.val)]
loadInto(map, file) == FoldLeft(loadLine, [map |-> map, section |-> NoSection, failed |-> FALSE], file)

load(file) ==
  /\ Len(loaded) < MaxLoads
  /\ configMap' = loadInto(configMap, file).map /\ loaded' = Append(loaded, file)

getStringList(map, section, key) ==
  IF section \in DOMAIN map /\ key \in DOMAIN map[section] THEN map[section][key] ELSE <<>>

\* toString() as a file; the order of sections and keys is that of a hash map, any fixed one.
ordered(names) == SetToSeq(names)
toString(map) ==
  LET keyLines(section, key) ==
        [i \in DOMAIN map[section][key] |->
           <<" ">> \o key \o <<" ", "=", " ">> \o map[section][key][i] \o <<"\n">>]
      sectionLines(section) ==
        << <<"[">> \o section \o <<"]", "\n">> >>
          \o FlattenSeq([i \in 1..Cardinality(DOMAIN map[section]) |->
                           keyLines(section, ordered(DOMAIN map[section])[i])])
  IN FlattenSeq([i \in 1..Cardinality(DOMAIN map) |-> sectionLines(ordered(DOMAIN map)[i])])

ConfigNext == \E file \in ConfigFiles : load(file)

-----------------------------------------------------------------------------
(* Properties *)

\* What a reader of a file would expect, told line by line: a line that parses belongs to
\* the section whose heading is the last above it, and counts if no line before it, nor
\* itself, is wrong.
isHeading(line) == isSectionName(line).name # NoSection
isEntry(line) == ~isHeading(line) /\ parseValue(isSectionName(line).rest).ret = 0
isWrong(file, i) ==
  /\ ~isHeading(file[i])
  /\ \/ parseValue(isSectionName(file[i]).rest).ret = -2
     \/ isEntry(file[i]) /\ \A j \in 1..i - 1 : ~isHeading(file[j])
valuesIn(file, section, key) ==
  LET read == {i \in 1..Len(file) : isEntry(file[i]) /\ \A j \in 1..i : ~isWrong(file, j)}
      sectionAt(i) == LET above == {j \in 1..i : isHeading(file[j])}
                      IN isSectionName(file[CHOOSE j \in above : \A k \in above : k <= j]).name
      entry(i) == parseValue(isSectionName(file[i]).rest)
      chosen == {i \in read : sectionAt(i) = section /\ entry(i).key = key}
  IN [n \in 1..Cardinality(chosen) |->
        entry(CHOOSE i \in chosen : Cardinality({j \in chosen : j < i}) = n - 1).val]

\* However the files repeat and interleave sections and keys, a key has the values of its
\* lines under that section, in their order; a file that is wrong counts up to the wrong
\* line (config.cpp:128-165, :173-209).
ValuesInOrder ==
  \A section \in DOMAIN configMap, key \in UNION {DOMAIN configMap[s] : s \in DOMAIN configMap} :
    getStringList(configMap, section, key)
      = FlattenSeq([n \in 1..Len(loaded) |-> valuesIn(loaded[n], section, key)])

\* What toString() writes can be loaded and gives the same configuration, but for a key
\* that begins with "=" (config.cpp:51-91, :271-295).
ConfigReadsBack ==
  \/ \E section \in DOMAIN configMap : \E key \in DOMAIN configMap[section] : Head(key) = "="
  \/ loadInto(emptyMap, toString(configMap)) =
       [map |-> configMap, failed |-> FALSE,
        section |-> IF DOMAIN configMap = {} THEN NoSection
                    ELSE ordered(DOMAIN configMap)[Cardinality(DOMAIN configMap)]]

ConfigSafe == ValuesInOrder /\ ConfigReadsBack
=============================================================================
