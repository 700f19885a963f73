------------------------------ MODULE MCTbsys ------------------------------
(* Instances of the components of tbsys for TLC; the .cfg gives the other constants. *)
EXTENDS Tbsys

\* A start as a daemon and in the foreground, a stop, a question for help, and a line
\* for each way to be refused.
Arguments ==
  { <<"--daemon", "-p", "pid", "-f", "conf", "-k", "start">>,
    <<"-f", "conf", "-k", "start">>,
    <<"-k", "stop", "--daemon", "-p", "pid">>,
    <<"--noclose", "--help">>,
    <<>>, <<"--unknown">>, <<"-k">>, <<"-f", "">>, <<"-k", "", "--daemon">>,
    <<"--noclose", "-f", "conf", "-k", "start">>,
    <<"--daemon", "-p", "", "-f", "conf", "-k", "start">>,
    <<"--daemon", "-p", "pid", "-k", "start">> }

\* A log that follows its file without rotations, and one that rotates after every line.
LogSettings ==
  { [check |-> TRUE, maxFileSize |-> 0, maxFileIndex |-> 0],
    [check |-> FALSE, maxFileSize |-> 1, maxFileIndex |-> 2] }

\* Every kind of line: headings, one with an empty name, one with a blank behind it;
\* values with and without blanks, with a comment, nothing but a comment, ends outside
\* of ASCII; lines to skip, and lines that are wrong.
Lines ==
  { <<"[", "s", "]", "\n">>, <<"[", "v", "]", " ", "\n">>, <<"[", "]", "\n">>,
    <<"k", "=", "v", "\n">>, <<" ", "k", " ", "=", " ", "v", " ", "k", " ", "#", "s", "\n">>,
    <<"k", "=", "#", "v", "\n">>, <<"k", " ", "=", "#", "v", "\n">>,
    <<"s", "=", "v", "wide", " ", "#", "\n">>, <<"s", "=", "wide", "#", "v", "\n">>,
    <<"k", "=", "\n">>, <<"#", "=", "\n">>, <<"\n">>, <<"k", "\n">>,
    <<" ", "=", "v", "\n">>, <<"=", "v", "\n">>,
    <<"[", "k", "=", "v", "]", "\n">>, <<"[", "wide", "]", "\n">>, <<"k", "=", "v">> }
Heading == <<"[", "s", "]", "\n">>
Files == {<<Heading, l>> : l \in Lines} \cup {<<l, Heading>> : l \in Lines}
          \cup {<<Heading, <<"k", "=", "v", "\n">>, <<"[", "v", "]", "\n">>, <<"k", "=", "s", "\n">>, Heading,
                 <<"k", "=", "k", "\n">>, <<"k", "\n">>, <<"s", "=", "s", "\n">> >>}

\* A number, strings and a vector.
BufferValues ==
  { [kind |-> "number", value |-> <<2>>], [kind |-> "string", value |-> <<>>],
    [kind |-> "string", value |-> <<3>>], [kind |-> "vector", value |-> <<1>>] }

\* Directories below each other, with and without a slash behind the last, one that is
\* refused, one that is cut to nothing, and links to one of two files at one place.
mkdirsOf(p, slash) == [op |-> "mkdirs", path |-> p, slash |-> slash]
checkOf(p, slash, absolute) == [op |-> "checkCreateDir", path |-> p, slash |-> slash, absolute |-> absolute]
linkOf(to, p, recreate) ==
  [op |-> "checkCreateLink", target |-> to, path |-> p, slash |-> FALSE, absolute |-> TRUE, recreate |-> recreate]
NameA == <<"a">>
NameB == <<"b">>
Hidden == <<".", "b">>
DirOrders ==
  { mkdirsOf(<<NameA, NameB>>, FALSE), mkdirsOf(<<NameA, NameB, NameA>>, TRUE), mkdirsOf(<<NameA>>, TRUE),
    checkOf(<<NameA, NameB, NameB>>, FALSE, TRUE), checkOf(<<NameA, Hidden>>, TRUE, FALSE),
    checkOf(<<NameA>>, FALSE, TRUE), checkOf(<<Hidden>>, TRUE, TRUE), checkOf(<<NameA>>, FALSE, FALSE),
    linkOf(<<NameB>>, <<NameA, NameB>>, TRUE), linkOf(<<Hidden>>, <<NameA, NameB>>, TRUE),
    linkOf(<<NameB>>, <<NameA, NameB>>, FALSE), linkOf(<<NameB>>, <<NameA>>, TRUE), linkOf(<<Hidden>>, <<NameA>>, FALSE),
    [linkOf(<<NameB>>, <<NameA, NameB>>, TRUE) EXCEPT !.slash = TRUE] }

\* Nothing but the two files, a file in the way, a link to one of them in a directory or
\* below the root, a link to nothing.
TwoFiles == (<<NameB>> :> aFile) @@ (<<Hidden>> :> aFile)
DirTrees ==
  { TwoFiles, (<<NameA>> :> aFile) @@ TwoFiles, (<<NameA>> :> linkTo(<<Hidden>>)) @@ TwoFiles,
    (<<NameA>> :> aDir) @@ (<<NameA, NameB>> :> linkTo(<<NameB>>)) @@ TwoFiles,
    (<<NameA>> :> aDir) @@ (<<NameA, NameB>> :> linkTo(<<NameA, NameA>>)) @@ TwoFiles }

\* Numbers of one, two and three digits.
PidNumbers == {<<7>>, <<1, 2>>, <<1, 3, 4>>}
=============================================================================
