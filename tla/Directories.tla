----------------------------- MODULE Directories -----------------------------
(***************************************************************************)
(* The functions that make directories and links: CFileUtil::mkdirs,       *)
(* checkCreateDir and checkCreateLink. They look and then act, one system  *)
(* call after the other, while other threads and processes do the same on  *)
(* the same tree.                                                          *)
(***************************************************************************)
EXTENDS Integers, Sequences, FiniteSets, SequencesExt

CONSTANTS
  Makers,    \* the threads
  Orders,    \* the calls that a thread may make
  Trees      \* what may be there before

\* Paths are sequences of names, the root has a slash at its end, what a tree has stands in
\* directories, and a call names what the code is given.
pathOK(p) == p \in Seq(ToSet(p))
prefixes(p) == {SubSeq(p, 1, i) : i \in 1..Len(p)}
orderOK(o) ==
  /\ o.op \in {"mkdirs", "checkCreateDir", "checkCreateLink"}
  /\ pathOK(o.path) /\ o.slash \in BOOLEAN /\ (o.path = <<>> => o.slash)
  /\ o.op # "mkdirs" => o.absolute \in BOOLEAN
  /\ o.op = "checkCreateLink" => o.recreate \in BOOLEAN
nodeOK(T, p) ==
  /\ pathOK(p) /\ p # <<>>
  /\ T[p].kind \in {"dir", "file", "link"} /\ T[p] = [kind |-> T[p].kind, to |-> T[p].to]
  /\ \A q \in prefixes(p) \ {p} : q \in DOMAIN T /\ T[q].kind = "dir"

\* A link leads to a file that stays or to nothing that is made a directory.
targets ==
  {o.target : o \in {x \in Orders : x.op = "checkCreateLink"}}
    \cup UNION {{T[p].to : p \in {q \in DOMAIN T : T[q].kind = "link"}} : T \in Trees}
staysFile(q) ==
  /\ \A T \in Trees : q \in DOMAIN T /\ T[q].kind = "file"
  /\ \A o \in Orders : o.op = "checkCreateLink" => o.path # q
staysAway(q) ==
  /\ q # <<>> /\ \A T \in Trees : q \in DOMAIN T => T[q].kind # "dir"
  /\ \A o \in Orders : q \notin prefixes(o.path)

ASSUME DirAssumption ==
  /\ \A o \in Orders : orderOK(o)
  /\ \A T \in Trees : \A p \in DOMAIN T : nodeOK(T, p)
  /\ \A q \in targets : staysFile(q) \/ staysAway(q)

VARIABLES
  tree,      \* what is at each path but the root
  order,     \* the call of a thread
  dirPc,     \* the system call that it makes next
  field,     \* how many names of the path it has dealt with
  outcome    \* what the call returned

dirVars == <<tree, order, dirPc, field, outcome>>

\* A path is the sequence of its names; slash says that one follows the last name.
aDir == [kind |-> "dir", to |-> <<>>]
aFile == [kind |-> "file", to |-> <<>>]
linkTo(p) == [kind |-> "link", to |-> p]

DirSteps == {"lstat", "mkdir", "mkdirLast", "stat", "create", "access", "accessLink", "readlink",
             "unlink", "symlink", "end"}
Results == {"pending", "done", "failed", "refused"}

DirTypeOK ==
  /\ \A p \in DOMAIN tree : tree[p].kind \in {"dir", "file", "link"}
  /\ order \in [Makers -> Orders] /\ dirPc \in [Makers -> DirSteps]
  /\ field \in [Makers -> Nat] /\ outcome \in [Makers -> Results]

firstCall(o) == CASE o.op = "mkdirs" -> "lstat"
                  [] o.op = "checkCreateDir" -> "stat"
                  [] o.op = "checkCreateLink" -> "access"

DirInit ==
  /\ tree \in Trees /\ order \in [Makers -> Orders]
  /\ dirPc = [t \in Makers |-> firstCall(order[t])]
  /\ field = [t \in Makers |-> 0] /\ outcome = [t \in Makers |-> "pending"]

-----------------------------------------------------------------------------
(* The system calls *)

kindOf(p) == IF p = <<>> THEN "dir" ELSE IF p \in DOMAIN tree THEN tree[p].kind ELSE "none"
isMade(p) == kindOf(p) = "dir"

\* Through a link to what it points to, which is a file or nothing here.
followed(p) == IF kindOf(p) = "link" THEN kindOf(tree[p].to) ELSE kindOf(p)

hasParent(p) == \A i \in 0..Len(p) - 1 : isMade(SubSeq(p, 1, i))
isBelowFile(p) == \E i \in 1..Len(p) - 1 : kindOf(SubSeq(p, 1, i)) \notin {"dir", "none"}
mayMake(p) == p \notin DOMAIN tree /\ hasParent(p)
entersAt(p, node) == tree' = [q \in DOMAIN tree \cup {p} |-> IF q = p THEN node ELSE tree[q]]

proceeds(t, step) == dirPc' = [dirPc EXCEPT ![t] = step] /\ UNCHANGED outcome
answers(t, result) == dirPc' = [dirPc EXCEPT ![t] = "end"] /\ outcome' = [outcome EXCEPT ![t] = result]
nextField(t) == field' = [field EXCEPT ![t] = @ + 1]

prefix(t) == SubSeq(order[t].path, 1, field[t] + 1)

-----------------------------------------------------------------------------
(* CFileUtil::mkdirs *)

lstat(t) ==
  /\ dirPc[t] = "lstat"
  /\ IF isMade(order[t].path) THEN answers(t, "done") ELSE proceeds(t, "mkdir")
  /\ UNCHANGED <<tree, order, field>>

\* The loop makes every directory that a slash follows, and passes those that are there.
loopLength(o) == Len(o.path) - IF o.slash THEN 0 ELSE 1

\* Seeded fault: a directory that is there already is an error.
isThereNever(p) == FALSE
isThere(p) == p \in DOMAIN tree

mkdir(t) ==
  /\ dirPc[t] = "mkdir"
  /\ IF field[t] = loopLength(order[t]) THEN proceeds(t, "mkdirLast") /\ UNCHANGED <<tree, field>>
     ELSE IF mayMake(prefix(t)) THEN entersAt(prefix(t), aDir) /\ nextField(t) /\ UNCHANGED <<dirPc, outcome>>
     ELSE IF isThere(prefix(t)) THEN nextField(t) /\ UNCHANGED <<tree, dirPc, outcome>>
     ELSE answers(t, "failed") /\ UNCHANGED <<tree, field>>
  /\ UNCHANGED order

\* The last one may not be there, not even when the loop has just made it.
mkdirLast(t) ==
  /\ dirPc[t] = "mkdirLast"
  /\ IF mayMake(order[t].path) THEN entersAt(order[t].path, aDir) /\ answers(t, "done")
     ELSE answers(t, "failed") /\ UNCHANGED tree
  /\ UNCHANGED <<order, field>>

-----------------------------------------------------------------------------
(* checkCreateDir, which checkCreateLink calls for the path of its link *)

\* The directories of the path; an absolute one needs a slash behind its first name.
fieldNum(o) == Len(o.path) - IF o.slash THEN 0 ELSE 1
isCut(o) == o.absolute /\ fieldNum(o) = 0

\* A name with a dot in front ends it; the first name of an absolute path has its slash in front.
isHidden(t) == Head(Last(prefix(t))) = "." /\ ~(order[t].absolute /\ field[t] = 0)

dirAnswers(t, result) ==
  IF order[t].op = "checkCreateLink" /\ result # "failed" THEN proceeds(t, "symlink") ELSE answers(t, result)

checkField(t) ==
  /\ dirPc[t] = "stat"
  /\ IF isCut(order[t]) THEN dirAnswers(t, "failed") /\ UNCHANGED field
     ELSE IF field[t] = fieldNum(order[t]) THEN dirAnswers(t, "done") /\ UNCHANGED field
     ELSE IF isHidden(t) THEN dirAnswers(t, "refused") /\ UNCHANGED field
     ELSE IF followed(prefix(t)) = "dir" THEN nextField(t) /\ UNCHANGED <<dirPc, outcome>>
     ELSE IF followed(prefix(t)) = "none" THEN proceeds(t, "create") /\ UNCHANGED field
     ELSE dirAnswers(t, "failed") /\ UNCHANGED field
  /\ UNCHANGED <<tree, order>>

createField(t) ==
  /\ dirPc[t] = "create"
  /\ IF mayMake(prefix(t)) THEN entersAt(prefix(t), aDir) /\ nextField(t) /\ proceeds(t, "stat")
     ELSE dirAnswers(t, "failed") /\ UNCHANGED <<tree, field>>
  /\ UNCHANGED order

-----------------------------------------------------------------------------
(* checkCreateLink *)

accessTarget(t) ==
  /\ dirPc[t] = "access"
  /\ IF followed(order[t].target) = "none" THEN answers(t, "failed") ELSE proceeds(t, "accessLink")
  /\ UNCHANGED <<tree, order, field>>

\* A link to nothing counts as none; below a file, and at a file when a slash follows its
\* name, access() fails with another error.
noDirectory(t) ==
  LET p == order[t].path
  IN IF followed(p) = "none" THEN isBelowFile(p) ELSE followed(p) = "file" /\ order[t].slash

accessLink(t) ==
  /\ dirPc[t] = "accessLink"
  /\ IF noDirectory(t) THEN answers(t, "failed")
     ELSE proceeds(t, IF followed(order[t].path) = "none" THEN "stat" ELSE "readlink")
  /\ UNCHANGED <<tree, order, field>>

\* A slash makes readlink() look behind the link.
readLink(t) ==
  LET p == order[t].path
  IN /\ dirPc[t] = "readlink"
     /\ IF kindOf(p) # "link" \/ order[t].slash THEN answers(t, "failed")
        ELSE IF tree[p].to = order[t].target THEN answers(t, "done")
        ELSE IF ~order[t].recreate THEN answers(t, "failed") ELSE proceeds(t, "unlink")
     /\ UNCHANGED <<tree, order, field>>

unlinkAt(p) == tree' = [q \in DOMAIN tree \ {p} |-> tree[q]]
unlink(t) ==
  /\ dirPc[t] = "unlink" /\ proceeds(t, "stat")
  /\ IF kindOf(order[t].path) \in {"link", "file"} THEN unlinkAt(order[t].path) ELSE UNCHANGED tree
  /\ UNCHANGED <<order, field>>

\* No link is made at a name that a slash follows.
symlink(t) ==
  /\ dirPc[t] = "symlink"
  /\ IF mayMake(order[t].path) /\ ~order[t].slash THEN entersAt(order[t].path, linkTo(order[t].target)) /\ answers(t, "done")
     ELSE answers(t, "failed") /\ UNCHANGED tree
  /\ UNCHANGED <<order, field>>

makes(t) ==
  \/ lstat(t) \/ mkdir(t) \/ mkdirLast(t) \/ checkField(t) \/ createField(t)
  \/ accessTarget(t) \/ accessLink(t) \/ readLink(t) \/ unlink(t) \/ symlink(t)

DirNext == \E t \in Makers : makes(t)

-----------------------------------------------------------------------------
(* Properties *)

linkCalls == {t \in Makers : order[t].op = "checkCreateLink"}

\* What is, or may have been, in the way: no directory, or a link that some call makes anew.
obstacles(p) == {q \in prefixes(p) : kindOf(q) \notin {"dir", "none"} \/ \E t \in linkCalls : order[t].path = q}

\* mkdirs leaves the directory there unless something else is in the way, also when it
\* returns false because another thread, or itself for a path that ends in a slash, has
\* made it in the meantime (fileutil.cpp:22-54).
MkdirsMakes ==
  \A t \in Makers :
    order[t].op = "mkdirs" /\ outcome[t] # "pending" =>
      /\ outcome[t] = "done" => isMade(order[t].path)
      /\ obstacles(order[t].path) = {} => isMade(order[t].path)

\* checkCreateDir returns 0 when the directories are there; when it fails with nothing
\* in the way, another thread has made the directory at which it stopped, and those
\* below it may be missing (Utility.cpp:300-330).
CheckedAreThere ==
  \A t \in Makers :
    LET o == order[t]
        fields == {SubSeq(o.path, 1, i) : i \in 1..fieldNum(o)}
    IN o.op = "checkCreateDir" /\ ~isCut(o) =>
         /\ outcome[t] = "done" => \A p \in fields : followed(p) = "dir"
         /\ outcome[t] = "failed" => isMade(prefix(t)) \/ obstacles(prefix(t)) # {}

\* When all calls of checkCreateLink have returned and one with success, the link is
\* there and points to what a successful one asked for, whichever of them took away the
\* other's, unless a directory of its name was made meanwhile, or one of them took away a
\* link of the root directory, which checkCreateDir then refuses (Utility.cpp:332-360).
LinkIsThere ==
  LET good == {t \in linkCalls : outcome[t] = "done"}
      takenAway(p) == \E u \in linkCalls \ good : order[u].path = p /\ order[u].recreate /\ isCut(order[u])
  IN (\A t \in linkCalls : outcome[t] # "pending") =>
       \A t \in good :
         \/ isMade(order[t].path) \/ takenAway(order[t].path)
         \/ \E u \in good : /\ order[u].path = order[t].path /\ order[u].path \in DOMAIN tree
                           /\ tree[order[u].path] = linkTo(order[u].target)

DirectoriesSafe == MkdirsMakes /\ CheckedAreThere /\ LinkIsThere
=============================================================================
